------------------------ MODULE PublicRegistry_proofs ------------------------
(***************************************************************************)
(* For every set of objects and keys and every bound: what is served as    *)
(* public was signed by an operator, and, as long as nobody resets the     *)
(* registry, a withdrawn object is not served.                             *)
(***************************************************************************)
EXTENDS PublicRegistry, TLAPS

\* What a lookup in one public root serves is held there.
LEMMA ServedFromCached ==
    ASSUME NEW o, NEW key, NEW s \in ServedFrom(o, key), s # Nothing
    PROVE  /\ s.obj = o
           /\ s.toks \in cached[o]
           /\ s = [obj |-> o, toks |-> s.toks]
  BY DEF ServedFrom, Longest, Nothing

\* What a lookup without a manifest serves is held under the root of an object
\* that is not revoked.
LEMMA LookupCached ==
    ASSUME NEW key, NEW dead, NEW s \in Lookup(key, dead), s # Nothing
    PROVE  /\ s.obj \in Object \ dead
           /\ s.toks \in cached[s.obj]
           /\ s = [obj |-> s.obj, toks |-> s.toks]
<1>1. PICK o \in MatchingPublicRoot(key, dead) : s \in ServedFrom(o, key)
  BY DEF Lookup, Nothing
<1>2. o \in Object \ dead
  BY <1>1 DEF MatchingPublicRoot
<1> QED
  BY <1>1, <1>2, ServedFromCached

\* A prefix of an authorized key is authorized once the manifest is in issued.
LEMMA PrefixAuthorized ==
    ASSUME TypeOK, NEW m \in issued, m.mac = "operator", ~m.revoked,
           NEW p \in Prefixes(m.toks)
    PROVE  Authorized(m.obj, p)
  BY DEF Authorized, Prefixes

\* What public roots hold and lookups serve was signed by an operator: the
\* invariant that ServedAuthorized rests on.
THEOREM IInvTheorem == Spec => []IInv
<1>1. Init => IInv
  BY DEF Init, IInv, TypeOK, ServedAuthorized, Nothing
<1>2. IInv /\ [Next]_vars => IInv'
  <2> SUFFICES ASSUME IInv, [Next]_vars PROVE IInv'
    OBVIOUS
  <2> USE DEF IInv
  <2>0. ASSUME issued \subseteq issued', NEW o, NEW p, Authorized(o, p)
        PROVE  Authorized(o, p)'
    BY <2>0 DEF Authorized
  <2>1. ASSUME NEW key \in Key, NEW m \in issued, MatchWith(key, m) PROVE IInv'
    <3>0. m \in Manifest
      BY DEF TypeOK
    <3>1. served' # Nothing =>
             /\ served'.obj \in Object /\ served'.toks \in cached[served'.obj]
             /\ served' = [obj |-> served'.obj, toks |-> served'.toks]
      <4>1. CASE Valid(m, key)
        BY <2>1, <3>0, <4>1, ServedFromCached DEF MatchWith, Manifest
      <4>2. CASE ~Valid(m, key)
        BY <2>1, <4>2, LookupCached DEF MatchWith
      <4> QED
        BY <4>1, <4>2
    <3>2. TypeOK'
      <4>1. served' \in [obj : Object, toks : Key] \cup {Nothing}
        BY <3>1 DEF TypeOK
      <4> QED
        BY <2>1, <3>0, <4>1 DEF MatchWith, RevokedBy, Manifest, TypeOK
    <3>3. ServedAuthorized'
      BY <2>1, <3>1, <2>0 DEF MatchWith, ServedAuthorized
    <3> QED
      BY <2>1, <3>2, <3>3, <2>0 DEF MatchWith
  <2>2. ASSUME NEW key \in Key, NEW m \in issued, InsertWith(key, m) PROVE IInv'
    <3> DEFINE prefix == SubSeq(key, 1, Len(m.toks))
    <3>0. m \in Manifest
      BY DEF TypeOK
    <3>1. served' = Nothing /\ issued' = issued
      BY <2>2 DEF InsertWith
    <3>2. ASSUME Valid(m, prefix)
          PROVE  /\ m.toks = prefix /\ prefix \in Key
                 /\ m.mac = "operator" /\ ~m.revoked
      BY <3>0, <3>2 DEF Valid, Authentic, Manifest
    <3>3. TypeOK'
      <4>1. CASE Valid(m, prefix)
        <5>1. /\ publicTokens' = [publicTokens EXCEPT ![m.obj] = prefix]
              /\ cached' = [cached EXCEPT ![m.obj] = @ \cup Prefixes(prefix)]
          BY <2>2, <4>1 DEF InsertWith
        <5>2. prefix \in Key /\ Prefixes(prefix) \subseteq Key
          BY <3>2, <4>1 DEF Prefixes
        <5> HIDE DEF prefix
        <5>3. /\ publicTokens' \in [Object -> Key \cup {NoKey}]
              /\ cached' \in [Object -> SUBSET Key]
          BY <5>1, <5>2 DEF TypeOK
        <5> USE DEF prefix
        <5> QED
          BY <2>2, <3>0, <5>3 DEF InsertWith, RevokedBy, Manifest, TypeOK
      <4>2. CASE ~Valid(m, prefix)
        BY <2>2, <3>0, <4>2 DEF InsertWith, RevokedBy, Manifest, TypeOK
      <4> QED
        BY <4>1, <4>2
    <3>4. ASSUME NEW o \in Object, NEW p \in cached'[o] PROVE Authorized(o, p)'
      <4>1. CASE p \in cached[o]
        BY <3>1, <4>1, <2>0
      <4>2. CASE p \notin cached[o]
        <5>1. /\ Valid(m, prefix) /\ o = m.obj /\ p \in Prefixes(prefix)
          BY <2>2, <3>4, <4>2 DEF InsertWith, TypeOK
        <5>2. Authorized(m.obj, p)
          BY <5>1, <3>2, PrefixAuthorized
        <5> QED
          BY <5>1, <5>2, <3>1, <2>0
      <4> QED
        BY <4>1, <4>2
    <3> QED
      BY <3>1, <3>3, <3>4 DEF ServedAuthorized
  <2>3. ASSUME NEW key \in Key, MatchWithout(key) PROVE IInv'
    <3>1. served' # Nothing =>
             /\ served'.obj \in Object /\ served'.toks \in cached[served'.obj]
             /\ served' = [obj |-> served'.obj, toks |-> served'.toks]
      BY <2>3, LookupCached DEF MatchWithout
    <3>2. served' \in [obj : Object, toks : Key] \cup {Nothing}
      BY <3>1 DEF TypeOK
    <3>3. ServedAuthorized'
      BY <2>3, <3>1, <2>0 DEF MatchWithout, ServedAuthorized
    <3> QED
      BY <2>3, <3>2, <3>3, <2>0 DEF MatchWithout, TypeOK
  <2>4. ASSUME NEW o \in Object, NEW p \in Key, Evict(o, p) PROVE IInv'
    <3>1. \A x \in Object : cached'[x] \subseteq cached[x]
      BY <2>4 DEF Evict, TypeOK
    <3>2. TypeOK'
      BY <2>4 DEF Evict, TypeOK, Nothing
    <3> QED
      BY <2>4, <3>1, <3>2, <2>0 DEF Evict, ServedAuthorized
  <2>5. ASSUME NEW m \in Manifest, Issue(m) PROVE IInv'
    <3>1. TypeOK'
      BY <2>5 DEF Issue, Manifest, TypeOK, Nothing
    <3> QED
      BY <2>5, <3>1, <2>0 DEF Issue, ServedAuthorized
  <2>6. ASSUME NEW m \in Manifest, IssueElsewhere(m) PROVE IInv'
    <3>1. TypeOK'
      BY <2>6 DEF IssueElsewhere, TypeOK, Nothing
    <3> QED
      BY <2>6, <3>1, <2>0 DEF IssueElsewhere, ServedAuthorized
  <2>7. ASSUME NEW o \in Object, Revoke(o) PROVE IInv'
    <3>1. TypeOK'
      BY <2>7 DEF Revoke, TypeOK, Nothing
    <3> QED
      BY <2>7, <3>1, <2>0 DEF Revoke, ServedAuthorized
  <2>8. CASE FlushCache
    BY <2>8, RegistryAssumption DEF FlushCache, TypeOK, ServedAuthorized, Nothing
  <2>9. ASSUME NEW e \in 1..MaxEpoch, ResetEpoch(e) PROVE IInv'
    <3>1. TypeOK'
      BY <2>9 DEF ResetEpoch, TypeOK, Nothing
    <3> QED
      BY <2>9, <3>1, <2>0 DEF ResetEpoch, ServedAuthorized
  <2>10. CASE Tick
    <3>1. TypeOK'
      BY <2>10 DEF Tick, TypeOK, Nothing
    <3> QED
      BY <2>10, <3>1, <2>0 DEF Tick, ServedAuthorized
  <2>11. CASE UNCHANGED vars
    BY <2>11, <2>0 DEF vars, TypeOK, ServedAuthorized, Authorized
  <2> QED
    BY <2>1, <2>2, <2>3, <2>4, <2>5, <2>6, <2>7, <2>8, <2>9, <2>10, <2>11 DEF Next
<1> QED
  BY <1>1, <1>2, PTL DEF Spec

\* Nothing is served as public that no operator signed (match_prefix, insert
\* and the registry's install together), whatever clients send.
THEOREM ServedAuthorizedTheorem == Spec => []ServedAuthorized
<1>1. IInv => ServedAuthorized
  BY DEF IInv
<1> QED
  BY <1>1, IInvTheorem, PTL

\* As long as the registry is not reset, the revocations it remembers are all
\* there have been.
Remembers == withdrawn = revokedIds

\* Until the registry is reset, no sequence of manifests brings a
\* withdrawn object back: only issue on this registry does.
THEOREM RevocationSticksTheorem ==
    Spec => []RevocationSticksUntilReset
<1> DEFINE Inv == resets = 0 => Remembers /\ RevocationSticks
<1>1. Init => Inv
  BY DEF Init, TypeOK, Remembers, RevocationSticks, Nothing
<1>2. IInv /\ IInv' /\ Inv /\ [Next]_vars => Inv'
  <2> SUFFICES ASSUME IInv, IInv', Inv, [Next]_vars PROVE Inv'
    OBVIOUS
  <2>0. TypeOK'
    BY DEF IInv
  <2>1. ASSUME NEW key \in Key, NEW m \in issued, MatchWith(key, m) PROVE Inv'
    <3>1. resets' = resets /\ (Remembers => Remembers')
      BY <2>1 DEF MatchWith, Remembers
    <3>2. served' # Nothing => served'.obj \notin revokedIds'
      <4>1. CASE Valid(m, key)
        <5>1. RevokedBy(m, key) = {} /\ m.obj \notin revokedIds
          BY <4>1 DEF Valid, RevokedBy
        <5>2. served' # Nothing => served'.obj = m.obj
          BY <2>1, <4>1, ServedFromCached DEF MatchWith
        <5> QED
          BY <2>1, <5>1, <5>2 DEF MatchWith
      <4>2. CASE ~Valid(m, key)
        BY <2>1, <4>2, LookupCached DEF MatchWith
      <4> QED
        BY <4>1, <4>2
    <3> QED
      BY <2>0, <3>1, <3>2 DEF Remembers, RevocationSticks
  <2>2. ASSUME NEW key \in Key, NEW m \in issued, InsertWith(key, m) PROVE Inv'
    BY <2>0, <2>2 DEF InsertWith, Remembers, RevocationSticks
  <2>3. ASSUME NEW key \in Key, MatchWithout(key) PROVE Inv'
    <3>1. served' # Nothing => served'.obj \notin revokedIds
      BY <2>3, LookupCached DEF MatchWithout
    <3> QED
      BY <2>0, <2>3, <3>1 DEF MatchWithout, Remembers, RevocationSticks
  <2>4. ASSUME NEW o \in Object, NEW p \in Key, Evict(o, p) PROVE Inv'
    BY <2>0, <2>4 DEF Evict, Remembers, RevocationSticks
  <2>5. ASSUME NEW m \in Manifest, Issue(m) PROVE Inv'
    BY <2>0, <2>5 DEF Issue, Remembers, RevocationSticks
  <2>6. ASSUME NEW m \in Manifest, IssueElsewhere(m) PROVE Inv'
    BY <2>0, <2>6 DEF IssueElsewhere, Remembers, RevocationSticks
  <2>7. ASSUME NEW o \in Object, Revoke(o) PROVE Inv'
    BY <2>0, <2>7 DEF Revoke, Remembers, RevocationSticks
  <2>8. CASE FlushCache
    BY <2>8 DEF FlushCache, IInv, TypeOK
  <2>9. ASSUME NEW e \in 1..MaxEpoch, ResetEpoch(e) PROVE Inv'
    BY <2>9 DEF ResetEpoch, IInv, TypeOK
  <2>10. CASE Tick
    BY <2>0, <2>10 DEF Tick, Remembers, RevocationSticks
  <2>11. CASE UNCHANGED vars
    BY <2>0, <2>11 DEF vars, Remembers, RevocationSticks
  <2> QED
    BY <2>1, <2>2, <2>3, <2>4, <2>5, <2>6, <2>7, <2>8, <2>9, <2>10, <2>11 DEF Next
<1>3. Inv => RevocationSticksUntilReset
  BY DEF RevocationSticksUntilReset
<1> QED
  BY <1>1, <1>2, <1>3, IInvTheorem, PTL DEF Spec
=============================================================================
