--------------------------- MODULE PublicRegistry ---------------------------
(***************************************************************************)
(* Public prefixes: PublicRegistry (safekv_policy.py) and what RadixCache  *)
(* keeps beside it, public_tokens and the trees under public_roots.        *)
(* Operators sign manifests, clients send them with requests, in any order *)
(* and any number of times; lookups install them and serve the objects     *)
(* they authorize.                                                         *)
(*                                                                         *)
(* A signature is abstracted to whose key made it.  Every method runs      *)
(* under the registry's lock, and match_prefix and insert run in the       *)
(* scheduler thread, so each is one step.  _authorizations is left out:    *)
(* only verify, which no lookup calls, reads it.                           *)
(***************************************************************************)
EXTENDS Naturals, Sequences, FiniteSets

CONSTANTS
    Object,     \* public_object_ids
    Key,        \* token sequences that are looked up or authorized
    NoObject, NoKey,
    MaxTime,    \* bound: clock values
    MaxEpoch,   \* bound: policy epochs
    MaxIssued,  \* bound: manifests in circulation
    MaxReset    \* bound: resets of the registry

ASSUME RegistryAssumption ==
    /\ Key \subseteq Seq(Nat) \ {<<>>} /\ NoKey \notin Key
    /\ \A k \in Key : \A n \in 1..Len(k) : SubSeq(k, 1, n) \in Key
    /\ NoObject \notin Object
    /\ {MaxTime, MaxEpoch, MaxIssued, MaxReset} \subseteq Nat

\* PublicAuthorization; model and tokenizer are fixed.
Manifest == [obj : Object, toks : Key, epoch : 1..MaxEpoch, exp : 1..MaxTime + 1,
             revoked : BOOLEAN, mac : {"operator", "other"}]

VARIABLES
    revokedIds,    \* _revoked_ids
    epoch,         \* _policy_epoch
    now,           \* time.time()
    publicTokens,  \* RadixCache.public_tokens (NoKey: no entry)
    cached,        \* the prefixes held under each of public_roots
    issued,        \* manifests clients may send
    resets,        \* resets and resets of the registry so far
    withdrawn,     \* history: objects revoked here and not issued here since
    served         \* history: object and tokens of the lookup just made

vars == <<revokedIds, epoch, now, publicTokens, cached, issued, resets, withdrawn, served>>

Nothing == [obj |-> NoObject, toks |-> NoKey]

Init ==
    /\ revokedIds = {}
    /\ epoch = 1
    /\ now = 0
    /\ publicTokens = [o \in Object |-> NoKey]
    /\ cached = [o \in Object |-> {}]
    /\ issued = {}
    /\ resets = 0
    /\ withdrawn = {}
    /\ served = Nothing

-----------------------------------------------------------------------------
Covers(p, k) == Len(p) <= Len(k) /\ SubSeq(k, 1, Len(p)) = p

Prefixes(k) == {p \in Key : Covers(p, k)}

Longest(S) == {p \in S : \A q \in S : Len(q) <= Len(p)}

\* _verify_locked up to the test for revocation.
Authentic(m, tokens) ==
    /\ m.toks = tokens
    /\ m.mac = "operator"
    /\ m.epoch = epoch
    /\ m.exp > now

\* Mutant: only the manifest's own flag counts.
Mut_Valid(m, tokens) == Authentic(m, tokens) /\ ~m.revoked

Valid(m, tokens) == Authentic(m, tokens) /\ ~m.revoked /\ m.obj \notin revokedIds

\* install: an authentic revocation is remembered.
RevokedBy(m, tokens) ==
    IF Authentic(m, tokens) /\ m.revoked THEN {m.obj} ELSE {}

\* _matching_public_root: the objects with the longest match (the code takes
\* the one whose name is greatest).
MatchingPublicRoot(key, dead) ==
    {o \in Object \ dead :
        /\ publicTokens[o] \in Prefixes(key)
        /\ \A p \in Object \ dead : publicTokens[p] \in Prefixes(key) =>
              Len(publicTokens[p]) <= Len(publicTokens[o])}

\* _match_prefix_helper under one public root.
ServedFrom(o, key) ==
    LET hits == cached[o] \cap Prefixes(key)
    IN  IF hits = {} THEN {Nothing} ELSE {[obj |-> o, toks |-> p] : p \in Longest(hits)}

\* The public part of a lookup without an installed manifest.
Lookup(key, dead) ==
    IF MatchingPublicRoot(key, dead) = {} THEN {Nothing}
    ELSE UNION {ServedFrom(o, key) : o \in MatchingPublicRoot(key, dead)}

\* match_prefix(key) with manifest m: install it if it is for exactly this key,
\* else look for an installed object.
MatchWith(key, m) ==
    /\ revokedIds' = revokedIds \cup RevokedBy(m, key)
    /\ withdrawn' = withdrawn \cup RevokedBy(m, key)
    /\ IF Valid(m, key)
       THEN /\ publicTokens' = [publicTokens EXCEPT ![m.obj] = key]
            /\ served' \in ServedFrom(m.obj, key)
       ELSE /\ UNCHANGED publicTokens
            /\ served' \in Lookup(key, revokedIds')
    /\ UNCHANGED <<epoch, now, cached, issued, resets>>

\* match_prefix(key) without a manifest.
MatchWithout(key) ==
    /\ served' \in Lookup(key, revokedIds)
    /\ UNCHANGED <<revokedIds, epoch, now, publicTokens, cached, issued, resets,
                   withdrawn>>

\* Mutant: the whole key is inserted, not the authorized prefix of it.
Mut_InsertWith(key, m) ==
    /\ Covers(m.toks, key)
    /\ Valid(m, m.toks)
    /\ publicTokens' = [publicTokens EXCEPT ![m.obj] = m.toks]
    /\ cached' = [cached EXCEPT ![m.obj] = @ \cup Prefixes(key)]
    /\ served' = Nothing
    /\ UNCHANGED <<revokedIds, withdrawn, epoch, now, issued, resets>>

\* insert(key) with manifest m: it must be for a prefix of the key, and only
\* that prefix goes under the public root.
InsertWith(key, m) ==
    LET prefix == SubSeq(key, 1, Len(m.toks))
    IN  /\ Len(m.toks) <= Len(key)
        /\ revokedIds' = revokedIds \cup RevokedBy(m, prefix)
        /\ withdrawn' = withdrawn \cup RevokedBy(m, prefix)
        /\ IF Valid(m, prefix)
           THEN /\ publicTokens' = [publicTokens EXCEPT ![m.obj] = prefix]
                /\ cached' = [cached EXCEPT ![m.obj] = @ \cup Prefixes(prefix)]
           ELSE UNCHANGED <<publicTokens, cached>>
        /\ served' = Nothing
        /\ UNCHANGED <<epoch, now, issued, resets>>

\* evict: a leaf under a public root goes, and its tokens with it.
Evict(o, p) ==
    /\ p \in cached[o]
    /\ cached' = [cached EXCEPT ![o] = {q \in @ : ~Covers(p, q)}]
    /\ served' = Nothing
    /\ UNCHANGED <<revokedIds, epoch, now, publicTokens, issued, resets, withdrawn>>

\* issue, by this registry: a fresh manifest lifts an earlier revocation.
Issue(m) ==
    /\ m.mac = "operator" /\ m.epoch = epoch /\ m.exp > now
    /\ issued' = issued \cup {m}
    /\ revokedIds' = IF m.revoked THEN revokedIds \cup {m.obj}
                                  ELSE revokedIds \ {m.obj}
    /\ withdrawn' = IF m.revoked THEN withdrawn \cup {m.obj}
                                 ELSE withdrawn \ {m.obj}
    /\ served' = Nothing
    /\ UNCHANGED <<epoch, now, publicTokens, cached, resets>>

\* issue, by a signer elsewhere: this registry learns of it when a client sends
\* it.  One that does not have the operator's key may sign too.
IssueElsewhere(m) ==
    /\ m.exp > now
    /\ issued' = issued \cup {m}
    /\ served' = Nothing
    /\ UNCHANGED <<revokedIds, epoch, now, publicTokens, cached, resets, withdrawn>>

\* revoke
Revoke(o) ==
    /\ revokedIds' = revokedIds \cup {o}
    /\ withdrawn' = withdrawn \cup {o}
    /\ served' = Nothing
    /\ UNCHANGED <<epoch, now, publicTokens, cached, issued, resets>>

\* RadixCache.reset (flush_cache) resets the registry too.
FlushCache ==
    /\ resets < MaxReset
    /\ resets' = resets + 1
    /\ revokedIds' = {}
    /\ publicTokens' = [o \in Object |-> NoKey]
    /\ cached' = [o \in Object |-> {}]
    /\ served' = Nothing
    /\ UNCHANGED <<epoch, now, issued, withdrawn>>

\* registry.reset(policy_epoch): any epoch, the current or an earlier one too.
ResetEpoch(e) ==
    /\ resets < MaxReset
    /\ resets' = resets + 1
    /\ epoch' = e
    /\ revokedIds' = {}
    /\ served' = Nothing
    /\ UNCHANGED <<now, publicTokens, cached, issued, withdrawn>>

Tick ==
    /\ now < MaxTime
    /\ now' = now + 1
    /\ served' = Nothing
    /\ UNCHANGED <<revokedIds, epoch, publicTokens, cached, issued, resets, withdrawn>>

Next ==
    \/ \E key \in Key, m \in issued : MatchWith(key, m) \/ InsertWith(key, m)
    \/ \E key \in Key : MatchWithout(key)
    \/ \E o \in Object, p \in Key : Evict(o, p)
    \/ /\ Cardinality(issued) < MaxIssued
       /\ \E m \in Manifest : Issue(m) \/ IssueElsewhere(m)
    \/ \E o \in Object : Revoke(o)
    \/ FlushCache
    \/ \E e \in 1..MaxEpoch : ResetEpoch(e)
    \/ Tick

Spec == Init /\ [][Next]_vars

-----------------------------------------------------------------------------
TypeOK ==
    /\ revokedIds \subseteq Object /\ withdrawn \subseteq Object
    /\ epoch \in Nat /\ now \in Nat /\ resets \in Nat
    /\ publicTokens \in [Object -> Key \cup {NoKey}]
    /\ cached \in [Object -> SUBSET Key]
    /\ issued \subseteq Manifest
    /\ served \in [obj : Object, toks : Key] \cup {Nothing}

\* An operator signed, for object o, tokens that begin with p.
Authorized(o, p) ==
    \E m \in issued :
        m.mac = "operator" /\ ~m.revoked /\ m.obj = o /\ Covers(p, m.toks)

\* PublicRegistry: "HMAC-authorized exact public prefixes".  Whatever tokens are
\* served as public, an operator signed them for that object, however manifests
\* are mixed, repeated, delayed or made with another key.
ServedAuthorized == served # Nothing => Authorized(served.obj, served.toks)

\* install: "Remember it so a previously issued valid manifest cannot reinstall
\* the object."  A withdrawn object is not served until it is issued here again.
\* flush_cache breaks this: RadixCache.reset clears what the registry remembers.
RevocationSticks == served # Nothing => served.obj \notin withdrawn

\* The same as long as the registry has not been reset (by flush_cache or
\* for an epoch): only issue on this registry brings a withdrawn object back, whatever
\* older or other manifests clients send.
RevocationSticksUntilReset == resets = 0 => RevocationSticks

\* What a public root holds was authorized when it was inserted: the invariant
\* behind ServedAuthorized, since a later lookup checks nothing but revocation.
IInv ==
    /\ TypeOK
    /\ \A o \in Object : \A p \in cached[o] : Authorized(o, p)
    /\ ServedAuthorized
=============================================================================
