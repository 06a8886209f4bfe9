----------------------------- MODULE TokenCache -----------------------------
(***************************************************************************)
(* CachedAccessTokenProvider (src/identity.ts): one access token per       *)
(* audience is kept until it is due for refresh, and at most one           *)
(* acquisition per audience is in flight however many requests need it.    *)
(*                                                                         *)
(* The program is single threaded, so what interleaves are the stretches   *)
(* of code between awaits.  getAccessToken runs without a break from its   *)
(* cache lookup to pending.set; the credential answers later; the promise  *)
(* of the acquisition settles, and only in a later microtask does the call *)
(* that owns it run its finally block and leave `pending`.  Joined calls   *)
(* resume in any order after the promise settles.                          *)
(***************************************************************************)
EXTENDS Integers, FiniteSets

CONSTANTS
  Calls,          \* the getAccessToken calls ever made
  Audiences,      \* "fabric", "fabric-sql", "powerbi"
  AudienceOf,     \* [Calls -> Audiences], the argument of each call
  RefreshOffset,  \* refreshOffsetMs, in clock units
  Lifetimes,      \* lifetimes a credential may give a token, 0 for an expired one
  MaxTime,        \* bound on the clock
  MaxEpoch,       \* bound on the number of clear() calls per audience
  NoCall,         \* no acquisition pending
  NoToken         \* nothing cached

ASSUME OffsetAssumption == RefreshOffset \in Nat
ASSUME LifetimeAssumption == Lifetimes \subseteq Nat
ASSUME BoundAssumption == MaxTime \in Nat /\ MaxEpoch \in Nat
ASSUME NoCallAssumption == NoCall \notin Calls
ASSUME AudienceAssumption == AudienceOf \in [Calls -> Audiences]

VARIABLES
  cache,    \* [Audiences -> Tokens \cup {NoToken}]
  pending,  \* [Audiences -> Calls \cup {NoCall}], the call whose promise is stored
  phase,    \* where each call of getAccessToken is
  promise,  \* the call whose acquisition a waiting call awaits, itself if it owns one
  flight,   \* state of the acquisition a call began
  got,      \* the token a call returned, or its acquisition produced
  since,    \* history: the clear() epoch of the audience when the call began
  epoch,    \* history: how often clear() removed the audience
  clock     \* this.now()

vars == <<cache, pending, phase, promise, flight, got, since, epoch, clock>>

-----------------------------------------------------------------------------
(* A token carries its expiry, the instant it stops being usable from the  *)
(* cache, and (history) when and in which epoch it was accepted.           *)
Tokens == [expires: Nat, refreshAt: Int, accepted: Nat, epoch: Nat]

ASSUME NoTokenAssumption == NoToken \notin Tokens

(* The two ways a credential dates a token: with refreshAfterTimestamp, no *)
(* later than its expiry, or without it.                                   *)
RefreshPoints(expires) == {expires - RefreshOffset} \cup {r \in 0..expires : r > expires - RefreshOffset}

UsableInclusive(t) == t # NoToken /\ clock <= t.refreshAt
IsUsable(t) == t # NoToken /\ clock < t.refreshAt

InFlight(c) == flight[c] = "asking"
SettledOnSuccess(c) == flight[c] = "resolved"
Settled(c) == flight[c] \in {"resolved", "rejected"}

TypeOK ==
  /\ cache \in [Audiences -> Tokens \cup {NoToken}]
  /\ pending \in [Audiences -> Calls \cup {NoCall}]
  /\ phase \in [Calls -> {"new", "awaiting", "returned", "failed"}]
  /\ promise \in [Calls -> Calls \cup {NoCall}]
  /\ flight \in [Calls -> {"none", "asking", "resolved", "rejected"}]
  /\ got \in [Calls -> Tokens \cup {NoToken}]
  /\ since \in [Calls -> Nat]
  /\ epoch \in [Audiences -> Nat]
  /\ clock \in Nat

Init ==
  /\ cache = [a \in Audiences |-> NoToken]
  /\ pending = [a \in Audiences |-> NoCall]
  /\ phase = [c \in Calls |-> "new"]
  /\ promise = [c \in Calls |-> NoCall]
  /\ flight = [c \in Calls |-> "none"]
  /\ got = [c \in Calls |-> NoToken]
  /\ since = [c \in Calls |-> 0]
  /\ epoch = [a \in Audiences |-> 0]
  /\ clock = 0

-----------------------------------------------------------------------------
(* getAccessToken, up to its first await: a usable cached token is         *)
(* returned, else an acquisition in flight is joined, else one is begun.   *)
ReturnCached(c) ==
  LET a == AudienceOf[c] IN
  /\ phase[c] = "new"
  /\ IsUsable(cache[a])
  /\ phase' = [phase EXCEPT ![c] = "returned"]
  /\ got' = [got EXCEPT ![c] = cache[a]]
  /\ since' = [since EXCEPT ![c] = epoch[a]]
  /\ UNCHANGED <<cache, pending, promise, flight, epoch, clock>>

JoinPending(c) ==
  LET a == AudienceOf[c] IN
  /\ phase[c] = "new"
  /\ ~IsUsable(cache[a])
  /\ pending[a] # NoCall
  /\ phase' = [phase EXCEPT ![c] = "awaiting"]
  /\ promise' = [promise EXCEPT ![c] = pending[a]]
  /\ since' = [since EXCEPT ![c] = epoch[a]]
  /\ UNCHANGED <<cache, pending, flight, got, epoch, clock>>

(* The guard of the acquisition, and what it becomes when the lookup of    *)
(* the pending promise is forgotten.                                       *)
MayAcquireUnchecked(a) == ~IsUsable(cache[a])
MayAcquire(a) == ~IsUsable(cache[a]) /\ pending[a] = NoCall

BeginAcquire(c) ==
  LET a == AudienceOf[c] IN
  /\ phase[c] = "new"
  /\ MayAcquire(a)
  /\ phase' = [phase EXCEPT ![c] = "awaiting"]
  /\ promise' = [promise EXCEPT ![c] = c]
  /\ flight' = [flight EXCEPT ![c] = "asking"]
  /\ pending' = [pending EXCEPT ![a] = c]
  /\ since' = [since EXCEPT ![c] = epoch[a]]
  /\ UNCHANGED <<cache, got, epoch, clock>>

(* acquire() after the credential answered with a token that has not       *)
(* expired: it is cached and becomes the value of the promise.             *)
NewToken(c, life, refreshAt) ==
  [expires |-> clock + life, refreshAt |-> refreshAt,
   accepted |-> clock, epoch |-> epoch[AudienceOf[c]]]

AcceptsAnything(t) == TRUE
Accepts(t) == t.expires > clock

Store(c, t) ==
  /\ Accepts(t)
  /\ cache' = [cache EXCEPT ![AudienceOf[c]] = t]
  /\ got' = [got EXCEPT ![c] = t]

TokenArrives(c) ==
  /\ InFlight(c)
  /\ \E life \in Lifetimes : \E refreshAt \in RefreshPoints(clock + life) :
       Store(c, NewToken(c, life, refreshAt))
  /\ flight' = [flight EXCEPT ![c] = "resolved"]
  /\ UNCHANGED <<pending, phase, promise, since, epoch, clock>>

(* acquire() after the credential threw or answered null, an empty token   *)
(* or an expired one: TOKEN_ACQUISITION_FAILED, and nothing is cached.     *)
AcquisitionFails(c) ==
  /\ InFlight(c)
  /\ flight' = [flight EXCEPT ![c] = "rejected"]
  /\ UNCHANGED <<cache, pending, phase, promise, got, since, epoch, clock>>

Outcome(o) == IF flight[o] = "resolved" THEN "returned" ELSE "failed"

(* The owner resumes: its finally block removes the promise whether it was *)
(* resolved or rejected.                                                   *)
PendingAfterSuccessOnly(c) ==
  IF flight[c] = "resolved" THEN [pending EXCEPT ![AudienceOf[c]] = NoCall] ELSE pending
PendingAfterFinally(c) == [pending EXCEPT ![AudienceOf[c]] = NoCall]

OwnerResumes(c) ==
  /\ phase[c] = "awaiting"
  /\ promise[c] = c
  /\ Settled(c)
  /\ phase' = [phase EXCEPT ![c] = Outcome(c)]
  /\ pending' = PendingAfterFinally(c)
  /\ UNCHANGED <<cache, promise, flight, got, since, epoch, clock>>

(* A call that joined resumes with the owner's result.                     *)
JoinerResumes(c) ==
  \E owner \in Calls \ {c} :
    /\ phase[c] = "awaiting"
    /\ promise[c] = owner
    /\ Settled(owner)
    /\ phase' = [phase EXCEPT ![c] = Outcome(owner)]
    /\ got' = [got EXCEPT ![c] = got[owner]]
    /\ UNCHANGED <<cache, pending, promise, flight, since, epoch, clock>>

(* clear(): forgets the cached tokens of one audience or of all.  It does  *)
(* not touch `pending`: an acquisition in flight stays joinable, and its   *)
(* token is cached when it arrives.                                        *)
ClearedNothing(A) == cache
Cleared(A) == [a \in Audiences |-> IF a \in A THEN NoToken ELSE cache[a]]

Clear(A) ==
  /\ \A a \in A : epoch[a] < MaxEpoch
  /\ cache' = Cleared(A)
  /\ epoch' = [a \in Audiences |-> IF a \in A THEN epoch[a] + 1 ELSE epoch[a]]
  /\ UNCHANGED <<pending, phase, promise, flight, got, since, clock>>

Tick ==
  /\ clock < MaxTime
  /\ clock' = clock + 1
  /\ UNCHANGED <<cache, pending, phase, promise, flight, got, since, epoch>>

GetAccessToken(c) == ReturnCached(c) \/ JoinPending(c) \/ BeginAcquire(c)
CredentialAnswers(c) == TokenArrives(c) \/ AcquisitionFails(c)
Resume(c) == OwnerResumes(c) \/ JoinerResumes(c)
ClearScopes == {Audiences} \cup {{a} : a \in Audiences}
ClearSome == \E A \in ClearScopes : Clear(A)

Next ==
  \/ \E c \in Calls : GetAccessToken(c) \/ CredentialAnswers(c) \/ Resume(c)
  \/ ClearSome
  \/ Tick

Spec == Init /\ [][Next]_vars

(* The credential settles every request (its own time limits are outside   *)
(* this code) and the event loop runs every ready microtask.  Nobody has   *)
(* to make a call, clear the cache or advance the clock.                   *)
Fairness ==
  \A c \in Calls : WF_vars(CredentialAnswers(c)) /\ WF_vars(Resume(c))

FairSpec == Spec /\ Fairness

-----------------------------------------------------------------------------
(* At most one acquisition per audience is outstanding at the credential,  *)
(* however many calls miss the cache together, and across a clear().       *)
SingleFlight ==
  \A c, d \in Calls :
    InFlight(c) /\ InFlight(d) /\ AudienceOf[c] = AudienceOf[d] => c = d

(* The promise stored for an audience always belongs to a call that has    *)
(* yet to run its finally block: an acquisition that failed or finished    *)
(* cannot stay behind and answer every later call.                         *)
NoAbandonedPromise ==
  \A a \in Audiences :
    pending[a] # NoCall => /\ AudienceOf[pending[a]] = a
                           /\ promise[pending[a]] = pending[a]
                           /\ phase[pending[a]] = "awaiting"

(* A call is only ever answered with a token of its own audience's         *)
(* acquisition that had not expired when it was accepted.                  *)
ReturnedTokenWasValid ==
  \A c \in Calls :
    phase[c] = "returned" => got[c] # NoToken /\ got[c].accepted < got[c].expires

(* The cache never answers with an expired token, whatever lifetime and    *)
(* refresh hint the credential gave it and however long it sat there.      *)
CacheServesUnexpired ==
  [][\A c \in Calls : ReturnCached(c) => clock < got'[c].expires]_vars

(* Every token a call takes from the cache was accepted after the last     *)
(* clear() of the audience that preceded the call, even when an older      *)
(* acquisition was in flight across the clear().                           *)
ClearForgets ==
  \A c \in Calls :
    phase[c] = "returned" /\ promise[c] = NoCall => got[c].epoch >= since[c]

(* Every call that waits is answered: no call waits on a promise that      *)
(* nobody settles.                                                         *)
WaitersAnswered ==
  \A c \in Calls : phase[c] = "awaiting" ~> phase[c] \in {"returned", "failed"}
=============================================================================
