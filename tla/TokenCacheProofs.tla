-------------------------- MODULE TokenCacheProofs --------------------------
(***************************************************************************)
(* What TokenCache guarantees for any number of calls, audiences, token    *)
(* lifetimes and refresh offsets.                                          *)
(***************************************************************************)
EXTENDS TokenCache, TLAPS

(* A call that owns an unfinished acquisition is the one stored in         *)
(* `pending`, and only an owner has an acquisition.                        *)
OwnerIsPending ==
  \A c \in Calls :
    /\ flight[c] # "none" => promise[c] = c
    /\ InFlight(c) => phase[c] = "awaiting"
    /\ promise[c] = c /\ phase[c] = "awaiting" => pending[AudienceOf[c]] = c
    /\ phase[c] = "new" => promise[c] = NoCall /\ flight[c] = "none"

(* What is known of every token the program holds.                         *)
TokenIsSound(t) == t # NoToken /\ t.accepted < t.expires /\ t.refreshAt <= t.expires

TokensAreSound ==
  /\ \A a \in Audiences :
       cache[a] # NoToken => TokenIsSound(cache[a]) /\ cache[a].epoch = epoch[a]
  /\ \A c \in Calls :
       /\ flight[c] = "resolved" => TokenIsSound(got[c])
       /\ phase[c] = "returned" => TokenIsSound(got[c])
       /\ phase[c] = "returned" /\ promise[c] = NoCall => got[c].epoch >= since[c]

Inv == TypeOK /\ NoAbandonedPromise /\ OwnerIsPending /\ TokensAreSound

(* A token's refresh instant never lies beyond its expiry.                 *)
LEMMA RefreshBeforeExpiry ==
  ASSUME NEW e \in Nat, NEW r \in RefreshPoints(e)
  PROVE  r \in Int /\ r <= e
  BY OffsetAssumption DEF RefreshPoints

LEMMA InitInv == Init => Inv
  BY AudienceAssumption, NoCallAssumption
  DEF Init, Inv, TypeOK, NoAbandonedPromise, OwnerIsPending, TokensAreSound, InFlight

LEMMA TypeStep == TypeOK /\ [Next]_vars => TypeOK'
<1> SUFFICES ASSUME TypeOK, [Next]_vars PROVE TypeOK'
  OBVIOUS
<1> USE AudienceAssumption DEF TypeOK
<1>1. ASSUME NEW c \in Calls, ReturnCached(c) PROVE TypeOK'
  BY <1>1 DEF ReturnCached, IsUsable
<1>2. ASSUME NEW c \in Calls, JoinPending(c) PROVE TypeOK'
  BY <1>2 DEF JoinPending
<1>3. ASSUME NEW c \in Calls, BeginAcquire(c) PROVE TypeOK'
  BY <1>3 DEF BeginAcquire
<1>4. ASSUME NEW c \in Calls, TokenArrives(c) PROVE TypeOK'
  <2>1. PICK life \in Lifetimes : \E refreshAt \in RefreshPoints(clock + life) :
          Store(c, NewToken(c, life, refreshAt))
    BY <1>4 DEF TokenArrives
  <2>2. PICK refreshAt \in RefreshPoints(clock + life) : Store(c, NewToken(c, life, refreshAt))
    BY <2>1
  <2>3. NewToken(c, life, refreshAt) \in Tokens
    BY LifetimeAssumption, RefreshBeforeExpiry DEF NewToken, Tokens
  <2> QED
    BY <1>4, <2>2, <2>3 DEF TokenArrives, Store
<1>5. ASSUME NEW c \in Calls, AcquisitionFails(c) PROVE TypeOK'
  BY <1>5 DEF AcquisitionFails
<1>6. ASSUME NEW c \in Calls, OwnerResumes(c) PROVE TypeOK'
  BY <1>6 DEF OwnerResumes, Outcome, PendingAfterFinally
<1>7. ASSUME NEW c \in Calls, JoinerResumes(c) PROVE TypeOK'
  BY <1>7 DEF JoinerResumes, Outcome
<1>8. ASSUME NEW A, Clear(A) PROVE TypeOK'
  BY <1>8 DEF Clear, Cleared
<1>9. CASE ClearSome
  BY <1>8, <1>9 DEF ClearSome
<1>10. CASE Tick
  BY <1>10 DEF Tick
<1>11. CASE UNCHANGED vars
  BY <1>11 DEF vars
<1> QED
  BY <1>1, <1>2, <1>3, <1>4, <1>5, <1>6, <1>7, <1>9, <1>10, <1>11
  DEF Next, GetAccessToken, CredentialAnswers, Resume

(* The owner's promise is the one in `pending` until the owner's finally   *)
(* block ran, whatever the other calls do meanwhile.                       *)
LEMMA OwnerStep ==
  TypeOK /\ NoAbandonedPromise /\ OwnerIsPending /\ [Next]_vars
    => NoAbandonedPromise' /\ OwnerIsPending'
<1> SUFFICES ASSUME TypeOK, NoAbandonedPromise, OwnerIsPending, [Next]_vars
             PROVE  NoAbandonedPromise' /\ OwnerIsPending'
  OBVIOUS
<1> USE AudienceAssumption, NoCallAssumption
    DEF TypeOK, NoAbandonedPromise, OwnerIsPending, InFlight
<1>1. ASSUME NEW c \in Calls, ReturnCached(c) PROVE NoAbandonedPromise' /\ OwnerIsPending'
  BY <1>1 DEF ReturnCached
<1>2. ASSUME NEW c \in Calls, JoinPending(c) PROVE NoAbandonedPromise' /\ OwnerIsPending'
  BY <1>2 DEF JoinPending
<1>3. ASSUME NEW c \in Calls, BeginAcquire(c) PROVE NoAbandonedPromise' /\ OwnerIsPending'
  BY <1>3 DEF BeginAcquire, MayAcquire
<1>4. ASSUME NEW c \in Calls, TokenArrives(c) PROVE NoAbandonedPromise' /\ OwnerIsPending'
  BY <1>4 DEF TokenArrives
<1>5. ASSUME NEW c \in Calls, AcquisitionFails(c) PROVE NoAbandonedPromise' /\ OwnerIsPending'
  BY <1>5 DEF AcquisitionFails
<1>6. ASSUME NEW c \in Calls, OwnerResumes(c) PROVE NoAbandonedPromise' /\ OwnerIsPending'
  BY <1>6 DEF OwnerResumes, Outcome, PendingAfterFinally, Settled
<1>7. ASSUME NEW c \in Calls, JoinerResumes(c) PROVE NoAbandonedPromise' /\ OwnerIsPending'
  BY <1>7 DEF JoinerResumes, Outcome, Settled
<1>8. ASSUME NEW A, Clear(A) PROVE NoAbandonedPromise' /\ OwnerIsPending'
  BY <1>8 DEF Clear
<1>9. CASE ClearSome
  BY <1>8, <1>9 DEF ClearSome
<1>10. CASE Tick
  BY <1>10 DEF Tick
<1>11. CASE UNCHANGED vars
  BY <1>11 DEF vars
<1> QED
  BY <1>1, <1>2, <1>3, <1>4, <1>5, <1>6, <1>7, <1>9, <1>10, <1>11
  DEF Next, GetAccessToken, CredentialAnswers, Resume

(* Every token kept or handed out was accepted before it expired, and the  *)
(* cache holds none from before the last clear().                          *)
LEMMA TokenStep ==
  Inv /\ [Next]_vars => TokensAreSound'
<1> SUFFICES ASSUME Inv, [Next]_vars PROVE TokensAreSound'
  OBVIOUS
<1> USE AudienceAssumption, NoCallAssumption DEF Inv, TypeOK, TokensAreSound, TokenIsSound
<1>1. ASSUME NEW c \in Calls, ReturnCached(c) PROVE TokensAreSound'
  <2>1. cache[AudienceOf[c]] # NoToken
    BY <1>1 DEF ReturnCached, IsUsable
  <2> QED
    BY <1>1, <2>1 DEF ReturnCached
<1>2. ASSUME NEW c \in Calls, JoinPending(c) PROVE TokensAreSound'
  BY <1>2 DEF JoinPending
<1>3. ASSUME NEW c \in Calls, BeginAcquire(c) PROVE TokensAreSound'
  BY <1>3 DEF BeginAcquire
<1>4. ASSUME NEW c \in Calls, TokenArrives(c) PROVE TokensAreSound'
  <2>1. PICK life \in Lifetimes : \E refreshAt \in RefreshPoints(clock + life) :
          Store(c, NewToken(c, life, refreshAt))
    BY <1>4 DEF TokenArrives
  <2>2. PICK refreshAt \in RefreshPoints(clock + life) : Store(c, NewToken(c, life, refreshAt))
    BY <2>1
  <2> DEFINE t == NewToken(c, life, refreshAt)
  <2>3. t \in Tokens
    BY LifetimeAssumption, RefreshBeforeExpiry DEF NewToken, Tokens
  <2>4. t.accepted < t.expires /\ t.refreshAt <= t.expires /\ t.epoch = epoch[AudienceOf[c]]
    BY <2>2, LifetimeAssumption, RefreshBeforeExpiry DEF NewToken, Store, Accepts
  <2>5. TokenIsSound(t)
    BY <2>3, <2>4, NoTokenAssumption
  <2>6. phase[c] = "awaiting"
    BY <1>4 DEF TokenArrives, OwnerIsPending
  <2>7. /\ cache' = [cache EXCEPT ![AudienceOf[c]] = t]
        /\ got' = [got EXCEPT ![c] = t]
        /\ flight' = [flight EXCEPT ![c] = "resolved"]
        /\ UNCHANGED <<phase, promise, since, epoch>>
    BY <1>4, <2>2 DEF TokenArrives, Store
  <2> HIDE DEF t
  <2> QED
    BY <2>4, <2>5, <2>6, <2>7
<1>5. ASSUME NEW c \in Calls, AcquisitionFails(c) PROVE TokensAreSound'
  BY <1>5 DEF AcquisitionFails
<1>6. ASSUME NEW c \in Calls, OwnerResumes(c) PROVE TokensAreSound'
  BY <1>6 DEF OwnerResumes, Outcome
<1>7. ASSUME NEW c \in Calls, JoinerResumes(c) PROVE TokensAreSound'
  <2>1. flight[c] = "none" /\ promise[c] # NoCall
    BY <1>7 DEF JoinerResumes, OwnerIsPending
  <2> QED
    BY <1>7, <2>1 DEF JoinerResumes, Outcome
<1>8. ASSUME NEW A, Clear(A) PROVE TokensAreSound'
  BY <1>8 DEF Clear, Cleared
<1>9. CASE ClearSome
  BY <1>8, <1>9 DEF ClearSome
<1>10. CASE Tick
  BY <1>10 DEF Tick
<1>11. CASE UNCHANGED vars
  BY <1>11 DEF vars
<1> QED
  BY <1>1, <1>2, <1>3, <1>4, <1>5, <1>6, <1>7, <1>9, <1>10, <1>11
  DEF Next, GetAccessToken, CredentialAnswers, Resume

LEMMA Invariance == Spec => []Inv
<1>1. Inv /\ [Next]_vars => Inv'
  BY TypeStep, OwnerStep, TokenStep DEF Inv
<1> QED
  BY InitInv, <1>1, PTL DEF Spec

-----------------------------------------------------------------------------
(* Every value keeps its type.                                             *)
THEOREM TypeCorrect == Spec => []TypeOK
<1>1. Inv => TypeOK
  BY DEF Inv
<1> QED
  BY Invariance, <1>1, PTL

(* getAccessToken never has two requests to the credential outstanding for *)
(* one audience.                                                           *)
THEOREM OneFlightPerAudience == Spec => []SingleFlight
<1>1. Inv => SingleFlight
  BY DEF Inv, OwnerIsPending, SingleFlight, InFlight
<1> QED
  BY Invariance, <1>1, PTL

(* A failed or finished acquisition never stays in `pending`.              *)
THEOREM PendingIsOwned == Spec => []NoAbandonedPromise
<1>1. Inv => NoAbandonedPromise
  BY DEF Inv
<1> QED
  BY Invariance, <1>1, PTL

(* Whatever a call is answered with was accepted before it expired.        *)
THEOREM ReturnedValid == Spec => []ReturnedTokenWasValid
<1>1. Inv => ReturnedTokenWasValid
  BY DEF Inv, TokensAreSound, TokenIsSound, ReturnedTokenWasValid
<1> QED
  BY Invariance, <1>1, PTL

(* A call never gets from the cache what a clear() before it removed.      *)
THEOREM ClearIsFinal == Spec => []ClearForgets
<1>1. Inv => ClearForgets
  BY DEF Inv, TokensAreSound, ClearForgets
<1> QED
  BY Invariance, <1>1, PTL

(* The cache never answers with an expired token.                          *)
THEOREM CacheIsFresh == Spec => CacheServesUnexpired
<1>1. Inv /\ [Next]_vars => [\A c \in Calls : ReturnCached(c) => clock < got'[c].expires]_vars
  <2> SUFFICES ASSUME Inv, NEW c \in Calls, ReturnCached(c)
               PROVE  clock < got'[c].expires
    OBVIOUS
  <2> DEFINE t == cache[AudienceOf[c]]
  <2>1. t \in Tokens /\ clock < t.refreshAt /\ t.refreshAt <= t.expires
    BY AudienceAssumption
    DEF ReturnCached, IsUsable, Inv, TypeOK, TokensAreSound, TokenIsSound
  <2>2. clock < t.expires
    BY <2>1 DEF Tokens, Inv, TypeOK
  <2> QED
    BY <2>2 DEF ReturnCached, Inv, TypeOK
<1> QED
  BY Invariance, <1>1, PTL DEF Spec, CacheServesUnexpired
=============================================================================
