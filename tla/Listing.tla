------------------------------- MODULE Listing -------------------------------
(***************************************************************************)
(* The catalogue tools: a tool call collects a whole collection from       *)
(* Fabric, page by page (listWorkspaces and its four siblings), and hands  *)
(* its caller one slice of it with a continuation token (paginateValues).  *)
(* The token is an offset into a collection that the next call fetches     *)
(* anew, and that may change between any two requests.                     *)
(*                                                                         *)
(* One caller walks through one collection; callers share nothing.  Items  *)
(* never come back once they are gone, and Fabric keeps their order.       *)
(***************************************************************************)
EXTENDS Naturals, Sequences

CONSTANTS
  Items,        \* workspaces, models, lakehouses, tables or warehouses
  Collections,  \* what can be listed: the scopes of the tokens
  Contents,     \* what the collections may hold at first
  Limits,       \* page sizes a caller asks for
  MaxPages,     \* the client's limit on requests per collection
  MaxChanges,   \* bound on outside changes
  MaxFailures   \* bound on calls that fail and are made again

ASSUME ContentsAssumption == Contents \subseteq [Collections -> Seq(Items)]
ASSUME DistinctAssumption ==
  \A s \in Contents : \A c, d \in Collections : \A i \in DOMAIN s[c] : \A j \in DOMAIN s[d] :
    s[c][i] = s[d][j] => c = d /\ i = j
ASSUME LimitAssumption == Limits \subseteq Nat \ {0}
ASSUME BoundAssumption == MaxPages \in Nat \ {0} /\ MaxChanges \in Nat /\ MaxFailures \in Nat

VARIABLES
  content,   \* Fabric: the items of each collection, in order
  changes,   \* outside changes so far
  walk,      \* "open", "complete" or the error that ended it
  scope,     \* the collection being walked
  offset,    \* the caller's token: an offset into scope; 0 if it has none
  listing,   \* the items the caller has been given
  phase,     \* "idle", or "fetching" during a tool call
  asked,     \* the collection and limit of the call
  read,      \* what the call has collected
  position,  \* the upstream continuation token, a position in the collection
  pages,     \* requests of the call that were answered
  failures,  \* calls that failed
  atStart,   \* history: the content of scope when the walk began
  inserted,  \* history: something came in before the end of a collection
  gone       \* history: items that were removed

caller == <<walk, scope, offset, listing>>
fetch == <<read, position, pages>>
call == <<phase, asked, fetch>>
outside == <<content, changes, inserted, gone>>
vars == <<caller, call, outside, failures, atStart>>

-----------------------------------------------------------------------------
TypeOK ==
  /\ content \in [Collections -> Seq(Items)]
  /\ changes \in 0..MaxChanges
  /\ walk \in {"open", "complete", "beyond", "pageLimit"}
  /\ scope \in Collections
  /\ offset \in Nat
  /\ listing \in Seq(Items)
  /\ phase \in {"idle", "fetching"}
  /\ asked \in [collection: Collections, limit: Limits]
  /\ read \in Seq(Items)
  /\ position \in Nat
  /\ pages \in 0..(MaxPages - 1)
  /\ failures \in 0..MaxFailures
  /\ atStart \in Seq(Items)
  /\ inserted \in BOOLEAN
  /\ gone \in SUBSET Items

Init ==
  /\ content \in Contents
  /\ changes = 0
  /\ walk = "open"
  /\ scope \in Collections
  /\ offset = 0
  /\ listing = <<>>
  /\ phase = "idle"
  /\ \E n \in Limits : asked = [collection |-> scope, limit |-> n]
  /\ read = <<>>
  /\ position = 0
  /\ pages = 0
  /\ failures = 0
  /\ atStart = content[scope]
  /\ inserted = FALSE
  /\ gone = {}

-----------------------------------------------------------------------------
(* A tool call begins.  A caller may present its token to a collection it  *)
(* is not for; the code sees that only when the collection is there.       *)
Begin ==
  /\ walk = "open"
  /\ phase = "idle"
  /\ phase' = "fetching"
  /\ \E c \in Collections, n \in Limits :
       /\ c # scope => offset > 0 /\ failures < MaxFailures
       /\ asked' = [collection |-> c, limit |-> n]
  /\ UNCHANGED <<caller, fetch, outside, failures, atStart>>

(* The call ends and forgets what it has fetched.                          *)
Forget ==
  /\ phase' = "idle"
  /\ read' = <<>>
  /\ position' = 0
  /\ pages' = 0

(* It fails: its caller keeps the token and may call again.                *)
Failed ==
  /\ failures < MaxFailures
  /\ failures' = failures + 1
  /\ Forget
  /\ UNCHANGED caller

(* It ends the walk with an error.                                         *)
Ended(error) ==
  /\ walk' = error
  /\ Forget
  /\ UNCHANGED <<scope, offset, listing, failures>>

(* A request fails; or Lakehouses, their tables or warehouses make a tool  *)
(* result that is too large.                                               *)
RequestFails ==
  /\ phase = "fetching"
  /\ Failed
  /\ UNCHANGED <<asked, outside, atStart>>

-----------------------------------------------------------------------------
(* paginateValues.                                                         *)
AnyScope == TRUE
ScopeMatches == offset > 0 => asked.collection = scope

SliceEnd(values) ==
  IF offset + asked.limit < Len(values) THEN offset + asked.limit ELSE Len(values)

OffsetKept(values) == offset
NextOffset(values) == SliceEnd(values)

Page(values) ==
  /\ listing' = listing \o SubSeq(values, offset + 1, SliceEnd(values))
  /\ IF NextOffset(values) < Len(values)
       THEN offset' = NextOffset(values) /\ UNCHANGED walk
       ELSE walk' = "complete" /\ UNCHANGED offset
  /\ Forget
  /\ UNCHANGED <<scope, failures>>

PaginateValues(values) ==
  \/ ~ScopeMatches /\ Failed
  \/ ScopeMatches /\ offset > Len(values) /\ Ended("beyond")
  \/ ScopeMatches /\ offset <= Len(values) /\ Page(values)

-----------------------------------------------------------------------------
(* The page loop.                                                          *)
LastPageLate == pages = MaxPages
LastPage == pages + 1 = MaxPages

SilentLimit(values) == PaginateValues(values)
PageLimit(values) == Ended("pageLimit")

FetchOn(values, to) ==
  /\ read' = values
  /\ position' = to
  /\ pages' = pages + 1
  /\ UNCHANGED <<caller, phase, failures>>

(* Fabric answers with items from the position on, as many as it likes,    *)
(* and with a token when there are more of them, or even when there are    *)
(* not.                                                                    *)
UpstreamEnd(source) == IF position < Len(source) THEN Len(source) ELSE position

PageAnswered ==
  /\ phase = "fetching"
  /\ LET source == content[asked.collection] IN
     \E to \in position..UpstreamEnd(source) :
       LET values == read \o SubSeq(source, position + 1, to) IN
       \/ to >= Len(source) /\ PaginateValues(values)
       \/ LastPage /\ PageLimit(values)
       \/ ~LastPage /\ FetchOn(values, to)
  /\ UNCHANGED <<asked, outside, atStart>>

-----------------------------------------------------------------------------
(* Others add and remove items.                                            *)
Known == gone \cup UNION {{content[c][i] : i \in DOMAIN content[c]} : c \in Collections}

Add ==
  /\ changes < MaxChanges
  /\ changes' = changes + 1
  /\ \E c \in Collections, x \in Items \ Known : \E i \in 0..Len(content[c]) :
       /\ content' = [content EXCEPT ![c] = SubSeq(@, 1, i) \o <<x>> \o SubSeq(@, i + 1, Len(@))]
       /\ inserted' = (inserted \/ i < Len(content[c]))
  /\ UNCHANGED <<caller, call, failures, atStart, gone>>

Remove ==
  /\ changes < MaxChanges
  /\ changes' = changes + 1
  /\ \E c \in Collections : \E i \in DOMAIN content[c] :
       /\ content' = [content EXCEPT ![c] = SubSeq(@, 1, i - 1) \o SubSeq(@, i + 1, Len(@))]
       /\ gone' = gone \cup {content[c][i]}
  /\ UNCHANGED <<caller, call, failures, atStart, inserted>>

Next == Begin \/ RequestFails \/ PageAnswered \/ Add \/ Remove

Spec == Init /\ [][Next]_vars

-----------------------------------------------------------------------------
Listed == {listing[i] : i \in DOMAIN listing}

(* While nothing changes, what a caller has been given is the collection   *)
(* from its beginning, each item once and in order, whatever page sizes it *)
(* asks for and Fabric uses; and a walk that ends without an error has all *)
(* of it.                                                                  *)
ListsTheCollection ==
  changes = 0 =>
    /\ listing = SubSeq(atStart, 1, Len(listing))
    /\ walk = "complete" => listing = atStart

(* Items removed or added at the end make no item come twice, though the   *)
(* offset of each token is counted in a collection that is no more.        *)
NoRepeats ==
  ~inserted => \A i, j \in DOMAIN listing : listing[i] = listing[j] => i = j

(* Items added, wherever, keep none from being listed that was there all   *)
(* the time.                                                               *)
NoGaps ==
  walk = "complete" /\ gone = {} => \A i \in DOMAIN atStart : atStart[i] \in Listed
=============================================================================
