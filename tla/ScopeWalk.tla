------------------------------ MODULE ScopeWalk ------------------------------
(***************************************************************************)
(* A client that walks GET /api/v1/scopes page by page, again and again,   *)
(* while scopes appear, disappear and change: the cursor that resumes by   *)
(* key, the page cut from each fresh listing, and the wrapper that holds   *)
(* a response back to tag it, answers 304, or gives up on one too large.   *)
(*                                                                         *)
(* A key is a wadaptID, a number in its order. A token is the key it       *)
(* carries, a tag is what it hashes, and a response has as many units as   *)
(* its page has items, and one more. The client keeps the last response to *)
(* each URL, as weave does.                                                *)
(***************************************************************************)
EXTENDS Integers, FiniteSets, SequencesExt

CONSTANTS Keys,           \* wadaptIDs
          DefaultSize, MaxSize,
          AskedSizes,     \* values of ?pageSize=
          MaxTaggedUnits, \* MaxTaggedBytes
          MaxChanges, MaxWalks, MaxFailures

\* pagination.New panics on anything else.
ASSUME PageAssumption ==
  /\ Keys \subseteq Nat \ {0} /\ IsFiniteSet(Keys) /\ AskedSizes \subseteq Int
  /\ DefaultSize \in Nat \ {0} /\ MaxSize \in Nat /\ DefaultSize <= MaxSize
  /\ {MaxTaggedUnits, MaxChanges, MaxWalks, MaxFailures} \subseteq Nat

VARIABLES content,  \* version of each scope, 0 when there is none
          left,     \* what may still change, fail and be walked
          query,    \* what the URL says besides the cursor
          walk,     \* the client's progress
          copy,     \* responses it keeps, by the cursor of their URL
          req       \* the request in progress

vars == <<content, left, query, walk, copy, req>>

-----------------------------------------------------------------------------
(* pagination                                                              *)

Absent == -1
Garbage == -2   \* a pageSize that is no integer
Huge == -3      \* one beyond every machine integer
Invalid == 0

\* What is too large is clamped, what is not a positive integer refused.
parseSize(raw) ==
  CASE raw = Absent -> DefaultSize
    [] raw = Huge -> MaxSize
    [] raw >= 1 -> IF raw <= MaxSize THEN raw ELSE MaxSize
    [] OTHER -> Invalid

\* Mutant: an item is stepped over whether or not it is the cursor's.
SliceAlwaysStepping(items, after, size) ==
  LET start == Cardinality({i \in DOMAIN items : items[i].id < after}) + (IF after # 0 THEN 1 ELSE 0)
      end == IF start + size < Len(items) THEN start + size ELSE Len(items) IN
  [items |-> SubSeq(items, start + 1, end), next |-> IF end < Len(items) THEN items[end].id ELSE 0]

\* The search lands on the first item at or after the cursor; one that is still there is
\* stepped over. A cursor is minted only while items remain.
Slice(items, after, size) ==
  LET start == Cardinality({i \in DOMAIN items : items[i].id < after})
                 + (IF \E i \in DOMAIN items : items[i].id = after THEN 1 ELSE 0)
      end == IF start + size < Len(items) THEN start + size ELSE Len(items) IN
  [items |-> SubSeq(items, start + 1, end), next |-> IF end < Len(items) THEN items[end].id ELSE 0]

-----------------------------------------------------------------------------
(* The collection handler.                                                 *)

\* A set of numbers as the sequence of them in their order.
Ascending(S) == [i \in 1..Cardinality(S) |-> CHOOSE x \in S : Cardinality({y \in S : y <= x}) = i]

NoFilter == 0
filterByScopeID(items, filter) ==
  LET kept == Ascending({i \in DOMAIN items : filter = NoFilter \/ items[i].id = filter}) IN
  [n \in DOMAIN kept |-> items[kept[n]]]

\* One read of the backend, sorted by the key the cursor resumes by.
ListScopes ==
  LET keys == Ascending({k \in Keys : content[k] # 0}) IN
  [i \in DOMAIN keys |-> [id |-> keys[i], version |-> content[keys[i]]]]

\* Total is that of the filtered collection, whatever page this is.
Page(after) ==
  LET items == filterByScopeID(ListScopes, query.filter)
      page == Slice(items, after, parseSize(query.size)) IN
  [items |-> page.items, next |-> page.next, total |-> Len(items)]

-----------------------------------------------------------------------------
(* The wrapper.                                                            *)

NoTag == <<>>
NoBody == [items |-> <<>>, next |-> 0, total |-> -1]
Units(body) == Len(body.items) + 1
Error == NoBody

\* Mutant: the tag stands for the scopes of the page, not for what is said of them.
ComputeByKeys(body) == <<[i \in DOMAIN body.items |-> body.items[i].id], body.next, body.total>>

\* A hash of the bytes that are sent: bodies that differ have tags that differ.
Compute(body) == <<body.items, body.next, body.total>>

Matches(ifNoneMatch, tag) == tag \in ifNoneMatch

Unsent == [status |-> 0, tag |-> NoTag, sent |-> <<>>]
NoRequest == [at |-> "idle", ifNoneMatch |-> {}, status |-> 0, body |-> NoBody, todo |-> <<>>,
              buffer |-> <<>>, overflowed |-> FALSE, gone |-> FALSE, wire |-> Unsent]

\* The client asks for the page its cursor names, with the tag of what it has of it.
Ask ==
  /\ req.at = "idle" /\ walk.at = "walking"
  /\ req' = [NoRequest EXCEPT !.at = "list",
                              !.ifNoneMatch = IF copy[walk.after].tag = NoTag THEN {} ELSE {copy[walk.after].tag}]
  /\ UNCHANGED <<content, left, query, walk, copy>>

Respond(status, body) ==
  req' = [req EXCEPT !.at = "write", !.status = status, !.body = body, !.todo = [i \in 1..Units(body) |-> i]]

\* A query that cannot be read is refused before the backend is asked.
List ==
  /\ req.at = "list"
  /\ \/ parseSize(query.size) = Invalid /\ Respond(400, Error) /\ UNCHANGED left
     \/ parseSize(query.size) # Invalid /\ Respond(200, Page(walk.after)) /\ UNCHANGED left
     \/ /\ parseSize(query.size) # Invalid /\ left.failures > 0
        /\ left' = [left EXCEPT !.failures = @ - 1] /\ Respond(502, Error)
  /\ UNCHANGED <<content, query, walk, copy>>

Piece(n) == SubSeq(req.todo, 1, n)
Rest(n) == SubSeq(req.todo, n + 1, Len(req.todo))

\* Mutant: what was held back is dropped when the buffer overflows.
WriteDropping(n) ==
  /\ req.at = "write" /\ n <= Len(req.todo)
  /\ req' = IF ~req.overflowed /\ Len(req.buffer) + n <= MaxTaggedUnits
            THEN [req EXCEPT !.todo = Rest(n), !.buffer = @ \o Piece(n)]
            ELSE [req EXCEPT !.todo = Rest(n), !.buffer = <<>>, !.overflowed = TRUE,
                             !.wire = [@ EXCEPT !.status = req.status, !.sent = @ \o Piece(n)]]
  /\ UNCHANGED <<content, left, query, walk, copy>>

\* The piece that does not fit commits the status, and what was held back goes before it.
Committed(n) == [req.wire EXCEPT !.status = req.status, !.sent = @ \o req.buffer \o Piece(n)]

\* A handler writes in one piece or in several; after the one that does not fit, all that
\* follows goes straight out.
Write(n) ==
  /\ req.at = "write" /\ n <= Len(req.todo)
  /\ req' = IF ~req.overflowed /\ Len(req.buffer) + n <= MaxTaggedUnits
            THEN [req EXCEPT !.todo = Rest(n), !.buffer = @ \o Piece(n)]
            ELSE [req EXCEPT !.todo = Rest(n), !.buffer = <<>>, !.overflowed = TRUE, !.wire = Committed(n)]
  /\ UNCHANGED <<content, left, query, walk, copy>>

\* When the handler has returned: nothing is left to do for a response that overflowed
\* or a caller who has gone; an error goes out untagged.
Conditional ==
  /\ req.at = "write" /\ req.todo = <<>>
  /\ LET tag == Compute(req.body)
         wire == IF req.overflowed \/ req.gone THEN req.wire
                 ELSE IF req.status # 200 THEN [status |-> req.status, tag |-> NoTag, sent |-> req.buffer]
                 ELSE IF Matches(req.ifNoneMatch, tag) THEN [status |-> 304, tag |-> tag, sent |-> <<>>]
                 ELSE [status |-> 200, tag |-> tag, sent |-> req.buffer] IN
     req' = [req EXCEPT !.at = "sent", !.wire = wire, !.buffer = <<>>]
  /\ UNCHANGED <<content, left, query, walk, copy>>

-----------------------------------------------------------------------------
(* The client and the collection.                                          *)

\* The caller gives up; it will ask for the same page again.
HangUp ==
  /\ req.at \in {"list", "write"} /\ ~req.gone /\ left.failures > 0
  /\ left' = [left EXCEPT !.failures = @ - 1] /\ req' = [req EXCEPT !.gone = TRUE]
  /\ UNCHANGED <<content, query, walk, copy>>

\* What a response stands for: itself, or what the client kept.
Received == IF req.wire.status = 304 THEN copy[walk.after].body ELSE req.body

Receive ==
  /\ req.at = "sent" /\ req' = NoRequest
  /\ CASE req.gone -> UNCHANGED <<walk, copy>>
       [] ~req.gone /\ req.wire.status \in {400, 502} -> walk' = [walk EXCEPT !.at = "failed"] /\ UNCHANGED copy
       [] OTHER ->
            /\ walk' = [walk EXCEPT !.seen = @ \o [i \in DOMAIN Received.items |-> Received.items[i].id],
                                    !.after = Received.next, !.at = IF Received.next = 0 THEN "complete" ELSE @]
            /\ copy' = [copy EXCEPT ![walk.after] = [tag |-> req.wire.tag, body |-> Received]]
  /\ UNCHANGED <<content, left, query>>

Wanted == IF query.filter = NoFilter THEN Keys ELSE {query.filter}
There == {k \in Wanted : content[k] # 0}
Fresh == [at |-> "walking", after |-> 0, seen |-> <<>>, throughout |-> There]

WalkAgain ==
  /\ walk.at \in {"complete", "failed"} /\ left.walks > 0
  /\ left' = [left EXCEPT !.walks = @ - 1] /\ walk' = Fresh
  /\ UNCHANGED <<content, query, copy, req>>

\* A scope is created, changed or deleted on the server.
Change(k) ==
  /\ left.changes > 0 /\ left' = [left EXCEPT !.changes = @ - 1]
  /\ \E version \in {0, 1, 2} \ {content[k]} : content' = [content EXCEPT ![k] = version]
  /\ walk' = [walk EXCEPT !.throughout = {j \in @ : content'[j] # 0}]
  /\ UNCHANGED <<query, copy, req>>

Init ==
  /\ content \in [Keys -> {0, 1}] /\ query \in [size: AskedSizes, filter: Keys \cup {NoFilter}]
  /\ left = [changes |-> MaxChanges, walks |-> MaxWalks, failures |-> MaxFailures]
  /\ walk = Fresh /\ req = NoRequest
  /\ copy = [after \in Keys \cup {0} |-> [tag |-> NoTag, body |-> NoBody]]

Next ==
  \/ Ask \/ List \/ (\E n \in 1..(Cardinality(Keys) + 1) : Write(n)) \/ Conditional \/ HangUp
  \/ Receive \/ WalkAgain \/ \E k \in Keys : Change(k)

Spec == Init /\ [][Next]_vars

-----------------------------------------------------------------------------
(* Properties.                                                             *)

\* Whatever was created and deleted between its pages, a walk that came to its end has
\* met every scope that was there throughout, and none twice (pagination.Slice).
WalkIsComplete ==
  /\ walk.at = "complete" => walk.throughout \subseteq {walk.seen[i] : i \in DOMAIN walk.seen}
  /\ \A i, j \in DOMAIN walk.seen : i < j => walk.seen[i] < walk.seen[j]

\* A caller who is still there gets every unit of the response once and in order, however
\* it was written and whether or not it fitted the buffer; or a 304 without any. Only a
\* whole 200 that was held back has a tag (Conditional, captureWriter.Write).
ResponseIsWhole ==
  req.at = "sent" /\ ~req.gone =>
    /\ req.wire.sent = IF req.wire.status = 304 THEN <<>> ELSE [i \in 1..Units(req.body) |-> i]
    /\ req.wire.tag # NoTag => req.status = 200 /\ req.wire.status \in {200, 304} /\ ~req.overflowed

\* A 304 is only sent to a client whose copy is what the server would have sent now, to
\* the last attribute of every scope, the cursor and the total (Compute, Matches).
NotModifiedIsTrue ==
  req.at = "sent" /\ req.wire.status = 304 /\ ~req.gone => copy[walk.after].body = req.body
=============================================================================
