---------------------------- MODULE Relocation ----------------------------
(***************************************************************************)
(* One `copy` or `rename` call through the copy/rename fallback layer, the *)
(* retry layer below it and a backend: the native attempt, the emulation   *)
(* by read, write and delete, the bridge that feeds a streamed read into a *)
(* streamed write, and the cancellation or loss of the call at any point.  *)
(*                                                                         *)
(* The backend is external.  It performs an operation in one step or not   *)
(* at all, checks the preconditions it is given, and its reply to a step   *)
(* that was performed may be lost, which the caller sees as a transient    *)
(* error.  Other clients write and delete at both addresses throughout.    *)
(***************************************************************************)
EXTENDS ObjectStore

CONSTANTS Backends,   \* what the backend serves, declines and hides
          Attempts,   \* RetryConfig::max_attempts
          Chunks,     \* chunks of one object on a stream
          Capacity    \* BRIDGE_CHANNEL_CAPACITY

ASSUME BridgeAssumption == /\ Attempts \in Nat \ {0}
                           /\ Chunks \in Nat \ {0}
                           /\ Capacity \in Nat \ {0}

\* What a backend makes of a call, how it takes a streamed body, and how it
\* hands one out.
ASSUME BackendsAssumption ==
  Backends \subseteq [rename : {"served", "declined", "hidden"},
                      copy : {"served", "redirects", "declined", "hidden"},
                      delete : {"served", "plain", "declined", "hidden"},
                      sink : {"stream", "buffer", "declined"},
                      body : {"bytes", "stream", "delegate", "redirect"}, big : BOOLEAN]

VARIABLES backend,   \* the backend of this call
          pc,        \* where the call is
          attempt,   \* attempts made of the present inner operation
          reply,     \* what the inner operation returned, "none" while it runs;
                     \* what the call returned once it is done
          found,     \* the content the opened source read is pinned to
          chan,      \* the bridge channel
          sent,      \* chunks the bridge task has sent
          taken,     \* chunks the destination write has pulled
          bridge,    \* the bridge task: "none", "open" or "ended"
          rx,        \* who holds the channel's receiver: the "call", a blocking
                     \* "thread" the call has left behind, or nobody ("gone")
          cancel     \* the caller's token is cancelled

call == <<pc, attempt, reply, found, taken>>
wire == <<chan, sent, bridge, rx>>
vars == <<req, storage, backend, call, wire, cancel>>

Steps == {"probe", "rename", "emulate", "copy_probe", "copy", "transfer",
          "read_to_bytes", "drain", "write", "read_to_body", "write_stream",
          "delete", "done"}

\* The operations the retry layer replays; a streamed write passes through.
Replayed == {"rename", "copy", "read_to_bytes", "write", "read_to_body", "delete"}

Retryable == {"Transient", "ResourceExhausted"}

Init ==
  /\ StoreInit
  /\ backend \in Backends
  /\ pc = "probe"
  /\ attempt = 1
  /\ reply = "none"
  /\ found = Gone
  /\ chan = <<>>
  /\ sent = 0
  /\ taken = 0
  /\ bridge = "none"
  /\ rx = "gone"
  /\ cancel = FALSE

-----------------------------------------------------------------------------
(* The call's own steps.                                                   *)

Goto(step) ==
  /\ pc' = step
  /\ attempt' = 1
  /\ reply' = "none"
  /\ UNCHANGED <<found, taken>>

Return(code) ==
  /\ pc' = "done"
  /\ reply' = code
  /\ UNCHANGED <<attempt, found, taken>>

Local == UNCHANGED <<req, storage, backend, wire, cancel>>

\* A capability probe that fails counts as "attempt it".
Advertises(served) == {served # "hidden", TRUE}

Probe ==
  /\ pc = "probe"
  /\ IF req.op = "copy" THEN Goto("copy_probe")
     ELSE \E asked \in Advertises(backend.rename) :
            Goto(IF asked THEN "rename" ELSE "emulate")
  /\ Local

\* The emulation of a rename: never in place, and only where the source root
\* can delete.
Emulate ==
  /\ pc = "emulate"
  /\ IF Source = Destination THEN Return("InvalidArgument")
     ELSE \E deletes \in Advertises(backend.delete) :
            IF deletes THEN Goto("copy_probe") ELSE Return("Unsupported")
  /\ Local

CopyProbe ==
  /\ pc = "copy_probe"
  /\ \E asked \in Advertises(backend.copy) : Goto(IF asked THEN "copy" ELSE "transfer")
  /\ Local

\* transfer_fallback picks the destination slot before it reads.
Transfer ==
  /\ pc = "transfer"
  /\ IF Source = Destination THEN Return("InvalidArgument")
     ELSE \E streams \in {backend.sink # "buffer", TRUE} :
            Goto(IF streams THEN "read_to_body" ELSE "read_to_bytes")
  /\ Local

\* A mutation: one attempt too many.
AgainOneMore == pc \in Replayed /\ reply \in Retryable /\ attempt <= Attempts

\* with_retry_async: another attempt while the error is retryable and the
\* budget lasts.
Again == pc \in Replayed /\ reply \in Retryable /\ attempt < Attempts

Retry ==
  /\ Again
  /\ attempt' = attempt + 1
  /\ reply' = "none"
  /\ UNCHANGED <<pc, found, taken>>
  /\ Local

Settled(op) == pc = op /\ reply # "none" /\ ~Again

AfterRename ==
  /\ Settled("rename")
  /\ IF reply = "Unsupported" THEN Goto("emulate") ELSE Return(reply)
  /\ Local

\* What follows a copy, native or emulated: the answer, or the delete of an
\* emulated rename.
Copied(code) ==
  IF req.op = "rename" /\ code = "Ok" THEN Goto("delete") ELSE Return(code)

\* A copy that hands the transfer to the caller cannot complete a rename.
AfterCopy ==
  /\ Settled("copy")
  /\ CASE reply = "Unsupported" -> Goto("transfer")
       [] reply = "Redirects" /\ req.op = "rename" -> Return("Unsupported")
       [] OTHER -> Copied(reply)
  /\ Local

\* as_pre_write_precondition: until a byte has moved, a source that does not
\* match `if_source` is a failed precondition.
PreWrite(code, moved) ==
  IF code = "ObjectModified" /\ req.if_source # NoEtag /\ ~moved
  THEN "PreconditionFailed" ELSE code

\* A source over the cap is refused, unless it is a stream of unknown size.
AfterReadToBytes ==
  /\ Settled("read_to_bytes")
  /\ IF reply # "Ok" THEN Return(PreWrite(reply, FALSE))
     ELSE IF backend.body = "redirect" THEN Return("Unsupported")
     ELSE IF backend.big THEN \/ Return("ResourceExhausted")
                              \/ backend.body = "stream" /\ Goto("drain")
     ELSE CASE backend.body = "stream"   -> Goto("drain")
            [] backend.body = "bytes"    -> Goto("write")
            [] backend.body = "delegate" -> Goto("write") \/ Return("Internal")
  /\ Local

\* The source an opened read is pinned to is not the one the caller named,
\* which the backend may find out only when it is polled.
Unwanted == req.if_source # NoEtag /\ found # req.if_source

Changed == ~Matches(obj[Source], found)

\* The buffered path drains the stream into memory before it writes, and stops
\* at the cap.  It awaits the source alone: a fired token is seen only if the
\* stream itself yields "Cancelled".
Drain ==
  /\ pc = "drain"
  /\ \/ ~Unwanted /\ (IF backend.big THEN Return("ResourceExhausted") ELSE Goto("write"))
     \/ Unwanted /\ Return(PreWrite("ObjectModified", FALSE))
     \/ Changed /\ \E moved \in BOOLEAN : Return(PreWrite("ObjectModified", moved))
     \/ Return("Transient")
     \/ cancel /\ Return("Cancelled")
  /\ Local

AfterWrite ==
  /\ pc \in {"write", "write_stream"}
  /\ Settled(pc)
  /\ Copied(reply)
  /\ Local

\* body_stream_from_read_stream: a streamed source gets a bridge task.
AfterReadToBody ==
  /\ Settled("read_to_body")
  /\ IF reply # "Ok" THEN Return(PreWrite(reply, FALSE))
     ELSE IF backend.body = "redirect" THEN Return("Unsupported")
     ELSE Goto("write_stream")
  /\ IF reply = "Ok" /\ backend.body = "stream" THEN bridge' = "open" /\ rx' = "call"
     ELSE UNCHANGED <<bridge, rx>>
  /\ UNCHANGED <<req, storage, backend, chan, sent, cancel>>

\* A mutation: the delete's own error is returned.
AfterDeleteBare ==
  /\ Settled("delete")
  /\ Return(IF reply = "NotFound" THEN "Ok" ELSE reply)
  /\ Local

\* The destination is committed: whatever the delete failed with, the caller
\* learns that the outcome is unknown.
AfterDelete ==
  /\ Settled("delete")
  /\ Return(IF reply \in {"Ok", "NotFound"} THEN "Ok" ELSE "CommitAmbiguous")
  /\ Local

-----------------------------------------------------------------------------
(* The backend (external): one inner operation, in one step.               *)

Serving(op) == pc = op /\ reply = "none"

Outside == UNCHANGED <<req, backend, cancel, pc, attempt, wrote>>

\* Failures that leave the store alone.
Faults == {"Transient", "Refused"} \cup (IF cancel THEN {"Cancelled"} ELSE {})

SourceObjections(code) ==
  CASE obj[Source] = Gone -> {"NotFound"}
    [] obj[Source] # Gone /\ ~SourceMatches -> {code}
    [] OTHER -> {}

DestinationObjections ==
  IF DestinationAllows THEN {}
  ELSE IF req.if_dest = "Fail" THEN {"Refused"} ELSE {"PreconditionFailed"}

Fails(codes) ==
  /\ reply' \in codes
  /\ Outside
  /\ UNCHANGED <<obj, held, placed, removed, vacated, found, taken>>

\* The operation is performed, and its reply arrives or is lost.
Lands(store, stored, lost) ==
  /\ obj' = store
  /\ Track(stored)
  /\ removed' = removed \cup lost
  /\ reply' \in {"Ok", "Transient"}
  /\ Outside
  /\ UNCHANGED <<found, taken>>

Stored(v, complete) == [of |-> v, whole |-> complete, mine |-> TRUE]

BackendRename ==
  /\ Serving("rename")
  /\ IF backend.rename # "served" THEN Fails({"Unsupported"} \cup Faults)
     ELSE LET objections == SourceObjections("PreconditionFailed")
                              \cup DestinationObjections
              v == obj[Source].of
          IN \/ Fails(objections \cup Faults)
             \/ /\ objections = {}
                /\ IF Source = Destination THEN Lands([obj EXCEPT ![Source] = Stored(v, TRUE)], {v}, {})
                   ELSE Lands([obj EXCEPT ![Destination] = Stored(v, TRUE), ![Source] = Gone],
                              {v}, {v})

BackendCopy ==
  /\ Serving("copy")
  /\ IF backend.copy \notin {"served", "redirects"} THEN Fails({"Unsupported"} \cup Faults)
     ELSE LET objections == SourceObjections("PreconditionFailed")
                              \cup DestinationObjections
              v == obj[Source].of
          IN \/ Fails(objections \cup Faults)
             \/ objections = {} /\ backend.copy = "redirects" /\ Fails({"Redirects"})
             \/ /\ objections = {} /\ backend.copy = "served"
                /\ Lands([obj EXCEPT ![Destination] = Stored(v, TRUE)], {v}, {})

\* A read is pinned to the object it opened.  The check of `if_match` may be
\* left to the first poll of a stream.
BackendRead ==
  /\ pc \in {"read_to_bytes", "read_to_body"} /\ reply = "none"
  /\ \/ Fails(SourceObjections("ObjectModified") \cup Faults)
     \/ /\ obj[Source] # Gone
        /\ SourceMatches \/ backend.body = "stream"
        /\ found' = obj[Source].of
        /\ reply' = "Ok"
        /\ Outside
        /\ UNCHANGED <<obj, held, placed, removed, vacated, taken>>

BackendWrite ==
  /\ Serving("write")
  /\ \/ Fails(DestinationObjections \cup Faults)
     \/ /\ DestinationAllows
        /\ Lands([obj EXCEPT ![Destination] = Stored(found, TRUE)], {found}, {})

BackendDelete ==
  /\ Serving("delete")
  /\ IF \/ backend.delete \in {"declined", "hidden"}
        \/ backend.delete = "plain" /\ req.if_source # NoEtag
     THEN Fails({"Unsupported"} \cup Faults)
     ELSE \/ Fails(SourceObjections("PreconditionFailed") \cup Faults)
          \/ /\ obj[Source] # Gone /\ SourceMatches
             /\ Lands([obj EXCEPT ![Source] = Gone], {}, {obj[Source].of})

BackendDeclinesStream ==
  /\ Serving("write_stream")
  /\ backend.sink # "stream"
  /\ Fails({"Unsupported"} \cup Faults)
  /\ rx' = "gone"
  /\ UNCHANGED <<chan, sent, bridge>>

\* The write ends before its body does.  A blocking thread that is pulling the
\* body goes on, and keeps the receiver.
LeavesBody ==
  /\ \/ rx' = "gone"
     \/ rx = "call" /\ backend.sink = "stream" /\ rx' = "thread"
  /\ UNCHANGED <<chan, sent, bridge>>

\* The destination gives up on a streamed write before its body ends.
BackendRejectsStream ==
  /\ Serving("write_stream")
  /\ Fails(DestinationObjections \cup Faults)
  /\ LeavesBody

\* The body ended cleanly after `pulled` chunks: the write commits.
CommitStream(pulled) ==
  \/ Fails(DestinationObjections \cup Faults)
  \/ /\ DestinationAllows
     /\ Lands([obj EXCEPT ![Destination] = Stored(found, pulled = Chunks)], {found}, {})

\* A body that needs no bridge: bytes already in memory, or a local file.
BackendTakesBody ==
  /\ Serving("write_stream")
  /\ backend.sink = "stream"
  /\ backend.body # "stream"
  /\ \/ CommitStream(Chunks)
     \/ backend.body = "delegate" /\ Fails({"Internal"})

-----------------------------------------------------------------------------
(* The bridge: a spawned task reads the source and sends on the channel;   *)
(* the destination write pulls from it.                                    *)

Pulling == Serving("write_stream")

BridgeStep == UNCHANGED <<req, storage, backend, call, cancel>>

\* The next item of the source stream is ready and the channel has room.
BridgeSends(item) ==
  /\ bridge = "open"
  /\ rx # "gone"
  /\ Len(chan) < Capacity
  /\ CASE item = "Chunk"          -> sent < Chunks /\ ~Unwanted
       [] item = "End"            -> sent = Chunks /\ ~Unwanted
       [] item = "ObjectModified" -> Unwanted \/ Changed
       [] item = "Transient"      -> TRUE
  /\ chan' = Append(chan, item)
  /\ sent' = IF item = "Chunk" THEN sent + 1 ELSE sent
  /\ bridge' = IF item = "Chunk" THEN "open" ELSE "ended"
  /\ UNCHANGED rx
  /\ BridgeStep

\* A mutation: the token is looked at only once the consumer is gone.
BridgeCancelledIfClosed ==
  /\ bridge = "open"
  /\ cancel
  /\ rx = "gone"
  /\ bridge' = "ended"
  /\ UNCHANGED <<chan, sent, rx>>
  /\ BridgeStep

\* The token fires while the task waits for the source.
BridgeCancelled ==
  /\ bridge = "open"
  /\ cancel
  /\ rx # "gone"
  /\ Len(chan) < Capacity
  /\ chan' = Append(chan, "Cancelled")
  /\ bridge' = "ended"
  /\ UNCHANGED <<sent, rx>>
  /\ BridgeStep

\* A mutation: a closed channel is noticed only by a send.
BridgeClosedOnSend ==
  /\ bridge = "open"
  /\ rx = "gone"
  /\ Len(chan) = Capacity
  /\ bridge' = "ended"
  /\ UNCHANGED <<chan, sent, rx>>
  /\ BridgeStep

\* The receiver is gone: the task ends, whether it was waiting for the source
\* or for room.
BridgeClosed ==
  /\ bridge = "open"
  /\ rx = "gone"
  /\ bridge' = "ended"
  /\ UNCHANGED <<chan, sent, rx>>
  /\ BridgeStep

\* The task dies (a panic, the runtime going down) without an end marker.
BridgeDies ==
  /\ bridge = "open"
  /\ bridge' = "ended"
  /\ UNCHANGED <<chan, sent, rx>>
  /\ BridgeStep

\* The destination write pulls one item.
Pull ==
  /\ Pulling
  /\ backend.sink = "stream"
  /\ chan # <<>>
  /\ chan' = Tail(chan)
  /\ rx' = IF Head(chan) = "Chunk" THEN rx ELSE "gone"
  /\ UNCHANGED <<sent, bridge>>
  /\ CASE Head(chan) = "End"   -> CommitStream(taken)
       [] Head(chan) = "Chunk" -> /\ taken' = taken + 1
                                  /\ UNCHANGED <<obj, held, placed, removed, vacated, found, reply>>
                                  /\ Outside
       [] OTHER                -> Fails({Head(chan)})

\* A mutation: a channel that closed ends the body.
PullClosedAsEnd ==
  /\ Pulling
  /\ backend.sink = "stream"
  /\ backend.body = "stream"
  /\ bridge = "ended"
  /\ chan = <<>>
  /\ CommitStream(taken)
  /\ rx' = "gone"
  /\ UNCHANGED <<chan, sent, bridge>>

\* A channel that closed without an end marker is an error, never an end.
PullClosed ==
  /\ Pulling
  /\ backend.sink = "stream"
  /\ backend.body = "stream"
  /\ bridge = "ended"
  /\ chan = <<>>
  /\ Fails({"Internal"})
  /\ rx' = "gone"
  /\ UNCHANGED <<chan, sent, bridge>>

\* A thread left behind pulls one item.  It goes on after a chunk, or was there
\* for one pull only; at the clean end of a dropped call's body it may still
\* store what it has.
ThreadPulls ==
  /\ rx = "thread"
  /\ chan # <<>>
  /\ chan' = Tail(chan)
  /\ \/ /\ Head(chan) = "Chunk"
        /\ taken' = taken + 1
        /\ rx' \in {"thread", "gone"}
        /\ UNCHANGED storage
     \/ /\ Head(chan) # "Chunk"
        /\ rx' = "gone"
        /\ UNCHANGED <<taken, storage>>
     \/ /\ Head(chan) = "End"
        /\ pc = "done" /\ reply = "Dropped"
        /\ DestinationAllows
        /\ obj' = [obj EXCEPT ![Destination] = Stored(found, taken = Chunks)]
        /\ Track({found})
        /\ rx' = "gone"
        /\ UNCHANGED <<taken, wrote, removed>>
  /\ UNCHANGED <<req, backend, cancel, pc, attempt, reply, found, sent, bridge>>

\* It is woken by a channel that closed.
ThreadClosed ==
  /\ rx = "thread"
  /\ bridge = "ended"
  /\ chan = <<>>
  /\ rx' = "gone"
  /\ UNCHANGED <<chan, sent, bridge>>
  /\ BridgeStep

-----------------------------------------------------------------------------
(* The caller and everybody else.                                          *)

\* The token outlives the call.
Cancel ==
  /\ pc # "done" \/ bridge = "open"
  /\ ~cancel
  /\ cancel' = TRUE
  /\ UNCHANGED <<req, storage, backend, call, wire>>

\* The caller drops the future.
Drop ==
  /\ pc # "done"
  /\ Return("Dropped")
  /\ LeavesBody
  /\ UNCHANGED <<req, storage, backend, cancel>>

\* The call has returned and nothing of it is left.
Finished == pc = "done" /\ bridge # "open" /\ rx # "thread" /\ UNCHANGED vars

Call ==
  \/ Probe \/ Emulate \/ CopyProbe \/ Transfer \/ Retry
  \/ AfterRename \/ AfterCopy \/ AfterReadToBytes \/ AfterWrite
  \/ AfterReadToBody \/ AfterDelete

\* What the backend does of itself when asked.
Answering ==
  \/ /\ \/ BackendRename \/ BackendCopy \/ BackendRead \/ BackendWrite
        \/ BackendDelete \/ BackendTakesBody
     /\ UNCHANGED wire
  \/ BackendDeclinesStream \/ Pull \/ PullClosed

Bridge ==
  \/ \E item \in {"Chunk", "End", "ObjectModified", "Transient"} : BridgeSends(item)
  \/ BridgeCancelled \/ BridgeClosed \/ BridgeDies

Thread == ThreadPulls \/ ThreadClosed

Next ==
  \/ Call \/ Drain \/ Answering \/ BackendRejectsStream \/ Bridge \/ Thread
  \/ Cancel \/ Drop \/ Finished
  \/ Others /\ UNCHANGED <<backend, call, wire, cancel>>

\* The executor runs the call, the backend answers what it is asked, the
\* bridge task is woken by a closed channel or a fired token, and a thread in
\* recv_blocking by an item.  Nothing says that a source stream ever yields
\* another item, to the bridge or to the buffered drain, nor that a
\* destination gives up on a body that does not come.
Fairness ==
  /\ WF_vars(Call)
  /\ WF_vars(Answering)
  /\ WF_vars(BridgeClosed)
  /\ WF_vars(BridgeCancelled)
  /\ WF_vars(Thread)

Spec == Init /\ [][Next]_vars /\ Fairness

-----------------------------------------------------------------------------
(* Properties.                                                             *)

\* The type invariant: no operation is attempted more than Attempts times, the
\* channel keeps to its capacity, and no chunk is pulled that was not sent.
TypeOK ==
  /\ req \in Requests
  /\ backend \in Backends
  /\ obj \in [Addresses -> Objects \cup {Gone}]
  /\ wrote \subseteq Versions /\ held \subseteq Versions
  /\ placed \subseteq Versions /\ removed \subseteq Versions
  /\ vacated \in BOOLEAN /\ cancel \in BOOLEAN
  /\ pc \in Steps
  /\ attempt \in 1 .. Attempts
  /\ reply \in Codes \cup {"none"}
  /\ found \in Versions \cup {Gone}
  /\ chan \in Seq({"Chunk", "End", "ObjectModified", "Transient", "Cancelled"})
  /\ Len(chan) <= Capacity
  /\ sent \in 0 .. Chunks /\ taken \in 0 .. sent
  /\ bridge \in {"none", "open", "ended"}
  /\ rx \in {"call", "thread", "gone"}

\* The promise, with the call's answer for what it returned.
Promise == INSTANCE RelocationPromise WITH
             answer <- IF pc = "done" THEN reply ELSE "none"

\* The layers keep the promise of RelocationPromise: seen from outside, every
\* step is a step of another client, stores a whole content of the source,
\* removes a source whose content is safe, or returns an answer that is true.
PromiseKept == Promise!PromiseSpec

\* A content the call removed from the source was stored whole at another
\* address first; the only exception is a content that appeared during a
\* rename whose caller named no `if_source`.
NothingLost ==
  /\ removed \ placed \subseteq IF req.if_source = NoEtag THEN wrote ELSE {}
  /\ \A a \in Addresses : obj[a] # Gone => obj[a].whole
  /\ Source = Destination => removed = {}

\* A cancelled call returns, even when a bridge feeds it from a source that
\* has stalled; only the buffered drain may wait for such a source for ever.
CancelReturns == cancel ~> pc \in {"drain", "done"}

\* The call is over: the bridge task lets go of its source stream, and no
\* thread stays parked on the channel, even when that stream has stalled.
\* This needs a receiver that went with the call, or the token: a thread the
\* call left behind keeps the channel open.
SourceReleased ==
  (pc = "done" /\ (rx = "gone" \/ cancel)) ~> (bridge # "open" /\ rx # "thread")

=============================================================================
