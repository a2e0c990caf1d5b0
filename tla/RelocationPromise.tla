------------------------- MODULE RelocationPromise -------------------------
(***************************************************************************)
(* What one `copy` or `rename` call promises to its caller, whoever        *)
(* performs it: what the call may do to the store, and what the one answer *)
(* it returns says.  Nothing is said of how the bytes travel.              *)
(* Relocation.tla models the layers that perform the call and is shown to  *)
(* implement this specification.                                           *)
(***************************************************************************)
EXTENDS ObjectStore

VARIABLE answer    \* what the call returned, "none" while it runs

\* Answers that say the call did nothing at all.
CleanCodes == {"Unsupported", "InvalidArgument", "Redirects"}

PromiseInit == StoreInit /\ answer = "none"

\* The destination takes, whole, a content the source had during the call.
\* The write of a call whose caller dropped it may still land.
Place(v) ==
  /\ answer \in {"none", "Dropped"}
  /\ v \in held
  /\ req.if_source # NoEtag => v = req.if_source
  /\ DestinationAllows
  /\ obj' = [obj EXCEPT ![Destination] = [of |-> v, whole |-> TRUE, mine |-> TRUE]]
  /\ Track({v})
  /\ UNCHANGED <<req, wrote, removed, answer>>

\* The source goes away, after its content was placed.  A content that was
\* never placed may go only when the caller named none and it is newer than
\* the call.
Remove ==
  /\ answer = "none"
  /\ req.op = "rename"
  /\ Source # Destination
  /\ placed # {}
  /\ obj[Source] # Gone
  /\ SourceMatches
  /\ obj[Source].of \in placed \cup (IF req.if_source = NoEtag THEN wrote ELSE {})
  /\ obj' = [obj EXCEPT ![Source] = Gone]
  /\ removed' = removed \cup {obj[Source].of}
  /\ Track({})
  /\ UNCHANGED <<req, wrote, answer>>

\* Both at once: a native rename.
Move ==
  /\ answer = "none"
  /\ req.op = "rename"
  /\ obj[Source] # Gone
  /\ SourceMatches
  /\ DestinationAllows
  /\ Source # Destination
  /\ obj' = [obj EXCEPT ![Destination] = [of |-> obj[Source].of, whole |-> TRUE,
                                          mine |-> TRUE],
                        ![Source] = Gone]
  /\ removed' = removed \cup {obj[Source].of}
  /\ Track({obj[Source].of})
  /\ UNCHANGED <<req, wrote, answer>>

\* The one answer.  "Ok" says the work was done, a clean refusal that none
\* was, "CommitAmbiguous" that the destination was written.
Earned(code) ==
  /\ code = "Ok" => /\ placed # {}
                    /\ req.op = "rename" => vacated \/ Source = Destination
  /\ code \in CleanCodes => placed = {} /\ removed = {}
  /\ code = "CommitAmbiguous" => req.op = "rename" /\ placed # {}

Answer(code) ==
  /\ answer = "none"
  /\ Earned(code)
  /\ answer' = code
  /\ UNCHANGED <<req, storage>>

PromiseNext ==
  \/ Others /\ UNCHANGED answer
  \/ \E v \in Versions : Place(v)
  \/ Remove
  \/ Move
  \/ \E code \in Codes : Answer(code)

PromiseSpec == PromiseInit /\ [][PromiseNext]_<<req, storage, answer>>

=============================================================================
