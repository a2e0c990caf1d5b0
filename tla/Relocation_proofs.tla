------------------------- MODULE Relocation_proofs -------------------------
(***************************************************************************)
(* The layers keep the promise of a `copy` or `rename` call, whatever the   *)
(* addresses, the other clients' writes, the retry budget, the number of    *)
(* chunks and the capacity of the bridge.                                   *)
(***************************************************************************)
EXTENDS Relocation, SequenceTheorems, TLAPS

(* The steps before anything has been stored.                               *)
Untouched == {"probe", "emulate", "copy_probe", "transfer", "read_to_bytes", "drain", "read_to_body"}

(* The steps of a rename after it has been found not to be in place.        *)
Emulating == {"copy_probe", "copy", "transfer", "read_to_bytes", "drain", "write", "read_to_body",
              "write_stream", "delete"}

(* The store: the source's content is known, everything is whole, and the   *)
(* source of a call that is not in place is other clients' work: the        *)
(* original until one of them changes it, never again afterwards.           *)
StoreInv ==
  /\ obj[Source] # Gone => obj[Source].of \in held
  /\ \A a \in Addresses : obj[a] # Gone => obj[a].whole
  /\ Source # Destination /\ obj[Source] # Gone =>
       obj[Source] = Foreign(obj[Source].of) /\ obj[Source].of \in wrote \cup {Original}
  /\ Source # Destination /\ obj[Source] = Foreign(Original) => held = {Original}
  /\ placed # {} /\ obj[Source] = Gone => vacated
  /\ placed \subseteq held
  /\ req.if_source # NoEtag => placed \subseteq {req.if_source}

(* What has been stored and removed, by the step the call is at.            *)
ProgressInv ==
  /\ pc \in Untouched => placed = {}
  /\ pc \notin {"rename", "delete", "done"} => removed = {}
  /\ pc = "rename" /\ backend.rename # "served" => placed = {} /\ removed = {}
  /\ pc = "copy" /\ backend.copy # "served" => placed = {}
  /\ pc = "write_stream" /\ backend.sink # "stream" => placed = {}
  /\ pc = "delete" => placed # {}
  /\ pc \in {"rename", "emulate", "delete"} => req.op = "rename"
  /\ pc \in Emulating /\ req.op = "rename" => Source # Destination

(* What the reply of an inner operation says.                               *)
ReplyInv ==
  /\ pc # "done" => reply \notin {"InvalidArgument", "CommitAmbiguous"}
  /\ pc \in {"rename", "copy", "write", "write_stream"} /\ reply = "Ok" => placed # {}
  /\ pc = "rename" /\ reply = "Ok" => vacated \/ Source = Destination
  /\ pc = "delete" /\ reply \in {"Ok", "NotFound"} => vacated
  /\ reply = "Redirects" /\ pc # "done" => pc = "copy" /\ backend.copy = "redirects"
  /\ reply = "Unsupported" =>
       \/ pc = "rename" /\ backend.rename # "served"
       \/ pc = "copy" /\ backend.copy # "served"
       \/ pc = "write_stream" /\ backend.sink # "stream"
       \/ pc \in {"delete", "done"}

(* A read is pinned to a content that the source had; once its bytes can    *)
(* reach the destination, to the one that the caller named.                 *)
PinInv ==
  /\ \/ pc \in {"read_to_bytes", "read_to_body"} /\ reply = "Ok"
     \/ pc \in {"drain", "write", "write_stream"}
     => /\ found \in held
        /\ backend.body # "stream" => ~Unwanted
  /\ pc = "write" => ~Unwanted

(* The channel: chunks, then at most one other item, the last that the      *)
(* bridge task sends; an end marker only after all of a wanted source.      *)
Closing == chan # <<>> /\ chan[Len(chan)] # "Chunk"
WireInv ==
  /\ \A n \in 1 .. Len(chan) : n < Len(chan) => chan[n] = "Chunk"
  /\ bridge = "open" => ~Closing
  /\ taken + Len(chan) = sent + (IF Closing THEN 1 ELSE 0)
  /\ \A n \in 1 .. Len(chan) : chan[n] = "End" => sent = Chunks /\ ~Unwanted
  /\ bridge = "none" => chan = <<>> /\ sent = 0 /\ taken = 0
  /\ pc \notin {"write_stream", "delete", "done"} => bridge = "none"

(* What is on its way to the destination, even after the call, is a content *)
(* of the source.                                                           *)
BodyInv == bridge # "none" => found \in held

Inv == TypeOK /\ StoreInv /\ ProgressInv /\ ReplyInv /\ PinInv /\ WireInv /\ BodyInv

Holders == {"call", "thread", "gone"}
-----------------------------------------------------------------------------
(* The store.                                                              *)

LEMMA Shapes ==
  ASSUME TypeOK
  PROVE  /\ Source \in Addresses /\ Destination \in Addresses
         /\ req.op \in {"copy", "rename"} /\ req.if_source \in Versions \cup {NoEtag}
         /\ req.if_dest \in {"Overwrite", "Fail", "MatchEtag"}
         /\ \A a \in Addresses : obj[a] # Gone => /\ obj[a] \in Objects /\ obj[a].of \in Versions
                                                  /\ obj[a].whole \in BOOLEAN
         /\ Gone \notin Objects /\ Gone \notin Versions /\ NoEtag \notin Versions
         /\ backend.rename \in {"served", "declined", "hidden"}
         /\ backend.copy \in {"served", "redirects", "declined", "hidden"}
         /\ backend.delete \in {"served", "plain", "declined", "hidden"}
         /\ backend.sink \in {"stream", "buffer", "declined"}
         /\ backend.body \in {"bytes", "stream", "delegate", "redirect"}
<1>1. /\ req \in [op : {"copy", "rename"}, source : Addresses, destination : Addresses,
                  if_source : Versions \cup {NoEtag}, if_dest : {"Overwrite", "Fail", "MatchEtag"}]
      /\ NoEtag \notin Versions /\ Gone \notin Versions /\ Gone \notin Objects
  BY RequestsAssumption DEF TypeOK, Objects
<1>2. backend \in [rename : {"served", "declined", "hidden"},
                   copy : {"served", "redirects", "declined", "hidden"},
                   delete : {"served", "plain", "declined", "hidden"},
                   sink : {"stream", "buffer", "declined"},
                   body : {"bytes", "stream", "delegate", "redirect"}, big : BOOLEAN]
  BY BackendsAssumption DEF TypeOK
<1>3. \A a \in Addresses : obj[a] # Gone => obj[a] \in Objects
  BY DEF TypeOK
<1>4. \A o \in Objects : o.of \in Versions /\ o.whole \in BOOLEAN
  BY DEF Objects
<1> QED BY <1>1, <1>2, <1>3, <1>4 DEF Source, Destination

(* The objects that other clients and the call store.                       *)
LEMMA NewObjects ==
  ASSUME NEW v \in Versions
  PROVE  /\ Foreign(v) \in Objects /\ Foreign(v) # Gone /\ Foreign(v).of = v /\ Foreign(v).whole = TRUE
         /\ Stored(v, TRUE) \in Objects /\ Stored(v, TRUE) # Gone
         /\ Stored(v, TRUE).of = v /\ Stored(v, TRUE).whole = TRUE
         /\ \A w : Foreign(v) = Foreign(w) => v = w
<1>1. Gone \notin Objects
  BY RequestsAssumption DEF Objects
<1>2. Foreign(v) \in Objects /\ Stored(v, TRUE) \in Objects
  BY DEF Foreign, Stored, Objects
<1>3. /\ Foreign(v).of = v /\ Foreign(v).whole = TRUE
      /\ Stored(v, TRUE).of = v /\ Stored(v, TRUE).whole = TRUE
  BY DEF Foreign, Stored
<1>4. \A w : Foreign(w).of = w
  BY DEF Foreign
<1> QED BY <1>1, <1>2, <1>3, <1>4

(* The content of an object.                                                *)
LEMMA ContentsOf ==
  /\ Contents(Gone) = {}
  /\ \A o : o # Gone => Contents(o) = {o.of}
  BY DEF Contents

(* Whatever a step of the promise does, the history of the source and the   *)
(* objects agree.                                                           *)
LEMMA StoreStep ==
  ASSUME TypeOK, StoreInv, [Promise!PromiseNext]_<<req, storage>>
  PROVE  StoreInv'
<1>1. /\ obj \in [Addresses -> Objects \cup {Gone}] /\ wrote \subseteq Versions
      /\ held \subseteq Versions /\ placed \subseteq Versions /\ vacated \in BOOLEAN
      /\ Source \in Addresses /\ Destination \in Addresses
      /\ \A a \in Addresses : obj[a] # Gone => obj[a].of \in Versions
      /\ Original \in Versions
  BY Shapes, VersionsAssumption DEF TypeOK
<1>2. CASE UNCHANGED <<req, storage>>
  BY <1>2 DEF storage, StoreInv, Source, Destination, Foreign
<1>3. ASSUME NEW a \in Addresses, NEW v \in Versions, ForeignWrite(a, v)
      PROVE  StoreInv'
  <2>1. /\ v \notin wrote \cup {Original, Resident} /\ UNCHANGED <<req, removed>>
        /\ obj' = [obj EXCEPT ![a] = Foreign(v)] /\ wrote' = wrote \cup {v}
        /\ held' = held \cup Contents(obj'[Source]) /\ placed' = placed
        /\ Source' = Source /\ Destination' = Destination
        /\ vacated' = (obj'[Source] = Gone \/ vacated)
    BY <1>3 DEF ForeignWrite, Track, Source, Destination
  <2>2. /\ Foreign(v) # Gone /\ Foreign(v).of = v /\ Foreign(v).whole = TRUE
        /\ Foreign(v) # Foreign(Original)
    BY <1>1, <2>1, NewObjects
  <2>3. /\ \A b \in Addresses : b # a => obj'[b] = obj[b]
        /\ obj'[a] = Foreign(v)
    BY <1>1, <2>1
  <2>4. CASE a = Source
    <3>1. obj'[Source] = Foreign(v) /\ held' = held \cup {v}
      BY <2>1, <2>2, <2>3, <2>4, ContentsOf
    <3> QED BY <2>1, <2>2, <2>3, <2>4, <3>1 DEF StoreInv
  <2>5. CASE a # Source
    <3>1. obj'[Source] = obj[Source] /\ held' = held
      BY <1>1, <2>1, <2>3, <2>5, ContentsOf DEF StoreInv
    <3> QED BY <1>1, <2>1, <2>2, <2>3, <3>1 DEF StoreInv
  <2> QED BY <2>4, <2>5
<1>4. ASSUME NEW a \in Addresses, ForeignDelete(a)
      PROVE  StoreInv'
  <2>1. /\ UNCHANGED <<req, removed, wrote>> /\ obj' = [obj EXCEPT ![a] = Gone]
        /\ held' = held \cup Contents(obj'[Source]) /\ placed' = placed
        /\ Source' = Source /\ Destination' = Destination
        /\ vacated' = (obj'[Source] = Gone \/ vacated)
    BY <1>4 DEF ForeignDelete, Track, Source, Destination
  <2>2. \A b \in Addresses : obj'[b] = IF b = a THEN Gone ELSE obj[b]
    BY <1>1, <2>1
  <2>3. held' = held
    BY <1>1, <2>1, <2>2, ContentsOf DEF StoreInv
  <2>4. Gone # Foreign(Original)
    BY <1>1, NewObjects
  <2> QED BY <1>1, <2>1, <2>2, <2>3, <2>4 DEF StoreInv
<1>5. ASSUME NEW v \in Versions, Promise!Place(v)
      PROVE  StoreInv'
  <2>1. /\ v \in held /\ (req.if_source # NoEtag => v = req.if_source)
        /\ UNCHANGED <<req, removed, wrote>> /\ obj' = [obj EXCEPT ![Destination] = Stored(v, TRUE)]
        /\ held' = held \cup Contents(obj'[Source]) /\ placed' = placed \cup {v}
        /\ Source' = Source /\ Destination' = Destination
        /\ vacated' = (obj'[Source] = Gone)
    BY <1>5 DEF Promise!Place, Promise!Track, Promise!Contents, Contents, Promise!Source,
                Promise!Destination, Source, Destination, Stored
  <2>2. Stored(v, TRUE) # Gone /\ Stored(v, TRUE).of = v /\ Stored(v, TRUE).whole = TRUE
    BY NewObjects
  <2>3. \A b \in Addresses : obj'[b] = IF b = Destination THEN Stored(v, TRUE) ELSE obj[b]
    BY <1>1, <2>1
  <2>4. held' = held
    <3>1. CASE Source = Destination
      <4>1. obj'[Source] = Stored(v, TRUE)
        BY <1>1, <2>3, <3>1
      <4>2. Contents(obj'[Source]) = {v}
        BY <2>2, <4>1, ContentsOf
      <4> QED BY <2>1, <4>2
    <3>2. CASE Source # Destination
      BY <1>1, <2>1, <2>3, <3>2, ContentsOf DEF StoreInv
    <3> QED BY <3>1, <3>2
  <2> QED BY <1>1, <2>1, <2>2, <2>3, <2>4 DEF StoreInv
<1>6. CASE Promise!Remove
  <2>1. /\ UNCHANGED <<req, wrote>> /\ obj' = [obj EXCEPT ![Source] = Gone]
        /\ held' = held \cup Contents(obj'[Source]) /\ placed' = placed
        /\ Source' = Source /\ Destination' = Destination
        /\ vacated' = (obj'[Source] = Gone \/ vacated)
    BY <1>6 DEF Promise!Remove, Promise!Track, Promise!Contents, Contents, Promise!Source, Source, Destination
  <2>2. \A b \in Addresses : obj'[b] = IF b = Source THEN Gone ELSE obj[b]
    BY <1>1, <2>1
  <2>3. held' = held
    BY <1>1, <2>1, <2>2, ContentsOf
  <2>4. Gone # Foreign(Original)
    BY <1>1, NewObjects
  <2> QED BY <1>1, <2>1, <2>2, <2>3, <2>4 DEF StoreInv
<1>7. CASE Promise!Move
  <2>0. PICK v : v = obj[Source].of
    OBVIOUS
  <2>1. /\ UNCHANGED <<req, wrote>> /\ obj' = [obj EXCEPT ![Destination] = Stored(v, TRUE), ![Source] = Gone]
        /\ held' = held \cup Contents(obj'[Source]) /\ placed' = placed \cup {v}
        /\ Source' = Source /\ Destination' = Destination /\ Source # Destination
        /\ vacated' = (obj'[Source] = Gone)
        /\ obj[Source] # Gone /\ SourceMatches
    BY <1>7, <2>0 DEF Promise!Move, Promise!Track, Promise!Contents, Contents, Promise!Source, Promise!Destination,
                Promise!SourceMatches, Promise!Matches, Promise!Foreign, SourceMatches, Matches, Foreign,
                Source, Destination, Stored
  <2>2. v \in Versions /\ v \in held /\ (req.if_source # NoEtag => v = req.if_source)
    BY <1>1, <2>0, <2>1 DEF SourceMatches, Matches, Foreign, StoreInv
  <2>3. /\ Stored(v, TRUE) # Gone /\ Stored(v, TRUE).of = v /\ Stored(v, TRUE).whole = TRUE
        /\ Gone # Foreign(Original)
    BY <1>1, <2>2, NewObjects
  <2>4. \A b \in Addresses : obj'[b] = IF b = Source THEN Gone
                                       ELSE IF b = Destination THEN Stored(v, TRUE) ELSE obj[b]
    BY <1>1, <2>1
  <2>5. held' = held
    BY <1>1, <2>1, <2>4, ContentsOf
  <2> QED BY <1>1, <2>1, <2>2, <2>3, <2>4, <2>5 DEF StoreInv
<1>8. ASSUME NEW code \in Codes, Promise!Answer(code) PROVE StoreInv'
  <2>1. UNCHANGED <<req, storage>>
    BY <1>8 DEF Promise!Answer, Promise!storage, storage
  <2> QED BY <1>2, <2>1
<1> QED BY <1>2, <1>3, <1>4, <1>5, <1>6, <1>7, <1>8
        DEF Promise!PromiseNext, Promise!Others, Promise!ForeignWrite, Promise!ForeignDelete,
            Promise!Track, Promise!Contents, Promise!Foreign, Promise!Source, Promise!Codes,
            ForeignWrite, ForeignDelete, Track, Contents, Foreign, Source, Codes

-----------------------------------------------------------------------------
(* The call's own steps.                                                   *)

(* What every step of the call itself does: it leaves the store and the     *)
(* channel alone, and either goes on, with the invariants kept, or returns  *)
(* an answer that is true.                                                  *)
CallGoesOn ==
  /\ UNCHANGED <<req, storage, backend, cancel, chan, sent, found, taken>>
  /\ pc # "done" /\ pc' \in Steps /\ attempt' \in 1 .. Attempts
  /\ \/ bridge' = bridge
     \/ bridge' = "open" /\ pc = "read_to_body" /\ pc' = "write_stream"
  /\ pc \in {"write_stream", "delete"} => pc' \in {pc, "delete", "done"}
  /\ pc' = "done" => reply' \in Codes /\ Promise!Earned(reply')
  /\ pc' # "done" => reply' = "none" /\ ProgressInv' /\ PinInv'

LEMMA CallStep ==
  ASSUME Inv, Call \/ Drain
  PROVE  CallGoesOn
<1>1. /\ req.op \in {"copy", "rename"}
      /\ backend.body \in {"bytes", "stream", "delegate", "redirect"}
      /\ pc \in Steps /\ attempt \in 1 .. Attempts /\ Attempts \in Nat \ {0}
      /\ reply \in Codes \cup {"none"}
      /\ ProgressInv /\ ReplyInv /\ PinInv
  BY Shapes, BridgeAssumption DEF Inv, TypeOK
<1> DEFINE Still == UNCHANGED <<req, storage, backend, cancel, chan, sent, found, taken>>
<1>2. ASSUME Still, pc # "done", bridge' = bridge, UNCHANGED attempt, pc' = "done",
             reply' \in Codes, Promise!Earned(reply')
      PROVE  CallGoesOn
  BY <1>1, <1>2 DEF CallGoesOn, Steps
<1>3. ASSUME Still, pc # "done", pc' \in Steps \ {"done"}, attempt' \in 1 .. Attempts, reply' = "none",
             ProgressInv', PinInv',
             \/ bridge' = bridge
             \/ bridge' = "open" /\ pc = "read_to_body" /\ pc' = "write_stream",
             pc \in {"write_stream", "delete"} => pc' \in {pc, "delete"}
      PROVE  CallGoesOn
  BY <1>3 DEF CallGoesOn
<1> USE DEF Steps, Untouched, Emulating, Local, wire, storage
<1>4. 1 \in 1 .. Attempts
  BY <1>1
<1>z. /\ \A step : Goto(step) => UNCHANGED <<found, taken>>
      /\ \A code : Return(code) => UNCHANGED <<found, taken>>
      /\ \A code : Copied(code) => UNCHANGED <<found, taken>>
  BY DEF Goto, Return, Copied
<1>5. CASE Probe
  <2>1. /\ Still /\ pc = "probe" /\ pc' \in {"copy_probe", "rename", "emulate"} /\ attempt' = 1
        /\ reply' = "none" /\ bridge' = bridge
        /\ pc' = "copy_probe" => req.op = "copy"
        /\ pc' \in {"rename", "emulate"} => req.op # "copy"
    BY <1>5 DEF Probe, Goto
  <2>2. ProgressInv'
    BY <1>1, <2>1 DEF ProgressInv
  <2>3. PinInv'
    BY <2>1 DEF PinInv
  <2> QED BY <1>3, <1>4, <2>1, <2>2, <2>3
<1>6. CASE Emulate
  <2>1. CASE pc' = "done"
    <3>1. /\ Still /\ pc = "emulate" /\ UNCHANGED attempt /\ bridge' = bridge
          /\ reply' \in {"InvalidArgument", "Unsupported"}
      BY <1>6, <2>1 DEF Emulate, Goto, Return
    <3>2. placed = {} /\ removed = {}
      BY <1>1, <3>1 DEF ProgressInv
    <3>3. reply' \in Codes /\ Promise!Earned(reply')
      BY <3>1, <3>2 DEF Promise!Earned, Codes
    <3> QED BY <1>2, <2>1, <3>1, <3>3
  <2>2. CASE pc' # "done"
    <3>1. /\ Still /\ pc = "emulate" /\ pc' = "copy_probe" /\ attempt' = 1 /\ reply' = "none"
          /\ bridge' = bridge /\ Source # Destination
      BY <1>6, <2>2 DEF Emulate, Goto, Return
    <3>2. ProgressInv'
      BY <1>1, <3>1 DEF ProgressInv, Source, Destination
    <3>3. PinInv'
      BY <3>1 DEF PinInv
    <3> QED BY <1>3, <1>4, <3>1, <3>2, <3>3
  <2> QED BY <2>1, <2>2
<1>7. CASE CopyProbe
  <2>1. /\ Still /\ pc = "copy_probe" /\ pc' \in {"copy", "transfer"} /\ attempt' = 1
        /\ reply' = "none" /\ bridge' = bridge
    BY <1>7 DEF CopyProbe, Goto
  <2>2. ProgressInv'
    BY <1>1, <2>1 DEF ProgressInv, Source, Destination
  <2>3. PinInv'
    BY <2>1 DEF PinInv
  <2> QED BY <1>3, <1>4, <2>1, <2>2, <2>3
<1>8. CASE Transfer
  <2>1. CASE pc' = "done"
    <3>1. /\ Still /\ pc = "transfer" /\ UNCHANGED attempt /\ bridge' = bridge
          /\ reply' = "InvalidArgument"
      BY <1>8, <2>1 DEF Transfer, Goto, Return
    <3>2. placed = {} /\ removed = {}
      BY <1>1, <3>1 DEF ProgressInv
    <3>3. reply' \in Codes /\ Promise!Earned(reply')
      BY <3>1, <3>2 DEF Promise!Earned, Codes
    <3> QED BY <1>2, <2>1, <3>1, <3>3
  <2>2. CASE pc' # "done"
    <3>1. /\ Still /\ pc = "transfer" /\ pc' \in {"read_to_body", "read_to_bytes"} /\ attempt' = 1
          /\ reply' = "none" /\ bridge' = bridge
      BY <1>8, <2>2 DEF Transfer, Goto, Return
    <3>2. ProgressInv'
      BY <1>1, <3>1 DEF ProgressInv, Source, Destination
    <3>3. PinInv'
      BY <3>1 DEF PinInv
    <3> QED BY <1>3, <1>4, <3>1, <3>2, <3>3
  <2> QED BY <2>1, <2>2
<1>9. CASE Retry
  <2>1. /\ Still /\ pc \in Replayed /\ pc' = pc /\ attempt' = attempt + 1 /\ attempt < Attempts
        /\ reply' = "none" /\ bridge' = bridge /\ reply \in Retryable
    BY <1>9 DEF Retry, Again
  <2>2. pc # "done" /\ attempt' \in 1 .. Attempts /\ pc # "write_stream"
    BY <1>1, <2>1 DEF Replayed
  <2>3. ProgressInv'
    BY <1>1, <2>1 DEF ProgressInv, Source, Destination
  <2>4. PinInv'
    BY <1>1, <2>1 DEF PinInv, Unwanted
  <2> QED BY <1>1, <1>3, <2>1, <2>2, <2>3, <2>4
<1>10. CASE AfterRename
  <2>1. CASE reply = "Unsupported"
    <3>1. /\ Still /\ pc = "rename" /\ pc' = "emulate" /\ attempt' = 1 /\ reply' = "none"
          /\ bridge' = bridge
      BY <1>10, <2>1 DEF AfterRename, Settled, Goto
    <3>2. backend.rename # "served"
      BY <1>1, <2>1, <3>1 DEF ReplyInv
    <3>3. ProgressInv'
      BY <1>1, <3>1, <3>2 DEF ProgressInv
    <3>4. PinInv'
      BY <3>1 DEF PinInv
    <3> QED BY <1>3, <1>4, <3>1, <3>3, <3>4
  <2>2. CASE reply # "Unsupported"
    <3>1. /\ Still /\ pc = "rename" /\ UNCHANGED attempt /\ bridge' = bridge /\ pc' = "done"
          /\ reply' = reply /\ reply # "none"
      BY <1>10, <2>2 DEF AfterRename, Settled, Return
    <3>2. /\ reply \notin {"InvalidArgument", "CommitAmbiguous", "Redirects"}
          /\ reply = "Ok" => placed # {} /\ (vacated \/ Source = Destination)
      BY <1>1, <3>1 DEF ReplyInv
    <3>3. reply' \in Codes /\ Promise!Earned(reply')
      BY <1>1, <2>2, <3>1, <3>2 DEF Promise!Earned, Promise!CleanCodes, Promise!Source,
            Promise!Destination, Source, Destination
    <3> QED BY <1>2, <3>1, <3>3
  <2> QED BY <2>1, <2>2
<1>11. ASSUME pc \in {"copy", "write", "write_stream"}, reply # "none", Copied(reply), Still, bridge' = bridge,
              reply \notin {"Unsupported", "Redirects"} \/ (placed = {} /\ removed = {} /\ reply # "Ok")
       PROVE  CallGoesOn
  <2>1. CASE req.op = "rename" /\ reply = "Ok"
    <3>1. pc' = "delete" /\ attempt' = 1 /\ reply' = "none"
      BY <1>11, <2>1 DEF Copied, Goto
    <3>2. ProgressInv'
      BY <1>1, <1>11, <2>1, <3>1 DEF ProgressInv, ReplyInv, Source, Destination
    <3>3. PinInv'
      BY <3>1 DEF PinInv
    <3> QED BY <1>3, <1>4, <1>11, <3>1, <3>2, <3>3
  <2>2. CASE ~(req.op = "rename" /\ reply = "Ok")
    <3>1. pc' = "done" /\ UNCHANGED attempt /\ reply' = reply
      BY <1>11, <2>2 DEF Copied, Return
    <3>2. /\ reply \notin {"InvalidArgument", "CommitAmbiguous"}
          /\ reply = "Ok" => placed # {} /\ req.op # "rename"
      BY <1>1, <1>11, <2>2 DEF ReplyInv
    <3>3. reply' \in Codes /\ Promise!Earned(reply')
      BY <1>1, <1>11, <3>1, <3>2 DEF Promise!Earned, Promise!CleanCodes
    <3> QED BY <1>2, <1>11, <3>1, <3>3
  <2> QED BY <2>1, <2>2
<1>12. CASE AfterCopy
  <2>a. \/ reply = "Unsupported" /\ Goto("transfer")
        \/ reply = "Redirects" /\ req.op = "rename" /\ Return("Unsupported")
        \/ Copied(reply)
    <3>1. CASE reply = "Unsupported"
      BY <1>12, <3>1 DEF AfterCopy
    <3>2. CASE reply = "Redirects" /\ req.op = "rename"
      BY <1>12, <3>2 DEF AfterCopy
    <3>3. CASE reply # "Unsupported" /\ ~(reply = "Redirects" /\ req.op = "rename")
      BY <1>12, <3>3 DEF AfterCopy
    <3> QED BY <3>1, <3>2, <3>3
  <2>b. Local /\ pc = "copy" /\ reply # "none"
    BY <1>12 DEF AfterCopy, Settled
  <2>1. Still /\ pc = "copy" /\ reply # "none" /\ bridge' = bridge
    BY <1>z, <2>a, <2>b
  <2>2. reply \in {"Unsupported", "Redirects"} => backend.copy # "served" /\ placed = {} /\ removed = {}
    BY <1>1, <2>1 DEF ReplyInv, ProgressInv
  <2>3. CASE reply = "Unsupported"
    <3>1. pc' = "transfer" /\ attempt' = 1 /\ reply' = "none"
      BY <1>12, <2>3 DEF AfterCopy, Goto
    <3>2. ProgressInv'
      BY <1>1, <2>1, <2>2, <2>3, <3>1 DEF ProgressInv, Source, Destination
    <3>3. PinInv'
      BY <3>1 DEF PinInv
    <3> QED BY <1>3, <1>4, <2>1, <3>1, <3>2, <3>3
  <2>4. CASE reply = "Redirects" /\ req.op = "rename"
    <3>1. pc' = "done" /\ UNCHANGED attempt /\ reply' = "Unsupported"
      BY <1>12, <2>4 DEF AfterCopy, Return
    <3>2. reply' \in Codes /\ Promise!Earned(reply')
      BY <2>2, <2>4, <3>1 DEF Promise!Earned, Codes
    <3> QED BY <1>2, <2>1, <3>1, <3>2
  <2>5. CASE reply # "Unsupported" /\ ~(reply = "Redirects" /\ req.op = "rename")
    <3>1. Copied(reply)
      BY <1>12, <2>5 DEF AfterCopy
    <3> QED BY <1>11, <2>1, <2>2, <3>1
  <2> QED BY <2>3, <2>4, <2>5
<1>13. CASE AfterWrite
  <2>1. Still /\ pc \in {"write", "write_stream"} /\ reply # "none" /\ bridge' = bridge /\ Copied(reply)
    BY <1>z, <1>13 DEF AfterWrite, Settled
  <2>2. reply # "Redirects" /\ (reply = "Unsupported" => placed = {} /\ removed = {})
    BY <1>1, <2>1 DEF ReplyInv, ProgressInv
  <2> QED BY <1>11, <2>1, <2>2
(* A read that failed, or whose body cannot be used, has touched nothing.   *)
<1>14. ASSUME pc \in {"read_to_bytes", "drain", "read_to_body"}, Still, bridge' = bridge,
              NEW code \in Codes \ {"Ok", "CommitAmbiguous"}, Return(code)
       PROVE  CallGoesOn
  <2>1. pc' = "done" /\ UNCHANGED attempt /\ reply' = code
    BY <1>14 DEF Return
  <2>2. placed = {} /\ removed = {}
    BY <1>1, <1>14 DEF ProgressInv
  <2>3. Promise!Earned(code)
    BY <1>14, <2>2 DEF Promise!Earned
  <2> QED BY <1>2, <1>14, <2>1, <2>3
<1>15. ASSUME (pc \in {"read_to_bytes", "read_to_body"} /\ reply = "Ok") \/ pc = "drain",
              Still, pc' \in {"drain", "write", "write_stream"}, attempt' = 1, reply' = "none",
              \/ bridge' = bridge
              \/ bridge' = "open" /\ pc = "read_to_body" /\ pc' = "write_stream",
              pc' = "write" => backend.body # "stream" \/ ~Unwanted
       PROVE  CallGoesOn
  <2>1. ProgressInv'
    BY <1>1, <1>15 DEF ProgressInv, Source, Destination
  <2>2. PinInv'
    BY <1>1, <1>15 DEF PinInv, Unwanted
  <2>3. pc' \in Steps \ {"done"} /\ pc \notin {"done", "write_stream", "delete"}
    BY <1>1, <1>15
  <2> QED BY <1>3, <1>4, <1>15, <2>1, <2>2, <2>3
<1>16. ASSUME reply \in Codes \ {"Ok", "CommitAmbiguous"}
       PROVE  PreWrite(reply, FALSE) \in Codes \ {"Ok", "CommitAmbiguous"}
  BY <1>16 DEF PreWrite, Codes
<1>17. CASE AfterReadToBytes
  <2>3. \/ reply # "Ok" /\ Return(PreWrite(reply, FALSE))
        \/ \E code \in {"Unsupported", "ResourceExhausted", "Internal"} : Return(code)
        \/ reply = "Ok" /\ Goto("drain")
        \/ reply = "Ok" /\ backend.body # "stream" /\ Goto("write")
    <3>1. CASE reply # "Ok"
      BY <1>17, <3>1 DEF AfterReadToBytes
    <3>2. CASE reply = "Ok" /\ backend.body = "redirect"
      <4>1. Return("Unsupported")
        BY <1>17, <3>2 DEF AfterReadToBytes
      <4> QED BY <4>1
    <3>3. CASE reply = "Ok" /\ backend.body # "redirect" /\ backend.big
      <4>1. Return("ResourceExhausted") \/ Goto("drain")
        BY <1>17, <3>3 DEF AfterReadToBytes
      <4> QED BY <3>3, <4>1
    <3>4. CASE reply = "Ok" /\ backend.body = "stream" /\ ~backend.big
      BY <1>17, <3>4 DEF AfterReadToBytes
    <3>5. CASE reply = "Ok" /\ backend.body = "bytes" /\ ~backend.big
      BY <1>17, <3>5 DEF AfterReadToBytes
    <3>6. CASE reply = "Ok" /\ backend.body = "delegate" /\ ~backend.big
      <4>1. Goto("write") \/ Return("Internal")
        BY <1>17, <3>6 DEF AfterReadToBytes
      <4> QED BY <3>6, <4>1
    <3> QED BY <1>1, <3>1, <3>2, <3>3, <3>4, <3>5, <3>6
  <2>b. Local /\ pc = "read_to_bytes" /\ reply # "none"
    BY <1>17 DEF AfterReadToBytes, Settled
  <2>1. Still /\ pc = "read_to_bytes" /\ reply # "none" /\ bridge' = bridge
    BY <1>z, <2>3, <2>b
  <2>2. reply # "CommitAmbiguous"
    BY <1>1, <2>1 DEF ReplyInv
  <2>4. CASE reply # "Ok" /\ Return(PreWrite(reply, FALSE))
    BY <1>1, <1>14, <1>16, <2>1, <2>2, <2>4
  <2>5. CASE \E code \in {"Unsupported", "ResourceExhausted", "Internal"} : Return(code)
    BY <1>14, <2>1, <2>5 DEF Codes
  <2>6. CASE reply = "Ok" /\ Goto("drain")
    BY <1>15, <2>1, <2>6 DEF Goto
  <2>7. CASE reply = "Ok" /\ backend.body # "stream" /\ Goto("write")
    BY <1>15, <2>1, <2>7 DEF Goto
  <2> QED BY <2>3, <2>4, <2>5, <2>6, <2>7
<1>18. CASE Drain
  <2>2. \/ ~Unwanted /\ Goto("write")
        \/ \E code \in Codes \ {"Ok", "CommitAmbiguous"} : Return(code)
    BY <1>18 DEF Drain, PreWrite, Codes
  <2>b. Local /\ pc = "drain"
    BY <1>18 DEF Drain
  <2>1. Still /\ pc = "drain" /\ bridge' = bridge
    BY <1>z, <2>2, <2>b
  <2>3. CASE ~Unwanted /\ Goto("write")
    BY <1>15, <2>1, <2>3 DEF Goto
  <2>4. CASE \E code \in Codes \ {"Ok", "CommitAmbiguous"} : Return(code)
    BY <1>14, <2>1, <2>4
  <2> QED BY <2>2, <2>3, <2>4
<1>19. CASE AfterReadToBody
  <2>a. \/ reply # "Ok" /\ Return(PreWrite(reply, FALSE))
        \/ reply = "Ok" /\ backend.body = "redirect" /\ Return("Unsupported")
        \/ reply = "Ok" /\ backend.body # "redirect" /\ Goto("write_stream")
    <3>1. CASE reply # "Ok"
      BY <1>19, <3>1 DEF AfterReadToBody
    <3>2. CASE reply = "Ok" /\ backend.body = "redirect"
      BY <1>19, <3>2 DEF AfterReadToBody
    <3>3. CASE reply = "Ok" /\ backend.body # "redirect"
      BY <1>19, <3>3 DEF AfterReadToBody
    <3> QED BY <3>1, <3>2, <3>3
  <2>b. /\ pc = "read_to_body" /\ reply # "none" /\ UNCHANGED <<req, storage, backend, chan, sent, cancel>>
        /\ bridge' = IF reply = "Ok" /\ backend.body = "stream" THEN "open" ELSE bridge
    BY <1>19 DEF AfterReadToBody, Settled
  <2>1. Still /\ pc = "read_to_body" /\ reply # "none"
    BY <1>z, <2>a, <2>b
  <2>2. reply # "CommitAmbiguous"
    BY <1>1, <2>1 DEF ReplyInv
  <2>3. CASE reply # "Ok"
    <3>1. Return(PreWrite(reply, FALSE)) /\ bridge' = bridge
      BY <2>a, <2>b, <2>3
    <3> QED BY <1>1, <1>14, <1>16, <2>1, <2>2, <2>3, <3>1
  <2>4. CASE reply = "Ok" /\ backend.body = "redirect"
    <3>1. Return("Unsupported") /\ bridge' = bridge
      BY <2>a, <2>b, <2>4
    <3> QED BY <1>14, <2>1, <3>1 DEF Codes
  <2>5. CASE reply = "Ok" /\ backend.body # "redirect"
    <3>1. Goto("write_stream") /\ bridge' \in {bridge, "open"}
      BY <2>a, <2>b, <2>5
    <3> QED BY <1>15, <2>1, <2>5, <3>1 DEF Goto
  <2> QED BY <2>3, <2>4, <2>5
<1>20. CASE AfterDelete
  <2>1. /\ Still /\ pc = "delete" /\ bridge' = bridge /\ pc' = "done" /\ UNCHANGED attempt
        /\ reply' = IF reply \in {"Ok", "NotFound"} THEN "Ok" ELSE "CommitAmbiguous"
    BY <1>20 DEF AfterDelete, Settled, Return
  <2>2. req.op = "rename" /\ placed # {} /\ (reply \in {"Ok", "NotFound"} => vacated)
    BY <1>1, <2>1 DEF ProgressInv, ReplyInv
  <2>3. reply' \in Codes /\ Promise!Earned(reply')
    BY <2>1, <2>2 DEF Promise!Earned, Promise!CleanCodes, Codes
  <2> QED BY <1>2, <2>1, <2>3
<1> QED BY <1>5, <1>6, <1>7, <1>8, <1>9, <1>10, <1>12, <1>13, <1>17, <1>18, <1>19, <1>20 DEF Call

-----------------------------------------------------------------------------
(* The backend.                                                            *)

(* What every answer of the backend does: a step of the promise or nothing  *)
(* to the store, and a reply that says no more than what was done.          *)
BackendGoesOn ==
  /\ UNCHANGED <<req, backend, cancel, pc, attempt, taken>>
  /\ pc # "done" /\ reply' \in Codes
  /\ found' = found \/ (pc \in {"read_to_bytes", "read_to_body"} /\ found' \in Versions)
  /\ Promise!PromiseNext \/ UNCHANGED <<req, storage>>
  /\ ProgressInv' /\ ReplyInv' /\ PinInv'

(* A failure that leaves the store alone.                                   *)
LEMMA FailStep ==
  ASSUME Inv, pc \in Steps \ {"done"}, reply = "none", NEW codes, Fails(codes),
         codes \subseteq Codes \ {"Ok", "InvalidArgument", "CommitAmbiguous"},
         "Redirects" \in codes => pc = "copy" /\ backend.copy = "redirects",
         "Unsupported" \in codes => \/ pc = "rename" /\ backend.rename # "served"
                                    \/ pc = "copy" /\ backend.copy # "served"
                                    \/ pc = "write_stream" /\ backend.sink # "stream"
                                    \/ pc = "delete",
         "NotFound" \in codes /\ pc = "delete" => obj[Source] = Gone
  PROVE  BackendGoesOn
<1>1. /\ UNCHANGED <<req, backend, cancel, pc, attempt, wrote, obj, held, placed, removed, vacated, found, taken>>
      /\ reply' \in codes /\ reply' # "none"
  BY DEF Fails, Outside, Codes
<1>2. ProgressInv'
  BY <1>1 DEF Inv, ProgressInv, Source, Destination
<1>3. pc = "delete" /\ reply' = "NotFound" => vacated
  BY <1>1 DEF Inv, ProgressInv, StoreInv
<1>4. ReplyInv'
  BY <1>1, <1>3 DEF ReplyInv, Source, Destination
<1>5. PinInv'
  BY <1>1 DEF Inv, PinInv, Unwanted
<1> QED BY <1>1, <1>2, <1>4, <1>5 DEF BackendGoesOn, storage

(* What the source and the destination object to is a failure of that kind. *)
LEMMA Objections ==
  ASSUME Inv, NEW code
  PROVE  /\ Faults \subseteq {"Transient", "Refused", "Cancelled"}
         /\ DestinationObjections \subseteq {"Refused", "PreconditionFailed"}
         /\ SourceObjections(code) \subseteq {"NotFound", code}
         /\ "NotFound" \in SourceObjections(code) /\ code # "NotFound" => obj[Source] = Gone
         /\ DestinationObjections = {} => DestinationAllows
         /\ SourceObjections(code) = {} => obj[Source] # Gone /\ SourceMatches
<1>1. Faults \subseteq {"Transient", "Refused", "Cancelled"}
  BY DEF Faults
<1>2. /\ DestinationObjections \subseteq {"Refused", "PreconditionFailed"}
      /\ DestinationObjections = {} => DestinationAllows
  BY DEF DestinationObjections
<1>3. CASE obj[Source] = Gone
  <2>1. SourceObjections(code) = {"NotFound"}
    BY <1>3 DEF SourceObjections
  <2> QED BY <1>1, <1>2, <1>3, <2>1
<1>4. CASE obj[Source] # Gone /\ ~SourceMatches
  <2>1. SourceObjections(code) = {code}
    BY <1>4 DEF SourceObjections
  <2> QED BY <1>1, <1>2, <1>4, <2>1
<1>5. CASE obj[Source] # Gone /\ SourceMatches
  <2>1. SourceObjections(code) = {}
    BY <1>5 DEF SourceObjections
  <2> QED BY <1>1, <1>2, <1>5, <2>1
<1> QED BY <1>3, <1>4, <1>5

(* A source that matches is one of its contents, and the one that the       *)
(* caller named.                                                            *)
LEMMA MatchedSource ==
  ASSUME Inv, obj[Source] # Gone, SourceMatches
  PROVE  /\ obj[Source].of \in Versions /\ obj[Source].of \in held
         /\ req.if_source # NoEtag => obj[Source].of = req.if_source
<1>1. obj[Source].of \in Versions
  BY Shapes DEF Inv
<1>2. obj[Source].of \in held
  BY DEF Inv, StoreInv
<1>3. req.if_source # NoEtag => obj[Source].of = req.if_source
  BY DEF SourceMatches, Matches, Foreign
<1> QED BY <1>1, <1>2, <1>3

(* A whole content of the source lands at the destination.                  *)
LEMMA PlaceStep ==
  ASSUME Inv, pc \in {"rename", "copy", "write", "write_stream"}, NEW v \in Versions,
         v \in held, req.if_source # NoEtag => v = req.if_source, DestinationAllows,
         pc = "rename" => backend.rename = "served" /\ Source = Destination,
         pc = "copy" => backend.copy = "served",
         pc = "write_stream" => backend.sink = "stream",
         Lands([obj EXCEPT ![Destination] = Stored(v, TRUE)], {v}, {})
  PROVE  BackendGoesOn
<1>1. /\ UNCHANGED <<req, backend, cancel, pc, attempt, wrote, found, taken>>
      /\ obj' = [obj EXCEPT ![Destination] = Stored(v, TRUE)]
      /\ Track({v}) /\ placed' = placed \cup {v} /\ removed' = removed
      /\ held' = held \cup Contents(obj'[Source])
      /\ reply' \in {"Ok", "Transient"}
  BY DEF Lands, Outside, Track
<1>2. Promise!Place(v)
  BY <1>1 DEF Promise!Place, Promise!Track, Promise!Contents, Track, Contents, Promise!Source,
       Promise!Destination, Source, Destination, Stored, Promise!DestinationAllows, DestinationAllows,
       Promise!Matches, Matches, Promise!Foreign, Foreign
<1>3. ProgressInv'
  BY <1>1 DEF Inv, ProgressInv, Source, Destination, Untouched, Emulating
<1>4. ReplyInv'
  BY <1>1 DEF Inv, ReplyInv, Source, Destination
<1>5. PinInv'
  BY <1>1 DEF Inv, PinInv, Unwanted
<1> QED BY <1>1, <1>2, <1>3, <1>4, <1>5 DEF BackendGoesOn, Promise!PromiseNext, Codes

LEMMA RenameStep ==
  ASSUME Inv, BackendRename
  PROVE  BackendGoesOn
<1> DEFINE objections == SourceObjections("PreconditionFailed") \cup DestinationObjections
           v == obj[Source].of
<1>1. pc = "rename" /\ reply = "none" /\ pc \in Steps \ {"done"}
  BY DEF BackendRename, Serving, Steps
<1>2. CASE backend.rename # "served"
  <2>1. Fails({"Unsupported"} \cup Faults)
    BY <1>2 DEF BackendRename
  <2>2. {"Unsupported"} \cup Faults \subseteq {"Unsupported", "Transient", "Refused", "Cancelled"}
    BY Objections
  <2> QED BY <1>1, <1>2, <2>1, <2>2, FailStep DEF Codes
<1>3. CASE backend.rename = "served" /\ Fails(objections \cup Faults)
  <2>1. objections \cup Faults \subseteq {"Transient", "Refused", "Cancelled", "NotFound", "PreconditionFailed"}
    BY Objections
  <2> QED BY <1>1, <1>3, <2>1, FailStep DEF Codes
<1>4. CASE /\ backend.rename = "served" /\ objections = {} /\ Source = Destination
           /\ Lands([obj EXCEPT ![Source] = Stored(v, TRUE)], {v}, {})
  <2>1. obj[Source] # Gone /\ SourceMatches /\ DestinationAllows
    BY <1>4, Objections
  <2> QED BY <1>1, <1>4, <2>1, MatchedSource, PlaceStep
<1>5. CASE /\ backend.rename = "served" /\ objections = {} /\ Source # Destination
           /\ Lands([obj EXCEPT ![Destination] = Stored(v, TRUE), ![Source] = Gone], {v}, {v})
  <2>1. obj[Source] # Gone /\ SourceMatches /\ DestinationAllows
    BY <1>5, Objections
  <2>2. /\ UNCHANGED <<req, backend, cancel, pc, attempt, wrote, found, taken>>
        /\ obj' = [obj EXCEPT ![Destination] = Stored(v, TRUE), ![Source] = Gone]
        /\ Track({v}) /\ placed' = placed \cup {v} /\ removed' = removed \cup {v}
        /\ vacated' = (obj'[Source] = Gone)
        /\ reply' \in {"Ok", "Transient"}
    BY <1>5 DEF Lands, Outside, Track
  <2>3. req.op = "rename"
    BY <1>1 DEF Inv, ProgressInv
  <2>4. Promise!Move
    BY <1>1, <1>5, <2>1, <2>2, <2>3
    DEF Promise!Move, Promise!Track, Promise!Contents, Track, Contents, Promise!Source,
       Promise!Destination, Source, Destination, Stored, Promise!DestinationAllows, DestinationAllows,
       Promise!Matches, Matches, Promise!Foreign, Foreign, Promise!SourceMatches, SourceMatches
  <2>5. obj'[Source] = Gone
    BY <1>5, <2>2, Shapes DEF Inv, TypeOK
  <2>6. ProgressInv'
    BY <1>1, <1>5, <2>2 DEF Inv, ProgressInv, Source, Destination, Untouched, Emulating
  <2>7. ReplyInv'
    BY <1>1, <2>2, <2>5 DEF ReplyInv
  <2>8. PinInv'
    BY <1>1, <2>2 DEF PinInv
  <2> QED BY <1>1, <2>2, <2>4, <2>6, <2>7, <2>8 DEF BackendGoesOn, Promise!PromiseNext, Codes
<1> QED BY <1>2, <1>3, <1>4, <1>5 DEF BackendRename

LEMMA CopyStep ==
  ASSUME Inv, BackendCopy
  PROVE  BackendGoesOn
<1> DEFINE objections == SourceObjections("PreconditionFailed") \cup DestinationObjections
           v == obj[Source].of
<1>1. pc = "copy" /\ reply = "none" /\ pc \in Steps \ {"done"}
  BY DEF BackendCopy, Serving, Steps
<1>2. CASE backend.copy \notin {"served", "redirects"}
  <2>1. Fails({"Unsupported"} \cup Faults)
    BY <1>2 DEF BackendCopy
  <2>2. {"Unsupported"} \cup Faults \subseteq {"Unsupported", "Transient", "Refused", "Cancelled"}
    BY Objections
  <2> QED BY <1>1, <1>2, <2>1, <2>2, FailStep DEF Codes
<1>3. CASE Fails(objections \cup Faults)
  <2>1. objections \cup Faults \subseteq {"Transient", "Refused", "Cancelled", "NotFound", "PreconditionFailed"}
    BY Objections
  <2> QED BY <1>1, <1>3, <2>1, FailStep DEF Codes
<1>4. CASE backend.copy = "redirects" /\ Fails({"Redirects"})
  BY <1>1, <1>4, FailStep DEF Codes
<1>5. CASE /\ backend.copy = "served" /\ objections = {}
           /\ Lands([obj EXCEPT ![Destination] = Stored(v, TRUE)], {v}, {})
  <2>1. obj[Source] # Gone /\ SourceMatches /\ DestinationAllows
    BY <1>5, Objections
  <2> QED BY <1>1, <1>5, <2>1, MatchedSource, PlaceStep
<1> QED BY <1>2, <1>3, <1>4, <1>5 DEF BackendCopy

LEMMA ReadStep ==
  ASSUME Inv, BackendRead
  PROVE  BackendGoesOn
<1>1. pc \in {"read_to_bytes", "read_to_body"} /\ reply = "none" /\ pc \in Steps \ {"done"}
  BY DEF BackendRead, Steps
<1>2. CASE Fails(SourceObjections("ObjectModified") \cup Faults)
  <2>1. SourceObjections("ObjectModified") \cup Faults
          \subseteq {"Transient", "Refused", "Cancelled", "NotFound", "ObjectModified"}
    BY Objections
  <2> QED BY <1>1, <1>2, <2>1, FailStep DEF Codes
<1>3. CASE /\ obj[Source] # Gone
           /\ SourceMatches \/ backend.body = "stream"
           /\ found' = obj[Source].of /\ reply' = "Ok" /\ Outside
           /\ UNCHANGED <<obj, held, placed, removed, vacated, taken>>
  <2>1. UNCHANGED <<req, storage, backend, cancel, pc, attempt, taken>>
    BY <1>3 DEF Outside, storage
  <2>2. found' \in Versions /\ found' \in held
    BY <1>3, Shapes DEF Inv, StoreInv
  <2>3. backend.body # "stream" => ~Unwanted'
    BY <1>3, <2>1, MatchedSource DEF Unwanted
  <2>4. ProgressInv'
    BY <2>1 DEF Inv, ProgressInv, Source, Destination, storage
  <2>5. ReplyInv'
    BY <1>1, <1>3, <2>1 DEF ReplyInv
  <2>6. PinInv'
    BY <1>1, <2>1, <2>2, <2>3 DEF PinInv, storage
  <2> QED BY <1>1, <1>3, <2>1, <2>2, <2>4, <2>5, <2>6 DEF BackendGoesOn, Codes
<1> QED BY <1>2, <1>3 DEF BackendRead

LEMMA WriteStep ==
  ASSUME Inv, BackendWrite
  PROVE  BackendGoesOn
<1>1. pc = "write" /\ reply = "none" /\ pc \in Steps \ {"done"}
  BY DEF BackendWrite, Serving, Steps
<1>2. CASE Fails(DestinationObjections \cup Faults)
  <2>1. DestinationObjections \cup Faults \subseteq {"Transient", "Refused", "Cancelled", "PreconditionFailed"}
    BY Objections
  <2> QED BY <1>1, <1>2, <2>1, FailStep DEF Codes
<1>3. CASE /\ DestinationAllows
           /\ Lands([obj EXCEPT ![Destination] = Stored(found, TRUE)], {found}, {})
  <2>1. found \in held /\ found \in Versions /\ (req.if_source # NoEtag => found = req.if_source)
    BY <1>1 DEF Inv, PinInv, Unwanted, TypeOK
  <2> QED BY <1>1, <1>3, <2>1, PlaceStep
<1> QED BY <1>2, <1>3 DEF BackendWrite

(* The delete finds what was placed or what other clients wrote later: only *)
(* they can have changed a source that is not the destination.              *)
LEMMA DeleteStep ==
  ASSUME Inv, BackendDelete
  PROVE  BackendGoesOn
<1>1. pc = "delete" /\ reply = "none" /\ pc \in Steps \ {"done"}
  BY DEF BackendDelete, Serving, Steps
<1>2. CASE Fails({"Unsupported"} \cup Faults)
  <2>1. {"Unsupported"} \cup Faults \subseteq {"Unsupported", "Transient", "Refused", "Cancelled"}
    BY Objections
  <2> QED BY <1>1, <1>2, <2>1, FailStep DEF Codes
<1>3. CASE Fails(SourceObjections("PreconditionFailed") \cup Faults)
  <2>1. /\ SourceObjections("PreconditionFailed") \cup Faults
             \subseteq {"Transient", "Refused", "Cancelled", "NotFound", "PreconditionFailed"}
        /\ "NotFound" \in SourceObjections("PreconditionFailed") \cup Faults => obj[Source] = Gone
    BY Objections
  <2> QED BY <1>1, <1>3, <2>1, FailStep DEF Codes
<1>4. CASE /\ obj[Source] # Gone /\ SourceMatches
           /\ Lands([obj EXCEPT ![Source] = Gone], {}, {obj[Source].of})
  <2>1. /\ UNCHANGED <<req, backend, cancel, pc, attempt, wrote, found, taken>>
        /\ obj' = [obj EXCEPT ![Source] = Gone]
        /\ Track({}) /\ placed' = placed /\ removed' = removed \cup {obj[Source].of}
        /\ vacated' = (obj'[Source] = Gone \/ vacated)
        /\ reply' \in {"Ok", "Transient"}
    BY <1>4 DEF Lands, Outside, Track
  <2>2. req.op = "rename" /\ Source # Destination /\ placed # {}
    BY <1>1 DEF Inv, ProgressInv, Emulating
  <2>3. obj[Source].of \in placed \cup (IF req.if_source = NoEtag THEN wrote ELSE {})
    <3>1. CASE req.if_source = NoEtag
      <4>1. obj[Source] = Foreign(obj[Source].of) /\ obj[Source].of \in wrote \cup {Original}
        BY <1>4, <2>2 DEF Inv, StoreInv
      <4>2. CASE obj[Source].of = Original
        <5>1. obj[Source] = Foreign(Original)
          BY <4>1, <4>2
        <5>2. held = {Original} /\ placed \subseteq held
          BY <2>2, <5>1 DEF Inv, StoreInv
        <5> QED BY <2>2, <4>2, <5>2
      <4> QED BY <3>1, <4>1, <4>2
    <3>2. CASE req.if_source # NoEtag
      <4>1. obj[Source].of = req.if_source
        BY <1>4, <3>2, MatchedSource
      <4>2. placed \subseteq {req.if_source}
        BY <3>2 DEF Inv, StoreInv
      <4> QED BY <2>2, <4>1, <4>2
    <3> QED BY <3>1, <3>2
  <2>4. Promise!Remove
    BY <1>1, <1>4, <2>1, <2>2, <2>3
    DEF Promise!Remove, Promise!Track, Promise!Contents, Track, Contents, Promise!Source,
       Promise!Destination, Source, Destination,
       Promise!Matches, Matches, Promise!Foreign, Foreign, Promise!SourceMatches, SourceMatches
  <2>5. obj'[Source] = Gone
    BY <2>1, Shapes DEF Inv, TypeOK
  <2>6. ProgressInv'
    BY <1>1, <2>1 DEF Inv, ProgressInv, Source, Destination, Untouched, Emulating
  <2>7. ReplyInv'
    BY <1>1, <2>1, <2>5 DEF ReplyInv
  <2>8. PinInv'
    BY <1>1, <2>1 DEF PinInv
  <2> QED BY <1>1, <2>1, <2>4, <2>6, <2>7, <2>8 DEF BackendGoesOn, Promise!PromiseNext, Codes
<1> QED BY <1>2, <1>3, <1>4 DEF BackendDelete

(* A streamed body that ended after all of the source's chunks.             *)
LEMMA CommitStep ==
  ASSUME Inv, Serving("write_stream"), backend.sink = "stream", ~Unwanted, CommitStream(Chunks)
  PROVE  BackendGoesOn
<1>1. pc = "write_stream" /\ reply = "none" /\ pc \in Steps \ {"done"}
  BY DEF Serving, Steps
<1>2. CASE Fails(DestinationObjections \cup Faults)
  <2>1. DestinationObjections \cup Faults \subseteq {"Transient", "Refused", "Cancelled", "PreconditionFailed"}
    BY Objections
  <2> QED BY <1>1, <1>2, <2>1, FailStep DEF Codes
<1>3. CASE /\ DestinationAllows
           /\ Lands([obj EXCEPT ![Destination] = Stored(found, Chunks = Chunks)], {found}, {})
  <2>1. found \in held /\ found \in Versions /\ (req.if_source # NoEtag => found = req.if_source)
    BY <1>1 DEF Inv, PinInv, Unwanted, TypeOK
  <2>2. Stored(found, Chunks = Chunks) = Stored(found, TRUE)
    BY DEF Stored
  <2> QED BY <1>1, <1>3, <2>1, <2>2, PlaceStep
<1> QED BY <1>2, <1>3 DEF CommitStream

(* A streamed write that is declined, given up or fed from memory.          *)
LEMMA StreamStep ==
  ASSUME Inv, BackendDeclinesStream \/ BackendRejectsStream \/ BackendTakesBody
  PROVE  BackendGoesOn
<1>1. pc = "write_stream" /\ reply = "none" /\ pc \in Steps \ {"done"} /\ Serving("write_stream")
  BY DEF BackendDeclinesStream, BackendRejectsStream, BackendTakesBody, Serving, Steps
<1>2. CASE BackendDeclinesStream
  <2>1. Fails({"Unsupported"} \cup Faults) /\ backend.sink # "stream"
    BY <1>2 DEF BackendDeclinesStream
  <2>2. {"Unsupported"} \cup Faults \subseteq {"Unsupported", "Transient", "Refused", "Cancelled"}
    BY Objections
  <2> QED BY <1>1, <2>1, <2>2, FailStep DEF Codes
<1>3. CASE BackendRejectsStream
  <2>1. Fails(DestinationObjections \cup Faults)
    BY <1>3 DEF BackendRejectsStream
  <2>2. DestinationObjections \cup Faults \subseteq {"Transient", "Refused", "Cancelled", "PreconditionFailed"}
    BY Objections
  <2> QED BY <1>1, <2>1, <2>2, FailStep DEF Codes
<1>4. CASE BackendTakesBody
  <2>1. CASE Fails({"Internal"})
    BY <1>1, <2>1, FailStep DEF Codes
  <2>2. CASE CommitStream(Chunks)
    <3>1. backend.sink = "stream" /\ ~Unwanted
      BY <1>1, <1>4 DEF BackendTakesBody, Inv, PinInv
    <3> QED BY <1>1, <2>2, <3>1, CommitStep
  <2> QED BY <1>4, <2>1, <2>2 DEF BackendTakesBody
<1> QED BY <1>2, <1>3, <1>4
-----------------------------------------------------------------------------
(* The bridge.                                                             *)

Items == {"Chunk", "End", "ObjectModified", "Transient", "Cancelled"}

(* A queue of items: what is taken from its head and put at its end.        *)
LEMMA Queues ==
  ASSUME NEW q \in Seq(Items)
  PROVE  /\ Len(q) \in Nat /\ (q # <<>> <=> Len(q) > 0)
         /\ \A n \in 1 .. Len(q) : q[n] \in Items
         /\ q # <<>> => /\ Head(q) = q[1] /\ Head(q) \in Items
                        /\ Tail(q) \in Seq(Items) /\ Len(Tail(q)) = Len(q) - 1
                        /\ \A n \in 1 .. Len(q) - 1 : Tail(q)[n] = q[n + 1]
         /\ \A x \in Items : /\ Append(q, x) \in Seq(Items) /\ Len(Append(q, x)) = Len(q) + 1
                             /\ Append(q, x) # <<>>
                             /\ Append(q, x)[Len(q) + 1] = x
                             /\ \A n \in 1 .. Len(q) : Append(q, x)[n] = q[n]
<1>1. Len(q) \in Nat /\ (q # <<>> <=> Len(q) > 0) /\ \A n \in 1 .. Len(q) : q[n] \in Items
  OBVIOUS
<1>2. q # <<>> => /\ Head(q) = q[1] /\ Head(q) \in Items
                  /\ Tail(q) \in Seq(Items) /\ Len(Tail(q)) = Len(q) - 1
                  /\ \A n \in 1 .. Len(q) - 1 : Tail(q)[n] = q[n + 1]
  <2> HAVE q # <<>>
  <2>1. Head(q) = q[1]
    OBVIOUS
  <2>2. Head(q) \in Items
    BY <1>1, <2>1
  <2>3. Tail(q) \in Seq(Items) /\ Len(Tail(q)) = Len(q) - 1
    BY HeadTailProperties
  <2>4. \A n \in 1 .. Len(q) - 1 : Tail(q)[n] = q[n + 1]
    BY HeadTailProperties
  <2> QED BY <2>1, <2>2, <2>3, <2>4
<1>3. ASSUME NEW x \in Items
      PROVE  /\ Append(q, x) \in Seq(Items) /\ Len(Append(q, x)) = Len(q) + 1
             /\ Append(q, x) # <<>>
             /\ Append(q, x)[Len(q) + 1] = x
             /\ \A n \in 1 .. Len(q) : Append(q, x)[n] = q[n]
  <2>1. Append(q, x) \in Seq(Items) /\ Len(Append(q, x)) = Len(q) + 1
    BY AppendProperties
  <2>2. Append(q, x)[Len(q) + 1] = x
    BY AppendProperties
  <2>3. \A n \in 1 .. Len(q) : Append(q, x)[n] = q[n]
    BY AppendProperties
  <2>4. Append(q, x) # <<>>
    BY <1>1, <2>1, EmptySeq
  <2> QED BY <2>1, <2>2, <2>3, <2>4
<1> QED BY <1>1, <1>2, <1>3

(* What the invariant says of the numbers.                                  *)
LEMMA WireShapes ==
  ASSUME Inv
  PROVE  /\ chan \in Seq(Items) /\ Len(chan) \in Nat /\ Len(chan) <= Capacity
         /\ sent \in Nat /\ sent <= Chunks /\ taken \in Nat /\ taken <= sent
         /\ Chunks \in Nat /\ Capacity \in Nat /\ Capacity > 0
         /\ bridge \in {"none", "open", "ended"}
  BY BridgeAssumption, Queues DEF Inv, TypeOK, Items

(* The end of the channel is reached when something else than a chunk is at *)
(* its head: it is alone, and all that was sent has been pulled.            *)
LEMMA LastItem ==
  ASSUME Inv, chan # <<>>, Head(chan) # "Chunk"
  PROVE  Len(chan) = 1 /\ Tail(chan) = <<>> /\ taken = sent /\ (Head(chan) = "End" => sent = Chunks /\ ~Unwanted)
<1>1. /\ chan \in Seq(Items) /\ Len(chan) \in Nat /\ Len(chan) > 0 /\ Head(chan) = chan[1]
      /\ sent \in Nat /\ taken \in Nat
      /\ Tail(chan) \in Seq(Items) /\ Len(Tail(chan)) = Len(chan) - 1
  BY WireShapes, Queues
<1>2. Len(chan) = 1
  <2>1. ~(1 < Len(chan))
    BY <1>1 DEF Inv, WireInv
  <2> QED BY <1>1, <2>1
<1>3. Closing
  BY <1>1, <1>2 DEF Closing
<1>4. taken + 1 = sent + 1
  BY <1>2, <1>3 DEF Inv, WireInv
<1>5. Head(chan) = "End" => sent = Chunks /\ ~Unwanted
  BY <1>1, <1>2 DEF Inv, WireInv
<1>6. Tail(chan) = <<>>
  BY <1>1, <1>2, Queues
<1> QED BY <1>1, <1>2, <1>4, <1>5, <1>6

(* The channel and what was sent and taken of it, where nothing else moves. *)
WireOK == WireInv /\ chan \in Seq(Items) /\ Len(chan) <= Capacity /\ sent \in 0 .. Chunks
          /\ taken \in 0 .. sent /\ bridge \in {"none", "open", "ended"}

LEMMA PullChunk ==
  ASSUME Inv, chan # <<>>, Head(chan) = "Chunk", chan' = Tail(chan), taken' = taken + 1,
         UNCHANGED <<sent, bridge, pc, req, found>>
  PROVE  WireOK'
<1>1. /\ chan \in Seq(Items) /\ Len(chan) \in Nat /\ Len(chan) > 0 /\ Head(chan) = chan[1]
      /\ sent \in Nat /\ taken \in Nat /\ Chunks \in Nat /\ Capacity \in Nat /\ Len(chan) <= Capacity
      /\ taken <= sent /\ sent <= Chunks
      /\ Tail(chan) \in Seq(Items) /\ Len(Tail(chan)) = Len(chan) - 1
      /\ \A n \in 1 .. Len(chan) - 1 : Tail(chan)[n] = chan[n + 1]
      /\ bridge \in {"none", "open", "ended"}
  BY WireShapes, Queues
<1>2. PICK q : q = Tail(chan)
  OBVIOUS
<1>3. /\ chan' = q /\ q \in Seq(Items) /\ Len(q) = Len(chan) - 1
      /\ \A n \in 1 .. Len(q) : q[n] = chan[n + 1]
      /\ (q # <<>> <=> Len(q) > 0)
  BY <1>1, <1>2, Queues
<1>4. Closing' <=> Closing
  <2>1. CASE Len(chan) = 1
    BY <1>1, <1>3, <2>1 DEF Closing
  <2>2. CASE Len(chan) > 1
    <3>1. q # <<>> /\ q[Len(q)] = chan[Len(chan)] /\ chan # <<>>
      BY <1>1, <1>3, <2>2
    <3> QED BY <1>3, <3>1 DEF Closing
  <2> QED BY <1>1, <2>1, <2>2
<1>5. taken + Len(chan) = sent + (IF Closing THEN 1 ELSE 0)
  BY DEF Inv, WireInv
<1>6. taken' + Len(q) = sent + (IF Closing' THEN 1 ELSE 0)
  <2>1. taken' + Len(q) = taken + Len(chan)
    <3>1. PICK m, k : m = taken /\ k = Len(chan)
      OBVIOUS
    <3>2. m \in Nat /\ k \in Nat /\ taken' = m + 1 /\ Len(q) = k - 1
      BY <1>1, <1>3, <3>1
    <3>3. (m + 1) + (k - 1) = m + k
      BY <3>2
    <3> QED BY <3>1, <3>2, <3>3
  <2> QED BY <1>4, <1>5, <2>1
<1>7. taken + 1 <= sent
  <2>1. CASE Len(chan) = 1
    <3>1. ~Closing
      BY <1>1, <2>1 DEF Closing
    <3> QED BY <1>1, <1>5, <2>1, <3>1
  <2>2. CASE Len(chan) > 1
    BY <1>1, <1>5, <2>2
  <2> QED BY <1>1, <2>1, <2>2
<1>8. \A n \in 1 .. Len(q) : n < Len(q) => q[n] = "Chunk"
  BY <1>1, <1>3 DEF Inv, WireInv
<1>9. \A n \in 1 .. Len(q) : q[n] = "End" => sent = Chunks /\ ~Unwanted
  BY <1>1, <1>3 DEF Inv, WireInv
<1>10. bridge # "none"
  BY DEF Inv, WireInv
<1>11. Unwanted' <=> Unwanted
  BY DEF Unwanted
<1>12. WireInv'
  BY <1>3, <1>4, <1>6, <1>8, <1>9, <1>10, <1>11 DEF Inv, WireInv
<1> QED BY <1>1, <1>3, <1>7, <1>12 DEF WireOK

LEMMA PullLast ==
  ASSUME Inv, chan # <<>>, Head(chan) # "Chunk", chan' = Tail(chan),
         UNCHANGED <<sent, taken, bridge, pc, req, found>>
  PROVE  WireOK'
<1>1. /\ chan' = <<>> /\ taken = sent /\ sent \in Nat /\ sent <= Chunks /\ Chunks \in Nat /\ Capacity \in Nat
      /\ bridge \in {"none", "open", "ended"}
  BY LastItem, WireShapes
<1>2. chan' \in Seq(Items) /\ Len(chan') = 0
  <2>1. <<>> \in Seq(Items) /\ Len(<<>>) = 0
    OBVIOUS
  <2> QED BY <1>1, <2>1
<1>3. ~Closing'
  BY <1>1 DEF Closing
<1>4. bridge # "none"
  BY DEF Inv, WireInv
<1>5. WireInv'
  BY <1>1, <1>2, <1>3, <1>4 DEF Inv, WireInv
<1> QED BY <1>1, <1>2, <1>5 DEF WireOK

(* The bridge task puts one more item at the end.                           *)
LEMMA SendStep ==
  ASSUME Inv, bridge = "open", Len(chan) < Capacity, NEW item \in Items, chan' = Append(chan, item),
         item = "Chunk" => sent < Chunks /\ sent' = sent + 1 /\ bridge' = "open",
         item # "Chunk" => sent' = sent /\ bridge' = "ended",
         item = "End" => sent = Chunks /\ ~Unwanted,
         UNCHANGED <<taken, pc, req, found>>
  PROVE  WireOK'
<1>1. /\ chan \in Seq(Items) /\ Len(chan) \in Nat /\ (chan # <<>> <=> Len(chan) > 0)
      /\ sent \in Nat /\ taken \in Nat /\ Chunks \in Nat /\ Capacity \in Nat
      /\ taken <= sent /\ sent <= Chunks
  BY WireShapes, Queues
<1>2. PICK q : q = Append(chan, item)
  OBVIOUS
<1>3. /\ chan' = q /\ q \in Seq(Items) /\ Len(q) = Len(chan) + 1 /\ q # <<>> /\ q[Len(chan) + 1] = item
      /\ \A n \in 1 .. Len(chan) : q[n] = chan[n]
  BY <1>1, <1>2, Queues
<1>4. ~Closing
  BY DEF Inv, WireInv
<1>5. \A n \in 1 .. Len(chan) : chan[n] = "Chunk"
  <2>1. ASSUME NEW n \in 1 .. Len(chan) PROVE chan[n] = "Chunk"
    <3>1. CASE n < Len(chan)
      BY <3>1 DEF Inv, WireInv
    <3>2. CASE n = Len(chan)
      BY <1>1, <1>4, <3>2 DEF Closing
    <3> QED BY <1>1, <3>1, <3>2
  <2> QED BY <2>1
<1>6. Closing' <=> item # "Chunk"
  BY <1>1, <1>3 DEF Closing
<1>7. taken + Len(chan) = sent
  BY <1>1, <1>4 DEF Inv, WireInv
<1>8. taken' + Len(q) = sent' + (IF Closing' THEN 1 ELSE 0)
  BY <1>1, <1>3, <1>6, <1>7
<1>9. \A n \in 1 .. Len(q) : n < Len(q) => q[n] = "Chunk"
  BY <1>1, <1>3, <1>5
<1>10. \A n \in 1 .. Len(q) : q[n] = "End" => n = Len(q) /\ item = "End"
  BY <1>1, <1>3, <1>5
<1>11. Unwanted' <=> Unwanted
  BY DEF Unwanted
<1>12. WireInv'
  BY <1>3, <1>6, <1>8, <1>9, <1>10, <1>11 DEF Inv, WireInv
<1>13. sent' \in 0 .. Chunks /\ taken' \in 0 .. sent' /\ Len(q) <= Capacity /\ bridge' \in {"none", "open", "ended"}
  BY <1>1, <1>3
<1> QED BY <1>3, <1>12, <1>13 DEF WireOK
-----------------------------------------------------------------------------
(* Every step, put together.                                               *)

answer == IF pc = "done" THEN reply ELSE "none"

StoreTypes ==
  /\ req \in Requests
  /\ obj \in [Addresses -> Objects \cup {Gone}]
  /\ wrote \subseteq Versions /\ held \subseteq Versions
  /\ placed \subseteq Versions /\ removed \subseteq Versions
  /\ vacated \in BOOLEAN

LEMMA StoreTypeStep ==
  ASSUME TypeOK, [Promise!PromiseNext]_<<req, storage>>
  PROVE  StoreTypes'
<1>1. /\ req \in Requests /\ obj \in [Addresses -> Objects \cup {Gone}] /\ wrote \subseteq Versions
      /\ held \subseteq Versions /\ placed \subseteq Versions /\ vacated \in BOOLEAN
      /\ removed \subseteq Versions
      /\ Source \in Addresses /\ Destination \in Addresses
      /\ \A a \in Addresses : obj[a] # Gone => obj[a].of \in Versions
  BY Shapes DEF TypeOK
<1>2. CASE UNCHANGED <<req, storage>>
  BY <1>1, <1>2 DEF StoreTypes, storage
<1>3. ASSUME NEW stored, stored \subseteq Versions, Track(stored), req' \in Requests, UNCHANGED req,
             obj' \in [Addresses -> Objects \cup {Gone}], wrote' \subseteq Versions, removed' \subseteq Versions
      PROVE  StoreTypes'
  <2>1. obj'[Source] \in Objects \cup {Gone} /\ Source' = Source
    BY <1>1, <1>3 DEF Source
  <2>2. Contents(obj'[Source]) \subseteq Versions
    BY <2>1 DEF Contents, Objects
  <2> QED BY <1>1, <1>3, <2>2 DEF StoreTypes, Track
<1>4. \A v \in Versions : Foreign(v) \in Objects /\ Stored(v, TRUE) \in Objects
  BY NewObjects
<1>5. ASSUME NEW a \in Addresses, NEW v \in Versions, ForeignWrite(a, v)
      PROVE  StoreTypes'
  BY <1>1, <1>3, <1>4, <1>5 DEF ForeignWrite
<1>6. ASSUME NEW a \in Addresses, ForeignDelete(a)
      PROVE  StoreTypes'
  BY <1>1, <1>3, <1>6 DEF ForeignDelete
<1>7. ASSUME NEW v \in Versions, Promise!Place(v)
      PROVE  StoreTypes'
  <2>1. /\ UNCHANGED <<req, removed, wrote>> /\ obj' = [obj EXCEPT ![Destination] = Stored(v, TRUE)]
        /\ Track({v})
    BY <1>7 DEF Promise!Place, Promise!Track, Promise!Contents, Contents, Promise!Source, Track,
                Promise!Destination, Source, Destination, Stored
  <2> QED BY <1>1, <1>3, <1>4, <2>1
<1>8. CASE Promise!Remove
  <2>1. /\ UNCHANGED <<req, wrote>> /\ obj' = [obj EXCEPT ![Source] = Gone] /\ Track({})
        /\ removed' = removed \cup {obj[Source].of} /\ obj[Source] # Gone
    BY <1>8 DEF Promise!Remove, Promise!Track, Promise!Contents, Contents, Promise!Source, Source, Track
  <2> QED BY <1>1, <1>3, <2>1
<1>9. CASE Promise!Move
  <2>1. /\ UNCHANGED <<req, wrote>> /\ Track({obj[Source].of})
        /\ obj' = [obj EXCEPT ![Destination] = Stored(obj[Source].of, TRUE), ![Source] = Gone]
        /\ removed' = removed \cup {obj[Source].of} /\ obj[Source] # Gone
    BY <1>9 DEF Promise!Move, Promise!Track, Promise!Contents, Contents, Promise!Source, Source, Track,
                Promise!Destination, Destination, Stored
  <2>2. obj[Source].of \in Versions
    BY <1>1, <2>1
  <2> QED BY <1>1, <1>3, <1>4, <2>1, <2>2
<1>10. ASSUME NEW code \in Codes, Promise!Answer(code) PROVE StoreTypes'
  <2>1. UNCHANGED <<req, storage>>
    BY <1>10 DEF Promise!Answer, Promise!storage, storage
  <2> QED BY <1>2, <2>1
<1> QED BY <1>2, <1>5, <1>6, <1>7, <1>8, <1>9, <1>10
        DEF Promise!PromiseNext, Promise!Others, Promise!ForeignWrite, Promise!ForeignDelete,
            Promise!Track, Promise!Contents, Promise!Foreign, Promise!Source, Promise!Codes,
            ForeignWrite, ForeignDelete, Track, Contents, Foreign, Source, Codes

LEMMA WireIsOK ==
  ASSUME Inv
  PROVE  WireOK
  BY DEF Inv, TypeOK, WireOK, Items

(* Nothing but the channel, the chunks taken and the token move.            *)
LEMMA StillStep ==
  ASSUME Inv, UNCHANGED <<req, storage, backend, pc, attempt, reply, found>>, cancel' \in BOOLEAN, WireOK',
         rx' \in Holders, bridge' # "none" => bridge # "none"
  PROVE  Inv' /\ UNCHANGED <<req, storage, answer>>
<1>1. StoreTypes'
  BY StoreTypeStep DEF Inv
<1>2. StoreInv'
  BY StoreStep DEF Inv
<1>3. ProgressInv'
  BY DEF Inv, ProgressInv, storage, Source, Destination
<1>4. ReplyInv'
  BY DEF Inv, ReplyInv, storage, Source, Destination
<1>5. PinInv'
  BY DEF Inv, PinInv, storage, Unwanted
<1>6. TypeOK'
  <2>1. /\ backend' \in Backends /\ pc' \in Steps /\ attempt' \in 1 .. Attempts
        /\ reply' \in Codes \cup {"none"} /\ found' \in Versions \cup {Gone}
    BY DEF Inv, TypeOK
  <2> QED BY <1>1, <2>1 DEF StoreTypes, WireOK, TypeOK, Items, Holders
<1>7. UNCHANGED answer
  BY DEF answer
<1>8. BodyInv'
  BY DEF Inv, BodyInv, storage
<1> QED BY <1>2, <1>3, <1>4, <1>5, <1>6, <1>7, <1>8 DEF Inv, WireOK

LEMMA CallKept ==
  ASSUME Inv, CallGoesOn, rx' \in Holders
  PROVE  Inv' /\ [Promise!PromiseNext]_<<req, storage, answer>>
<1>0. /\ pc # "done" /\ pc' \in Steps /\ attempt' \in 1 .. Attempts
      /\ UNCHANGED <<req, storage, backend, cancel, chan, sent, found, taken>>
      /\ pc' = "done" => reply' \in Codes
      /\ pc' # "done" => reply' = "none"
  BY DEF CallGoesOn
<1>1. StoreTypes' /\ StoreInv'
  BY <1>0, StoreTypeStep, StoreStep DEF Inv
<1>2. ProgressInv' /\ ReplyInv' /\ PinInv'
  <2>1. CASE pc' = "done"
    BY <1>0, <2>1 DEF ProgressInv, ReplyInv, PinInv, Untouched, Emulating
  <2>2. CASE pc' # "done"
    <3>1. reply' = "none" /\ ProgressInv' /\ PinInv'
      BY <2>2 DEF CallGoesOn
    <3>2. ReplyInv'
      BY <3>1 DEF ReplyInv
    <3> QED BY <3>1, <3>2
  <2> QED BY <2>1, <2>2
<1>3. WireOK'
  <2>1. WireOK /\ WireInv
    BY WireIsOK DEF WireOK
  <2>2. (Unwanted' <=> Unwanted) /\ (Closing' <=> Closing)
    BY <1>0 DEF Unwanted, Closing
  <2>3. CASE bridge' = bridge
    <3>1. pc' \notin {"write_stream", "delete", "done"} => pc \notin {"write_stream", "delete", "done"}
      BY <1>0 DEF CallGoesOn
    <3>2. WireInv'
      BY <1>0, <2>1, <2>2, <2>3, <3>1 DEF WireInv
    <3> QED BY <1>0, <2>1, <2>3, <3>2 DEF WireOK
  <2>4. CASE bridge' = "open" /\ pc = "read_to_body" /\ pc' = "write_stream"
    <3>1. chan = <<>> /\ ~Closing
      BY <2>1, <2>4 DEF WireInv, Closing
    <3>2. WireInv'
      BY <1>0, <2>1, <2>2, <2>4, <3>1 DEF WireInv
    <3> QED BY <1>0, <2>1, <2>4, <3>2 DEF WireOK
  <2> QED BY <2>3, <2>4 DEF CallGoesOn
<1>4. TypeOK'
  <2>1. /\ backend' \in Backends /\ cancel' \in BOOLEAN /\ reply' \in Codes \cup {"none"}
        /\ found' \in Versions \cup {Gone}
    BY <1>0 DEF Inv, TypeOK
  <2> QED BY <1>0, <1>1, <1>3, <2>1 DEF StoreTypes, WireOK, TypeOK, Items, Holders
<1>7. BodyInv'
  <2>1. CASE bridge' = bridge
    BY <1>0, <2>1 DEF Inv, BodyInv, storage
  <2>2. CASE bridge' = "open" /\ pc = "read_to_body" /\ pc' = "write_stream"
    BY <1>2, <2>2 DEF PinInv, BodyInv
  <2> QED BY <2>1, <2>2 DEF CallGoesOn
<1>5. CASE pc' = "done"
  <2>1. reply' \in Codes /\ Promise!Earned(reply')
    BY <1>5 DEF CallGoesOn
  <2>2. PICK code \in Codes : code = reply'
    BY <2>1
  <2>3. Promise!Answer(code)
    BY <1>0, <1>5, <2>1, <2>2 DEF Promise!Answer, Promise!storage, storage, Promise!Earned, Promise!CleanCodes,
       Promise!Source, Promise!Destination
  <2>4. Promise!PromiseNext
    BY <2>2, <2>3 DEF Promise!PromiseNext, Promise!Codes, Codes
  <2> QED BY <1>1, <1>2, <1>3, <1>4, <1>7, <2>4 DEF Inv, WireOK
<1>6. CASE pc' # "done"
  <2>1. UNCHANGED answer
    BY <1>0, <1>6 DEF answer
  <2> QED BY <1>0, <1>1, <1>2, <1>3, <1>4, <1>7, <2>1 DEF Inv, WireOK
<1> QED BY <1>5, <1>6

(* No step forgets a content of the source.                                 *)
LEMMA HeldKept ==
  ASSUME Promise!PromiseNext \/ UNCHANGED storage
  PROVE  held \subseteq held'
  BY DEF Promise!PromiseNext, Promise!Others, Promise!ForeignWrite, Promise!ForeignDelete, Promise!Place,
         Promise!Remove, Promise!Move, Promise!Answer, Promise!Track, Promise!storage, storage

LEMMA BackendKept ==
  ASSUME Inv, BackendGoesOn, WireOK', rx' \in Holders, bridge' = bridge
  PROVE  Inv' /\ [Promise!PromiseNext]_<<req, storage, answer>>
<1>1. StoreTypes' /\ StoreInv'
  BY StoreTypeStep, StoreStep DEF Inv, BackendGoesOn
<1>2. ProgressInv' /\ ReplyInv' /\ PinInv'
  BY DEF BackendGoesOn
<1>3. TypeOK'
  <2>1. /\ backend' \in Backends /\ cancel' \in BOOLEAN /\ pc' \in Steps /\ attempt' \in 1 .. Attempts
        /\ reply' \in Codes \cup {"none"} /\ found' \in Versions \cup {Gone}
    BY DEF BackendGoesOn, Inv, TypeOK
  <2> QED BY <1>1, <2>1 DEF StoreTypes, WireOK, TypeOK, Items, Holders
<1>4. Promise!PromiseNext \/ UNCHANGED <<req, storage, answer>>
  BY DEF BackendGoesOn, answer
<1>5. BodyInv'
  <2>1. held \subseteq held'
    BY <1>4, HeldKept
  <2>2. found' = found \/ bridge = "none"
    BY DEF BackendGoesOn, Inv, WireInv
  <2> QED BY <2>1, <2>2 DEF Inv, BodyInv
<1> QED BY <1>1, <1>2, <1>3, <1>4, <1>5 DEF Inv, WireOK

LEMMA AnsweringKept ==
  ASSUME Inv, Answering \/ BackendRejectsStream, rx' \in Holders
  PROVE  Inv' /\ [Promise!PromiseNext]_<<req, storage, answer>>
<1>1. ASSUME BackendGoesOn, UNCHANGED <<chan, sent, bridge>>
      PROVE  WireOK'
  <2>1. WireOK /\ WireInv
    BY WireIsOK DEF WireOK
  <2>2. UNCHANGED <<req, pc, taken, chan, sent, bridge>> /\ (Closing' <=> Closing)
    BY <1>1 DEF BackendGoesOn, Closing
  <2>3. CASE found' = found
    <3>1. Unwanted' <=> Unwanted
      BY <2>2, <2>3 DEF Unwanted
    <3>2. WireInv'
      BY <2>1, <2>2, <3>1 DEF WireInv
    <3> QED BY <2>1, <2>2, <3>2 DEF WireOK
  <2>4. CASE pc \in {"read_to_bytes", "read_to_body"}
    <3>1. chan = <<>> /\ Len(chan) = 0
      BY <2>1, <2>4 DEF WireInv
    <3>2. WireInv'
      BY <2>1, <2>2, <2>4, <3>1 DEF WireInv
    <3> QED BY <2>1, <2>2, <3>2 DEF WireOK
  <2> QED BY <1>1, <2>3, <2>4 DEF BackendGoesOn
<1>2. CASE \/ /\ \/ BackendRename \/ BackendCopy \/ BackendRead \/ BackendWrite
                 \/ BackendDelete \/ BackendTakesBody
              /\ UNCHANGED wire
           \/ BackendDeclinesStream \/ BackendRejectsStream
  <2>1. BackendGoesOn
    BY <1>2, RenameStep, CopyStep, ReadStep, WriteStep, DeleteStep, StreamStep
  <2>2. UNCHANGED <<chan, sent, bridge>>
    BY <1>2 DEF wire, BackendDeclinesStream, BackendRejectsStream, LeavesBody
  <2> QED BY <1>1, <2>1, <2>2, BackendKept
<1>3. CASE Pull
  <2>1. /\ pc = "write_stream" /\ reply = "none" /\ backend.sink = "stream" /\ chan # <<>>
        /\ chan' = Tail(chan) /\ UNCHANGED <<sent, bridge>> /\ Serving("write_stream")
        /\ pc \in Steps \ {"done"}
    BY <1>3 DEF Pull, Pulling, Serving, Steps
  <2>2. CASE Head(chan) = "Chunk"
    <3>1. /\ taken' = taken + 1 /\ UNCHANGED <<obj, held, placed, removed, vacated, found, reply>>
          /\ UNCHANGED <<req, backend, cancel, pc, attempt, wrote>>
      BY <1>3, <2>2 DEF Pull, Outside
    <3>2. WireOK'
      BY <2>1, <2>2, <3>1, PullChunk
    <3>3. UNCHANGED storage /\ cancel' \in BOOLEAN
      BY <3>1 DEF storage, Inv, TypeOK
    <3> QED BY <2>1, <3>1, <3>2, <3>3, StillStep
  <2>3. CASE Head(chan) # "Chunk"
    <3>1. BackendGoesOn /\ UNCHANGED found
      <4>1. CASE Head(chan) = "End"
        <5>1. taken = Chunks /\ ~Unwanted
          BY <2>1, <2>3, <4>1, LastItem
        <5>2. CommitStream(Chunks)
          BY <1>3, <4>1, <5>1 DEF Pull
        <5>3. BackendGoesOn
          BY <2>1, <5>1, <5>2, CommitStep
        <5>4. UNCHANGED found
          BY <2>1, <5>3 DEF BackendGoesOn
        <5> QED BY <5>3, <5>4
      <4>2. CASE Head(chan) # "End"
        <5>1. Fails({Head(chan)})
          BY <1>3, <2>3, <4>2 DEF Pull
        <5>2. Head(chan) \in {"ObjectModified", "Transient", "Cancelled"}
          <6>1. Head(chan) \in Items
            BY <2>1, WireShapes, Queues
          <6> QED BY <2>3, <4>2, <6>1 DEF Items
        <5>3. BackendGoesOn
          BY <2>1, <5>1, <5>2, FailStep DEF Codes
        <5>4. UNCHANGED found
          BY <2>1, <5>3 DEF BackendGoesOn
        <5> QED BY <5>3, <5>4
      <4> QED BY <4>1, <4>2
    <3>2. UNCHANGED <<taken, pc, req>>
      BY <3>1 DEF BackendGoesOn
    <3>3. WireOK'
      BY <2>1, <2>3, <3>1, <3>2, PullLast
    <3> QED BY <2>1, <3>1, <3>3, BackendKept
  <2> QED BY <2>2, <2>3
<1>4. CASE PullClosed
  <2>1. /\ pc \in Steps \ {"done"} /\ reply = "none" /\ Fails({"Internal"}) /\ UNCHANGED <<chan, sent, bridge>>
    BY <1>4 DEF PullClosed, Pulling, Serving, Steps
  <2>2. BackendGoesOn
    BY <2>1, FailStep DEF Codes
  <2> QED BY <1>1, <2>1, <2>2, BackendKept
<1> QED BY <1>2, <1>3, <1>4 DEF Answering

LEMMA BridgeKept ==
  ASSUME Inv, Bridge, rx' \in Holders
  PROVE  Inv' /\ UNCHANGED <<req, storage, answer>>
<1>1. UNCHANGED <<req, storage, backend, pc, attempt, reply, found, taken>> /\ cancel' \in BOOLEAN
  BY DEF Bridge, BridgeSends, BridgeCancelled, BridgeClosed, BridgeDies, BridgeStep, call, Inv, TypeOK
<1>2. ASSUME NEW item \in {"Chunk", "End", "ObjectModified", "Transient"}, BridgeSends(item)
      PROVE  WireOK'
  <2>1. /\ bridge = "open" /\ Len(chan) < Capacity /\ chan' = Append(chan, item) /\ item \in Items
        /\ item = "Chunk" => sent' = sent + 1 /\ bridge' = "open"
        /\ item # "Chunk" => sent' = sent /\ bridge' = "ended"
    BY <1>2 DEF BridgeSends, Items
  <2>2. /\ item = "Chunk" => sent < Chunks
        /\ item = "End" => sent = Chunks /\ ~Unwanted
    BY <1>2 DEF BridgeSends
  <2> QED BY <1>1, <2>1, <2>2, SendStep
<1>3. ASSUME BridgeCancelled PROVE WireOK'
  <2>1. /\ bridge = "open" /\ Len(chan) < Capacity /\ chan' = Append(chan, "Cancelled") /\ "Cancelled" \in Items
        /\ sent' = sent /\ bridge' = "ended"
    BY <1>3 DEF BridgeCancelled, Items
  <2> QED BY <1>1, <2>1, SendStep
<1>4. ASSUME BridgeClosed \/ BridgeDies PROVE WireOK'
  <2>1. bridge = "open" /\ bridge' = "ended" /\ UNCHANGED <<chan, sent>>
    BY <1>4 DEF BridgeClosed, BridgeDies
  <2>2. WireOK /\ WireInv
    BY WireIsOK DEF WireOK
  <2>3. (Unwanted' <=> Unwanted) /\ (Closing' <=> Closing)
    BY <1>1, <2>1 DEF Unwanted, Closing
  <2>4. WireInv'
    BY <1>1, <2>1, <2>2, <2>3 DEF WireInv
  <2> QED BY <1>1, <2>1, <2>2, <2>4 DEF WireOK
<1>5. WireOK'
  BY <1>2, <1>3, <1>4 DEF Bridge
<1>6. bridge # "none"
  BY DEF Bridge, BridgeSends, BridgeCancelled, BridgeClosed, BridgeDies
<1> QED BY <1>1, <1>5, <1>6, StillStep

(* A thread that the call left behind: what it may still store is the whole *)
(* of a content of the source, and the one that the caller named.           *)
LEMMA ThreadKept ==
  ASSUME Inv, Thread, rx' \in Holders
  PROVE  Inv' /\ [Promise!PromiseNext]_<<req, storage, answer>>
<1>1. CASE ThreadClosed
  <2>1. UNCHANGED <<req, storage, backend, pc, attempt, reply, found, taken, chan, sent, bridge, cancel>>
    BY <1>1 DEF ThreadClosed, BridgeStep, call
  <2>2. WireOK' <=> WireOK
    BY <2>1 DEF WireOK, WireInv, Closing, Unwanted
  <2>3. WireOK' /\ cancel' \in BOOLEAN
    BY <2>1, <2>2, WireIsOK DEF Inv, TypeOK
  <2> QED BY <2>1, <2>3, StillStep
<1>2. ASSUME ThreadPulls
      PROVE  /\ chan # <<>> /\ chan' = Tail(chan)
             /\ UNCHANGED <<req, backend, cancel, pc, attempt, reply, found, sent, bridge>>
             /\ \/ Head(chan) = "Chunk" /\ taken' = taken + 1 /\ UNCHANGED storage
                \/ Head(chan) # "Chunk" /\ UNCHANGED <<taken, storage>>
                \/ /\ Head(chan) = "End" /\ pc = "done" /\ reply = "Dropped" /\ DestinationAllows
                   /\ obj' = [obj EXCEPT ![Destination] = Stored(found, taken = Chunks)]
                   /\ Track({found}) /\ UNCHANGED <<taken, wrote, removed>>
  BY <1>2 DEF ThreadPulls
<1>3. CASE ThreadPulls /\ UNCHANGED storage
  <2>1. WireOK'
    <3>1. CASE Head(chan) = "Chunk" /\ taken' = taken + 1
      BY <1>2, <1>3, <3>1, PullChunk
    <3>2. CASE Head(chan) # "Chunk" /\ UNCHANGED taken
      BY <1>2, <1>3, <3>2, PullLast
    <3> QED BY <1>2, <1>3, <3>1, <3>2
  <2>2. cancel' \in BOOLEAN
    BY <1>2, <1>3 DEF Inv, TypeOK
  <2> QED BY <1>2, <1>3, <2>1, <2>2, StillStep
<1>4. CASE ThreadPulls /\ ~UNCHANGED storage
  <2>1. /\ chan # <<>> /\ chan' = Tail(chan) /\ Head(chan) = "End" /\ pc = "done" /\ reply = "Dropped"
        /\ UNCHANGED <<req, backend, cancel, pc, attempt, reply, found, sent, bridge, taken, wrote, removed>>
        /\ DestinationAllows /\ Track({found})
        /\ obj' = [obj EXCEPT ![Destination] = Stored(found, taken = Chunks)]
    BY <1>2, <1>4
  <2>2. taken = Chunks /\ ~Unwanted
    BY <2>1, LastItem
  <2>3. WireOK'
    BY <2>1, PullLast
  <2>4. bridge # "none"
    BY <2>1 DEF Inv, WireInv
  <2>5. found \in held /\ found \in Versions
    BY <2>4 DEF Inv, BodyInv, TypeOK
  <2>6. obj' = [obj EXCEPT ![Destination] = [of |-> found, whole |-> TRUE, mine |-> TRUE]]
    <3>1. (taken = Chunks) = TRUE
      BY <2>2
    <3> QED BY <2>1, <3>1 DEF Stored
  <2>7. Promise!Place(found)
    BY <2>1, <2>2, <2>5, <2>6 DEF Promise!Place, Promise!Track, Promise!Contents, Promise!Source,
       Promise!Destination, Promise!DestinationAllows, Promise!Matches, Promise!Foreign,
       Track, Contents, Source, Destination, DestinationAllows, Matches, Foreign, Unwanted
  <2>8. Promise!PromiseNext
    BY <2>5, <2>7 DEF Promise!PromiseNext
  <2>9. StoreTypes' /\ StoreInv'
    BY <2>8, StoreTypeStep, StoreStep DEF Inv
  <2>10. ProgressInv' /\ ReplyInv' /\ PinInv'
    BY <2>1 DEF ProgressInv, ReplyInv, PinInv, Untouched, Emulating
  <2>11. BodyInv'
    <3>1. held \subseteq held'
      BY <2>8, HeldKept
    <3> QED BY <2>1, <2>5, <3>1 DEF BodyInv
  <2>12. TypeOK'
    <3>1. /\ backend' \in Backends /\ cancel' \in BOOLEAN /\ pc' \in Steps /\ attempt' \in 1 .. Attempts
          /\ reply' \in Codes \cup {"none"} /\ found' \in Versions \cup {Gone}
      BY <2>1 DEF Inv, TypeOK
    <3> QED BY <2>3, <2>9, <3>1 DEF StoreTypes, WireOK, TypeOK, Items, Holders
  <2> QED BY <2>3, <2>8, <2>9, <2>10, <2>11, <2>12 DEF Inv, WireOK
<1> QED BY <1>1, <1>3, <1>4 DEF Thread

LEMMA OthersKept ==
  ASSUME Inv, Others, UNCHANGED <<backend, call, wire, cancel>>
  PROVE  Inv' /\ Promise!PromiseNext
<1>1. /\ UNCHANGED <<req, placed, removed>> /\ held \subseteq held'
      /\ (vacated => vacated') /\ Source' = Source /\ Destination' = Destination
  BY DEF Others, ForeignWrite, ForeignDelete, Track, Source, Destination
<1>2. UNCHANGED <<pc, attempt, reply, found, taken, chan, sent, bridge, rx>>
  BY DEF call, wire
<1>3. Promise!PromiseNext
  BY <1>2 DEF Promise!PromiseNext, Promise!Others, Promise!ForeignWrite, Promise!ForeignDelete,
            Promise!Track, Promise!Contents, Promise!Foreign, Promise!Source,
            Others, ForeignWrite, ForeignDelete, Track, Contents, Foreign, Source
<1>4. StoreTypes' /\ StoreInv'
  BY <1>3, StoreTypeStep, StoreStep DEF Inv
<1>5. ProgressInv'
  BY <1>1, <1>2 DEF Inv, ProgressInv
<1>6. ReplyInv'
  BY <1>1, <1>2 DEF Inv, ReplyInv
<1>7. Unwanted' <=> Unwanted
  BY <1>1, <1>2 DEF Unwanted
<1>8. PinInv'
  BY <1>1, <1>2, <1>7 DEF Inv, PinInv
<1>9. WireOK'
  <2>1. WireOK /\ WireInv
    BY WireIsOK DEF WireOK
  <2>2. Closing' <=> Closing
    BY <1>2 DEF Closing
  <2>3. WireInv'
    BY <1>2, <1>7, <2>1, <2>2 DEF WireInv
  <2> QED BY <1>2, <2>1, <2>3 DEF WireOK
<1>10. TypeOK'
  <2>1. /\ backend' \in Backends /\ cancel' \in BOOLEAN /\ pc' \in Steps /\ attempt' \in 1 .. Attempts
        /\ reply' \in Codes \cup {"none"} /\ found' \in Versions \cup {Gone}
    BY <1>2 DEF Inv, TypeOK
  <2>2. rx' \in {"call", "thread", "gone"}
    BY <1>2 DEF Inv, TypeOK
  <2> QED BY <1>4, <1>9, <2>1, <2>2 DEF StoreTypes, WireOK, TypeOK, Items
<1>11. BodyInv'
  BY <1>1, <1>2 DEF Inv, BodyInv
<1> QED BY <1>3, <1>4, <1>5, <1>6, <1>8, <1>9, <1>10, <1>11 DEF Inv, WireOK

(* Somebody or nobody holds the receiver.                                   *)
LEMMA HolderStep ==
  ASSUME TypeOK, [Next]_vars
  PROVE  rx' \in Holders
<1> USE DEF Holders
<1>1. rx \in Holders
  BY DEF TypeOK
<1>2. CASE UNCHANGED wire
  BY <1>1, <1>2 DEF wire
<1>3. CASE Call \/ Drain
  BY <1>1, <1>3 DEF Call, Drain, Probe, Emulate, CopyProbe, Transfer, Retry, AfterRename, AfterCopy,
     AfterReadToBytes, AfterWrite, AfterReadToBody, AfterDelete, Local, wire
<1>4. CASE Answering \/ BackendRejectsStream \/ Drop
  BY <1>1, <1>4 DEF Answering, BackendDeclinesStream, Pull, PullClosed, BackendRejectsStream, Drop,
     LeavesBody, wire
<1>5. CASE Bridge \/ Thread
  BY <1>1, <1>5 DEF Bridge, BridgeSends, BridgeCancelled, BridgeClosed, BridgeDies,
     Thread, ThreadPulls, ThreadClosed
<1> QED BY <1>2, <1>3, <1>4, <1>5 DEF Next, vars, Cancel, Finished

LEMMA InvStep ==
  ASSUME Inv, [Next]_vars
  PROVE  Inv' /\ [Promise!PromiseNext]_<<req, storage, answer>>
<1>0. rx' \in Holders
  BY HolderStep DEF Inv
<1>1. CASE Call \/ Drain
  BY <1>0, <1>1, CallStep, CallKept
<1>2. CASE Answering \/ BackendRejectsStream
  BY <1>0, <1>2, AnsweringKept
<1>3. CASE Bridge
  BY <1>0, <1>3, BridgeKept
<1>8. CASE Thread
  BY <1>0, <1>8, ThreadKept
<1>4. CASE Cancel
  <2>1. /\ UNCHANGED <<req, storage, backend, pc, attempt, reply, found, taken, chan, sent, bridge>>
        /\ cancel' \in BOOLEAN
    BY <1>4 DEF Cancel, call, wire
  <2>2. WireOK'
    <3>1. WireOK
      BY WireIsOK
    <3>2. WireOK' <=> WireOK
      BY <2>1 DEF WireOK, WireInv, Closing, Unwanted
    <3> QED BY <3>1, <3>2
  <2> QED BY <1>0, <2>1, <2>2, StillStep
<1>5. CASE Drop
  <2>1. CallGoesOn
    <3>1. /\ pc # "done" /\ pc' = "done" /\ reply' = "Dropped"
          /\ UNCHANGED <<req, storage, backend, cancel, chan, sent, found, taken, attempt, bridge>>
      BY <1>5 DEF Drop, Return, LeavesBody
    <3>2. Promise!Earned("Dropped")
      BY DEF Promise!Earned, Promise!CleanCodes
    <3>3. attempt' \in 1 .. Attempts
      BY <3>1 DEF Inv, TypeOK
    <3> QED BY <3>1, <3>2, <3>3 DEF CallGoesOn, Steps, Codes
  <2> QED BY <1>0, <2>1, CallKept
<1>6. CASE Others /\ UNCHANGED <<backend, call, wire, cancel>>
  BY <1>6, OthersKept
<1>7. CASE UNCHANGED vars
  <2>1. /\ UNCHANGED <<req, storage, backend, pc, attempt, reply, found, taken, chan, sent, bridge, cancel>>
        /\ cancel' \in BOOLEAN
    BY <1>7 DEF vars, call, wire, Inv, TypeOK
  <2>2. WireOK'
    <3>1. WireOK
      BY WireIsOK
    <3>2. WireOK' <=> WireOK
      BY <2>1 DEF WireOK, WireInv, Closing, Unwanted
    <3> QED BY <3>1, <3>2
  <2> QED BY <1>0, <2>1, <2>2, StillStep
<1> QED BY <1>1, <1>2, <1>3, <1>4, <1>5, <1>6, <1>7, <1>8 DEF Next, Finished

LEMMA InvInit ==
  ASSUME Init
  PROVE  Inv /\ Promise!PromiseInit /\ NothingLost
<1>1. /\ req \in Requests /\ obj \in [Addresses -> Objects \cup {Gone}] /\ backend \in Backends
      /\ obj[Source] \in {Foreign(Original), Gone}
      /\ \A a \in Addresses \ {Source} : obj[a] \in {Foreign(Resident), Gone}
      /\ wrote = {} /\ held = Contents(obj[Source]) /\ placed = {} /\ removed = {} /\ vacated = FALSE
      /\ pc = "probe" /\ attempt = 1 /\ reply = "none" /\ found = Gone /\ chan = <<>> /\ sent = 0
      /\ taken = 0 /\ bridge = "none" /\ rx = "gone" /\ cancel = FALSE
  BY DEF Init, StoreInit
<1>2. /\ Original \in Versions /\ Resident \in Versions /\ Attempts \in Nat \ {0}
      /\ Chunks \in Nat \ {0} /\ Capacity \in Nat \ {0}
  BY VersionsAssumption, BridgeAssumption
<1>3. /\ Foreign(Original) # Gone /\ Foreign(Original).of = Original /\ Foreign(Original).whole = TRUE
      /\ Foreign(Resident) # Gone /\ Foreign(Resident).whole = TRUE
  BY <1>2, NewObjects
<1>4. Contents(Gone) = {} /\ Contents(Foreign(Original)) = {Original}
  BY <1>3, ContentsOf
<1>5. <<>> \in Seq(Items) /\ Len(<<>>) = 0
  OBVIOUS
<1>6. StoreTypes
  <2>1. held \subseteq Versions
    BY <1>1, <1>2, <1>4
  <2>2. vacated \in BOOLEAN
    BY <1>1
  <2> QED BY <1>1, <2>1, <2>2 DEF StoreTypes
<1>7. WireOK
  BY <1>1, <1>2, <1>5 DEF WireOK, WireInv, Closing
<1>8. TypeOK
  <2>1. 1 \in 1 .. Attempts /\ "probe" \in Steps
    BY <1>2 DEF Steps
  <2> QED BY <1>1, <1>6, <1>7, <2>1 DEF StoreTypes, WireOK, TypeOK, Items
<1>9. StoreInv
  BY <1>1, <1>3, <1>4 DEF StoreInv
<1>10. ProgressInv /\ ReplyInv /\ PinInv /\ BodyInv
  BY <1>1 DEF ProgressInv, ReplyInv, PinInv, Emulating, BodyInv
<1>11. Promise!PromiseInit
  BY <1>1 DEF Promise!PromiseInit, Promise!StoreInit, Promise!Objects, Objects, Promise!Source, Source,
       Promise!Foreign, Foreign, Promise!Contents, Contents
<1>12. NothingLost
  BY <1>1, <1>9 DEF NothingLost, StoreInv
<1> QED BY <1>7, <1>8, <1>9, <1>10, <1>11, <1>12 DEF Inv, WireOK

(* A content is removed once it is placed, or is newer than the call.       *)
LEMMA LossStep ==
  ASSUME Inv, Inv', NothingLost, [Promise!PromiseNext]_<<req, storage, answer>>
  PROVE  NothingLost'
<1>1. \A a \in Addresses : obj'[a] # Gone => obj'[a].whole
  BY DEF Inv, StoreInv
<1>2. /\ UNCHANGED req /\ Source' = Source /\ Destination' = Destination
      /\ placed \subseteq placed' /\ wrote \subseteq wrote'
      /\ \/ removed' = removed
         \/ /\ Source # Destination
            /\ \E v : /\ removed' = removed \cup {v}
                      /\ v \in placed' \cup (IF req.if_source = NoEtag THEN wrote ELSE {})
  <2>1. CASE UNCHANGED <<req, storage, answer>>
    BY <2>1 DEF storage, Source, Destination
  <2>2. CASE Promise!Others
    BY <2>2 DEF Promise!Others, Promise!ForeignWrite, Promise!ForeignDelete, Promise!Track, Source, Destination
  <2>3. CASE \E v \in Versions : Promise!Place(v)
    BY <2>3 DEF Promise!Place, Promise!Track, Source, Destination
  <2>4. CASE Promise!Remove
    <3>1. /\ UNCHANGED <<req, wrote>> /\ placed' = placed /\ Source # Destination
          /\ removed' = removed \cup {obj[Source].of}
          /\ obj[Source].of \in placed \cup (IF req.if_source = NoEtag THEN wrote ELSE {})
      BY <2>4 DEF Promise!Remove, Promise!Track, Source, Destination, Promise!Source, Promise!Destination
    <3> QED BY <3>1 DEF Source, Destination
  <2>5. CASE Promise!Move
    <3>1. /\ UNCHANGED <<req, wrote>> /\ placed' = placed \cup {obj[Source].of} /\ Source # Destination
          /\ removed' = removed \cup {obj[Source].of}
      BY <2>5 DEF Promise!Move, Promise!Track, Source, Destination, Promise!Source, Promise!Destination
    <3> QED BY <3>1 DEF Source, Destination
  <2>6. CASE \E code \in Codes : Promise!Answer(code)
    BY <2>6 DEF Promise!Answer, Promise!storage, Source, Destination
  <2> QED BY <2>1, <2>2, <2>3, <2>4, <2>5, <2>6 DEF Promise!PromiseNext, Promise!Codes, Codes
<1>3. removed' \ placed' \subseteq IF req.if_source = NoEtag THEN wrote' ELSE {}
  BY <1>2 DEF NothingLost
<1>4. Source = Destination => removed' = {}
  BY <1>2 DEF NothingLost
<1> QED BY <1>1, <1>2, <1>3, <1>4 DEF NothingLost

-----------------------------------------------------------------------------
(* The invariant holds throughout.                                          *)
LEMMA InvHolds == Spec => []Inv
<1>1. Init => Inv
  BY InvInit
<1>2. Inv /\ [Next]_vars => Inv'
  BY InvStep
<1> QED BY <1>1, <1>2, PTL DEF Spec

(* Type correctness: whatever the retry budget, the number of chunks and    *)
(* the capacity of the bridge, no operation is attempted more often than    *)
(* RetryConfig allows, BRIDGE_CHANNEL_CAPACITY is kept, and the destination *)
(* write never pulls a chunk that the bridge task has not sent.             *)
THEOREM TypeCorrect == Spec => []TypeOK
<1>1. Inv => TypeOK
  BY DEF Inv
<1> QED BY <1>1, InvHolds, PTL

(* rename and copy lose nothing: a content that the call removed from the   *)
(* source was stored whole at the destination first, unless it appeared     *)
(* during a rename whose caller named no `if_source`; no address ever shows *)
(* a torn object, whatever cancels, kills or closes the bridge; and a call  *)
(* in place removes nothing.                                                *)
THEOREM LosesNothing == Spec => []NothingLost
<1>1. Init => Inv /\ NothingLost
  BY InvInit
<1>2. (Inv /\ NothingLost) /\ [Next]_vars => (Inv /\ NothingLost)'
  BY InvStep, LossStep
<1> QED BY <1>1, <1>2, PTL DEF Spec

(* The refinement: the fallback layer, the retry layer, the bridge and the  *)
(* backend together implement RelocationPromise.  Every step stores a whole *)
(* content of the source, removes a source whose content is safe, returns   *)
(* an answer that is true of the store, belongs to another client, or is    *)
(* not visible to the caller.                                               *)
THEOREM KeepsPromise == Spec => PromiseKept
<1>1. Init => Promise!PromiseInit
  BY InvInit
<1>2. Inv /\ [Next]_vars => [Promise!PromiseNext]_<<req, storage, answer>>
  BY InvStep
<1>3. [Promise!PromiseNext]_<<req, storage, answer>>
        => [Promise!PromiseNext]_<<req, Promise!storage, IF pc = "done" THEN reply ELSE "none">>
  BY DEF answer, storage, Promise!storage
<1> QED BY <1>1, <1>2, <1>3, InvHolds, PTL DEF Spec, PromiseKept, Promise!PromiseSpec
=============================================================================
