--------------------------- MODULE MCRelocation ---------------------------
(* Instances of Relocation: two addresses, one version nobody has yet.     *)
EXTENDS Relocation

CONSTANTS src, dst, v0, d0, n1

MCRequests ==
  { [op |-> op, source |-> src, destination |-> to, if_source |-> etag, if_dest |-> cond] :
      op \in {"copy", "rename"}, to \in {src, dst}, etag \in {NoEtag, v0},
      cond \in {"Overwrite", "Fail", "MatchEtag"} }

Kind(rename, copy, delete, sink, body, big) ==
  [rename |-> rename, copy |-> copy, delete |-> delete, sink |-> sink,
   body |-> body, big |-> big]

MCBackends ==
  { Kind("served", "served", "served", "stream", "bytes", FALSE),
    Kind("declined", "served", "served", "stream", "stream", FALSE),
    Kind("hidden", "redirects", "served", "stream", "stream", FALSE),
    Kind("declined", "declined", "served", "stream", "stream", FALSE),
    Kind("hidden", "hidden", "plain", "buffer", "stream", FALSE),
    Kind("declined", "hidden", "hidden", "declined", "delegate", FALSE),
    Kind("hidden", "declined", "served", "buffer", "bytes", TRUE),
    Kind("hidden", "hidden", "served", "buffer", "stream", TRUE),
    Kind("declined", "declined", "declined", "buffer", "delegate", FALSE),
    Kind("hidden", "hidden", "served", "stream", "delegate", FALSE),
    Kind("declined", "declined", "served", "buffer", "redirect", FALSE),
    Kind("hidden", "hidden", "served", "buffer", "bytes", FALSE) }

=============================================================================
