--------------------------- MODULE MCPressSources ---------------------------
(* Two pods: one rolling update or restart.  One of the updates panics.     *)
(* With two envelopes the pods follow one another, with one they overlap.   *)
EXTENDS PressSources

MCPoisoned == {2}
MCEnvelopes == {"press", "command"}
MCSetups == {[source |-> "telegram", overlap |-> TRUE, sent |-> {}],
             [source |-> "slack", overlap |-> FALSE, sent |-> MCEnvelopes],
             [source |-> "slack", overlap |-> TRUE, sent |-> {"press"}]}
=============================================================================
