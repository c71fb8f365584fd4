------------------------------- MODULE MCHub -------------------------------
(* One page with two connections, and another client of the page's session. *)
EXTENDS LiveView

CONSTANTS tab, stream1, stream2, other

OneSession == [c \in Clients |-> "owner"]
TabOf == [c \in {stream1, stream2} |-> tab]
=============================================================================
