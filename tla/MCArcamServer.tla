----------------------------- MODULE MCArcamServer -----------------------------
(* Small instances of ArcamServer: two or three handles, one reported change. *)
EXTENDS ArcamServer
CONSTANTS h1, h2, h3    \* handles

\* Addresses as a little endian machine stores them, the last byte NUL, and the same
\* address in both processes; and a pair where the NUL of an event with the first byte
\* of one is the other.
Addresses == (h1 :> <<1, 0>>) @@ (h2 :> <<2, 0>>)
MCIds == {Addresses, (h1 :> <<1, 0>>) @@ (h2 :> <<1, 0>>), (h1 :> <<1, 0>>) @@ (h2 :> <<0, 1>>)}
SameIds == {(h1 :> <<1, 0>>) @@ (h2 :> <<1, 0>>) @@ (h3 :> <<2, 0>>)}
NulIds == {(h1 :> <<1, 0>>) @@ (h2 :> <<0, 1>>) @@ (h3 :> <<2, 0>>)}

\* A thread ends by a stop message only if its own handle is being closed.
StoppedOnRequestAlways == \A p \in Handle : pc[p] = "stopped" => app[p] \in {"join", "done"}
=============================================================================
