---------------------------- MODULE HttpMessage ----------------------------
(***************************************************************************)
(* What an HttpOutgoingStream puts on the wire and what an HttpParser      *)
(* makes of its head (extensions/http): the calls of the owner of a        *)
(* response, or of a client's request, one after another, the headers and  *)
(* the body writer they lead to, and how the receiver will delimit the     *)
(* body.                                                                   *)
(*                                                                         *)
(* The bytes are tokens: the whole head, a chunk size, "r", "n", and the   *)
(* bytes of the body, numbered.                                            *)
(***************************************************************************)
EXTENDS Integers, Sequences, SequencesExt

CONSTANTS Sizes,      \* lengths of what is passed to write() and end()
          MaxCalls,   \* bound on the calls of write()
          Kinds       \* messages: subset of {"response", "old" (HTTP/1.0), "head", "request"}

VARIABLES
    out,   \* the HttpOutgoingStream: kind, cl and te (the headers set), mode (of
           \* bodyWriter_, "" without one), sent, len (bodyLength_), calls, done
    wire   \* the tokens that were written

Unset == -1
Tok(t, k) == <<[t |-> t, k |-> k]>>
CRLF == Tok("r", 0) \o Tok("n", 0)
Bytes(from, k) == [j \in 1..k |-> [t |-> "d", k |-> from + j]]
IgnoreBody == out.kind = "head"

(* The body writers. *)
BodyWrite(mode, from, k) ==
    CASE mode = "chunked" /\ k = 0 -> <<>>
      [] mode = "chunked" /\ k > 0 -> Tok("size", k) \o CRLF \o Bytes(from, k) \o CRLF
      [] OTHER -> Bytes(from, k)
BodyEnd(mode) == IF mode = "chunked" THEN Tok("size", 0) \o CRLF \o CRLF ELSE <<>>

(* decideTransferMode(lengthHint) *)
BugDecideTransferMode(o, hint) ==
    CASE o.mode # "" -> o
      [] o.mode = "" /\ o.cl # Unset -> [o EXCEPT !.mode = "length"]
      [] o.mode = "" /\ o.cl = Unset /\ hint # Unset -> [o EXCEPT !.cl = hint, !.mode = "length"]
      [] OTHER -> [o EXCEPT !.te = TRUE, !.mode = "chunked"]

DecideTransferMode(o, hint) ==
    CASE o.mode # "" -> o
      [] o.mode = "" /\ hint # Unset -> [o EXCEPT !.cl = hint, !.mode = "length"]
      [] o.mode = "" /\ hint = Unset /\ o.cl # Unset -> [o EXCEPT !.mode = "length"]
      [] o.mode = "" /\ hint = Unset /\ o.cl = Unset /\ ~o.te /\ o.kind = "old" ->
            [o EXCEPT !.mode = "close"]
      [] OTHER -> [o EXCEPT !.te = TRUE, !.mode = "chunked"]

(* writeHeaders(): once. *)
Headers(o) == IF o.sent THEN <<>> ELSE Tok("head", [kind |-> o.kind, cl |-> o.cl, te |-> o.te])

OutInit ==
    /\ \E k \in Kinds :
          out = [kind |-> k, cl |-> Unset, te |-> FALSE, mode |-> "", sent |-> FALSE,
                 len |-> 0, calls |-> 0, done |-> FALSE]
    /\ wire = <<>>
-----------------------------------------------------------------------------
(* setHeader() of Content-Length or of Transfer-Encoding: chunked; not     *)
(* both, and the latter not for an answer to HEAD.                         *)
SetHeader ==
    /\ ~out.sent /\ ~out.done /\ out.len = 0 /\ out.cl = Unset /\ ~out.te
    /\ \/ \E n \in Sizes : out' = [out EXCEPT !.cl = n]
       \/ ~IgnoreBody /\ out' = [out EXCEPT !.te = TRUE]
    /\ UNCHANGED wire

(* write() *)
WriteBody(k) ==
    /\ ~out.done /\ out.calls < MaxCalls
    /\ out.mode = "length" => out.len + k <= out.cl
    /\ LET o == IF IgnoreBody THEN out ELSE DecideTransferMode(out, Unset) IN
       /\ out' = [o EXCEPT !.sent = ~IgnoreBody, !.len = @ + k, !.calls = @ + 1]
       /\ wire' = IF IgnoreBody THEN wire
                  ELSE wire \o Headers(o) \o BodyWrite(o.mode, out.len, k)

(* What the owner has to see to: it sends as much as it announced, and     *)
(* once it has asked for chunks it writes some before it ends.             *)
Keeps(total) ==
    /\ out.cl # Unset /\ ~IgnoreBody => total = out.cl
    /\ out.te => out.mode = "chunked"

(* end() *)
End ==
    /\ ~out.done /\ Keeps(out.len)
    /\ LET o == IF out.sent \/ out.cl # Unset THEN out ELSE [out EXCEPT !.cl = out.len] IN
       /\ out' = [o EXCEPT !.sent = TRUE, !.done = TRUE]
       /\ wire' = wire \o Headers(o) \o BodyEnd(o.mode)

(* end(data): merged with the head, or through the body writer.  An empty  *)
(* body and one that is ignored are left to end().                         *)
EndData(k) ==
    /\ ~out.done /\ k > 0 /\ ~IgnoreBody
    /\ (out.sent \/ out.te => Keeps(out.len + k))
    /\ LET o == DecideTransferMode(out, IF out.mode = "" THEN k ELSE Unset) IN
       /\ out' = [o EXCEPT !.sent = TRUE, !.done = TRUE, !.len = @ + k]
       /\ wire' = wire \o Headers(o) \o BodyWrite(o.mode, out.len, k) \o BodyEnd(o.mode)

EndIgnored(k) ==
    /\ ~out.done /\ k > 0 /\ IgnoreBody
    /\ LET o == [out EXCEPT !.len = @ + k, !.cl = IF @ = Unset THEN out.len + k ELSE @] IN
       /\ out' = [o EXCEPT !.sent = TRUE, !.done = TRUE]
       /\ wire' = wire \o Headers(o)

OutNext == SetHeader \/ End \/ \E k \in Sizes : WriteBody(k) \/ EndData(k) \/ EndIgnored(k)
-----------------------------------------------------------------------------
(* processTransferMode() of the parsers: how the body of h is delimited,   *)
(* and its length.  HttpClient takes the length of an answer to HEAD for   *)
(* 0.                                                                      *)
ProcessTransferMode(h) ==
    CASE h.te -> [mode |-> "chunked", n |-> 0]
      [] ~h.te /\ h.cl # Unset -> [mode |-> "length", n |-> IF h.kind = "head" THEN 0 ELSE h.cl]
      [] ~h.te /\ h.cl = Unset /\ h.kind = "request" -> [mode |-> "length", n |-> 0]
      [] OTHER -> [mode |-> "close", n |-> 0]
=============================================================================
