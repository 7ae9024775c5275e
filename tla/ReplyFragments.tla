--------------------------- MODULE ReplyFragments ---------------------------
(***************************************************************************)
(* What load_data (reply.cpp) makes of the bytes of one read, without the  *)
(* bytes: a fragment is the reply to one command in one piece ("whole"),   *)
(* or the part of it that a read took ("head") or left in the socket       *)
(* ("tail"). ReplyParser checks these operators against the bytes.         *)
(***************************************************************************)
EXTENDS Naturals, Sequences

CONSTANTS
    NoCall,     \* the origin of a reply that answers no command
    MaxStrays   \* how many replies the bytes of a tail may look like

ASSUME StraysAssumption == MaxStrays \in Nat

\* client_error_code and parse_error_code values an error() may carry
ErrorKind == {"error", "eof", "client_stopped", "write_error", "read_error"}
ReplyKind == ErrorKind \cup {"value", "partial", "nil", "stray"}

ReplyTo(f, kind) == [kind |-> kind, call |-> f.call, n |-> f.n]

\* A first byte that is no type byte: a nil value without an error, and the
\* rest of the buffer is dropped
Nil == [kind |-> "nil", call |-> NoCall, n |-> 0]

\* An element of an array, or some bytes of a string, taken for a reply
Stray == [kind |-> "stray", call |-> NoCall, n |-> 0]
Strays(k) == [i \in 1..k |-> Stray]

\* Mutant of WholeReply: the bytes are handed over unparsed
UnparsedReply(f) == ReplyTo(f, IF f.ok THEN f.form ELSE "error")

WholeReply(f) == ReplyTo(f, IF f.ok THEN "value" ELSE "error")

\* A buffer whose fragments are whole, or the last one a head: that one is
\* reported as eof; or it is accepted as it is, and what it lacked is the nil
\* that the bytes behind the buffer are, as a reply or as its last element
FromStart(buffer) ==
    LET last  == Len(buffer)
        whole == [i \in 1..last |-> WholeReply(buffer[i])]
        but   == [i \in 1..(last - 1) |-> WholeReply(buffer[i])]
        cut   == buffer[last]
    IN  IF last = 0 \/ cut.form = "whole" THEN {whole}
        ELSE { but \o <<ReplyTo(cut, "eof")>>,
               but \o <<ReplyTo(cut, IF cut.ok THEN "partial" ELSE "error"),
                        Nil>> }
             \cup IF cut.ok THEN {but \o <<ReplyTo(cut, "partial")>>} ELSE {}

\* Mutant of Parsed: each reply is put before the ones already parsed
ParsedBackwards(buffer) ==
    {[i \in 1..Len(buffer) |-> WholeReply(buffer[Len(buffer) + 1 - i])]}

\* The sequences of replies that load_data makes of a buffer when it is
\* called until the buffer is used up. A tail may start with some replies that
\* nobody sent; then either it ends, or the rest of the buffer is a nil.
Parsed(buffer) ==
    IF buffer[1].form # "tail" THEN FromStart(buffer)
    ELSE {Strays(k) \o <<Nil>> : k \in 0..MaxStrays}
         \cup {Strays(p[1]) \o p[2] :
                  p \in (1..MaxStrays) \X FromStart(Tail(buffer))}
=============================================================================
