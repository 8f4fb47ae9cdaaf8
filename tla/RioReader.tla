----------------------------- MODULE RioReader -----------------------------
(***************************************************************************)
(* How do_proxy relays an origin server's answer: rio_readlineb of csapp.c *)
(* takes bytes one at a time from a buffer that rio_read refills with      *)
(* whatever read() returns, and what it returns is how many bytes of the   *)
(* line buffer do_proxy sends on (and keeps for the cache).                *)
(***************************************************************************)
EXTENDS Naturals, Sequences, SequencesExt

CONSTANTS MaxLine,     \* MAXLINE: rio_readlineb's maxlen
          RioBufSize,  \* RIO_BUFSIZE
          MaxBytes     \* bound: the length of the answer

ASSUME SizesAssumption == MaxLine \in Nat /\ MaxLine > 1 /\ RioBufSize \in Nat \ {0} /\ MaxBytes \in Nat

Newline == "newline"
Bytes == {"char", Newline}
Nul == "nul"           \* the byte that ends the line buffer

VARIABLES answer,      \* what the server sends
          unread,      \* how much of it read() has not returned yet (the rest is sent later)
          rio_buf,     \* the bytes buffered and not yet taken, rio_cnt of them
          line,        \* the bytes stored in usrbuf; n is one more than its length
          relayed,     \* what has been sent to the client
          over         \* "no" while the relay goes on, then how it ended

vars == <<answer, unread, rio_buf, line, relayed, over>>

\* rio_readlineb has returned 0, or -1; or -1 after rio_read has closed the
\* descriptor.
Endings == {"eof", "error", "closed"}

Init == /\ answer \in UNION {[1 .. k -> Bytes] : k \in 0 .. MaxBytes}
        /\ unread = Len(answer)
        /\ rio_buf = <<>> /\ line = <<>> /\ relayed = <<>>
        /\ over = "no"

Taken == Len(answer) - unread

\* Mutant: the loop does not stop one byte short of maxlen.
LineOverruns == line # <<>> /\ (Last(line) = Newline \/ Len(line) = MaxLine)

LineEnds == line # <<>> /\ (Last(line) = Newline \/ Len(line) = MaxLine - 1)

\* The buffer is empty and rio_readlineb wants a byte: rio_read calls read().
Reads == over = "no" /\ ~LineEnds /\ rio_buf = <<>>

\* read() returns some of the bytes that are still to come.  (Interrupted by
\* a signal handler it returns -1 and is called again: nothing has changed.)
Refill == /\ Reads
          /\ \E k \in 1 .. RioBufSize : /\ k <= unread
                                        /\ rio_buf' = SubSeq(answer, Taken + 1, Taken + k)
                                        /\ unread' = unread - k
          /\ UNCHANGED <<answer, line, relayed, over>>

\* read() fails, for good: rio_read closes the descriptor if the connection
\* was reset, and rio_readlineb returns -1, whatever it has stored of the line.
ReadFails == /\ Reads
             /\ over' \in {"error", "closed"}
             /\ UNCHANGED <<answer, unread, rio_buf, line, relayed>>

\* Mutant: rio_cnt is stepped, rio_bufptr is not.
TakeSameByte == /\ over = "no" /\ ~LineEnds /\ rio_buf # <<>>
                /\ line' = Append(line, Head(rio_buf))
                /\ rio_buf' = Front(rio_buf)
                /\ UNCHANGED <<answer, unread, relayed, over>>

TakeByte == /\ over = "no" /\ ~LineEnds /\ rio_buf # <<>>
            /\ line' = Append(line, Head(rio_buf))
            /\ rio_buf' = Tail(rio_buf)
            /\ UNCHANGED <<answer, unread, relayed, over>>

\* `return n': n counts from 1 and is stepped past the last byte stored unless
\* a newline breaks the loop, so a line without one counts its final NUL.
ReturnedBytes == IF Last(line) = Newline THEN line ELSE Append(line, Nul)

ReturnLine == /\ relayed' = relayed \o ReturnedBytes
              /\ line' = <<>>
              /\ UNCHANGED <<answer, unread, rio_buf>>

ReturnFullLine == over = "no" /\ LineEnds /\ ReturnLine /\ UNCHANGED over

\* Mutant: an empty buffer is taken for the end of the answer.
AtPause == Reads

\* read() returns 0: what is left of the line is returned, and next time 0.
AtEof == Reads /\ unread = 0
ReturnLastLine == AtEof /\ line # <<>> /\ ReturnLine /\ UNCHANGED over
ReturnEof == /\ AtEof /\ line = <<>>
             /\ over' = "eof"
             /\ UNCHANGED <<answer, unread, rio_buf, line, relayed>>

Over == over # "no" /\ UNCHANGED vars

Next == Refill \/ ReadFails \/ TakeByte \/ ReturnFullLine \/ ReturnLastLine \/ ReturnEof \/ Over

\* The server sends the rest or closes, and the thread keeps running.
Spec == Init /\ [][Next]_vars /\ WF_vars(Next)

---------------------------------------------------------------------------
\* The bytes of the first i that are not NULs.
Kept(bytes) ==
    LET kept[i \in 0 .. Len(bytes)] ==
          IF i = 0 THEN <<>> ELSE IF bytes[i] = Nul THEN kept[i - 1] ELSE Append(kept[i - 1], bytes[i])
    IN  kept

FromServer(bytes) == Kept(bytes)[Len(bytes)]

\* However read() cuts the answer up, each byte is stored and relayed once
\* and in order: none is lost or repeated where a refill falls inside a line.
\* (The code does add a byte: the NUL that ends a line without a newline.)
BytesOnce == FromServer(relayed) \o line \o rio_buf = SubSeq(answer, 1, Taken)

\* Each line stays within the caller's buffer, its final NUL included, and
\* holds no newline but its last byte.
LineFits == /\ Len(line) < MaxLine
            /\ \A i \in 1 .. Len(line) - 1 : line[i] # Newline

\* The relay ends, and with the whole answer relayed unless a read failed: the
\* loop takes neither a pause nor a short read for the end.
WholeAnswerRead == <>(over # "no" /\ (over = "eof" => FromServer(relayed) = answer))
=============================================================================
