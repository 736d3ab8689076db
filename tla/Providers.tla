------------------------------ MODULE Providers ------------------------------
(***************************************************************************)
(* One call of a provider (src/app/providers): complete, which asks for a  *)
(* whole answer, and stream, which reads a native stream line by line      *)
(* (openai, ollama) or asks for a whole answer and hands it out in pieces  *)
(* (BaseProvider.stream: the mocks and anthropic).                         *)
(*                                                                         *)
(* What is left of the server is what arrives from it: whole answers,      *)
(* lines, the end of the stream, or nothing for longer than the client     *)
(* waits.  A text is the number of its characters.  A server's line with   *)
(* content brings one, and its last line ("done", [DONE]) none.            *)
(*                                                                         *)
(* said and reported are not in the code: they are what the server sent,   *)
(* against which what the caller got is judged.                            *)
(***************************************************************************)
EXTENDS Integers, Sequences

CONSTANTS Class,        \* the provider classes
          MaxLines,     \* bound: the lines a server sends in one stream
          MaxText,      \* bound: the longest whole answer
          Step          \* the size of a piece: 24 characters

ASSUME ClassAssumption == Class \subseteq {"mock", "anthropic", "openai", "ollama"}
ASSUME SizeAssumption == MaxLines \in Nat /\ MaxText \in Nat /\ Step \in Nat \ {0}

VARIABLES class, op,    \* whose call it is, and of what: they never change
          pc,           \* how far the call is
          wire,         \* the lines that have arrived and are unread
          server,       \* "sending" or "closed"
          sent,         \* how many lines the server has sent
          text,         \* the whole answer, where there is one
          out,          \* what the caller has got
          said,         \* what the server has said
          reported      \* whether the server reported an error instead

vars == <<class, op, pc, wire, server, sent, text, out, said, reported>>

Line == {"content", "no content", "comment", "error", "garbage", "done"}

AtWork == {"calling", "opening", "reading", "chunking"}
Over == {"returned", "ended", "raised", "left"}

TypeOK ==
    /\ class \in Class /\ op \in {"complete", "stream"}
    /\ pc \in AtWork \cup Over
    /\ wire \in Seq(Line) /\ Len(wire) <= sent /\ sent \in 0 .. MaxLines
    /\ server \in {"sending", "closed"}
    /\ text \in 0 .. MaxText
    /\ out \in IF pc = "chunking" THEN 0 .. text ELSE Nat
    /\ said \in Nat /\ reported \in BOOLEAN

Native == class \in {"openai", "ollama"}

Init ==
    /\ class \in Class /\ op \in {"complete", "stream"}
    /\ pc = IF op = "stream" /\ Native THEN "opening" ELSE "calling"
    /\ wire = <<>> /\ server = "sending" /\ sent = 0
    /\ text = 0 /\ out = 0 /\ said = 0 /\ reported = FALSE

------------------------------------------------------------------------------
(* Mutants: plausible slips in the providers.                               *)
ReadsForEver == FALSE
EndsAtEmptyDelta == {"done", "no content"}

------------------------------------------------------------------------------
call == <<class, op>>

(* complete has its answer: it returns it, or stream goes on to cut it up.  *)
Got(n) ==
    /\ text' = n /\ said' = n
    /\ IF op = "complete" THEN pc' = "returned" /\ out' = n
       ELSE pc' = "chunking" /\ out' = out

(* A mock's answer starts with its name, so it is never empty.              *)
NeverEmpty == class = "mock"
Answers(n) ==
    /\ pc = "calling" /\ (NeverEmpty => n > 0)
    /\ Got(n)
    /\ UNCHANGED <<call, wire, server, sent, reported>>

(* A body that reports an error under a status that does not: openai misses *)
(* "choices" in it and raises, the others find no text and return none.     *)
MissesChoices == class = "openai"
AnswersWithError ==
    /\ pc = "calling" /\ class # "mock"
    /\ reported' = TRUE
    /\ IF MissesChoices THEN pc' = "raised" /\ UNCHANGED <<text, out, said>> ELSE Got(0)
    /\ UNCHANGED <<call, wire, server, sent>>

(* The simulated failure of a mock; no connection, an error status, no      *)
(* answer within 60 seconds (120 in a stream), or no JSON.                  *)
Fails ==
    /\ pc \in {"calling", "opening"}
    /\ pc' = "raised"
    /\ UNCHANGED <<call, wire, server, sent, text, out, said, reported>>

(* range(0, len(text), step).                                               *)
PiecesLeft == out < text
PieceEnd(i) == IF i + Step < text THEN i + Step ELSE text

NextPiece ==
    /\ pc = "chunking" /\ PiecesLeft
    /\ out' = PieceEnd(out)
    /\ UNCHANGED <<call, pc, wire, server, sent, text, said, reported>>

LastPieceIsOut ==
    /\ pc = "chunking" /\ ~PiecesLeft
    /\ pc' = "ended"
    /\ UNCHANGED <<call, wire, server, sent, text, out, said, reported>>

------------------------------------------------------------------------------
(* A native stream.                                                         *)
Opens ==
    /\ pc = "opening"
    /\ pc' = "reading"
    /\ UNCHANGED <<call, wire, server, sent, text, out, said, reported>>

(* "comment" is any line that is no event: an empty one, or for openai one  *)
(* without "data: ".  "garbage" is an event that is no JSON.                *)
Sends(line) ==
    /\ pc = "reading" /\ server = "sending" /\ sent < MaxLines
    /\ wire' = Append(wire, line) /\ sent' = sent + 1
    /\ server' = IF line = "done" THEN "closed" ELSE "sending"
    /\ said' = IF line = "content" THEN said + 1 ELSE said
    /\ reported' = (reported \/ line = "error")
    /\ UNCHANGED <<call, pc, text, out>>

(* The response ends without a last line.                                   *)
Closes ==
    /\ pc = "reading" /\ server = "sending"
    /\ server' = "closed"
    /\ UNCHANGED <<call, pc, wire, sent, text, out, said, reported>>

(* Lines that end the loop, and lines it passes over: an error's has        *)
(* neither "done" nor "message", neither [DONE] nor "choices".              *)
EndMarks == {"done"}
Ignored == {"no content", "comment", "error"}

Yields ==
    /\ pc = "reading" /\ wire # <<>> /\ Head(wire) = "content"
    /\ wire' = Tail(wire) /\ out' = out + 1
    /\ UNCHANGED <<call, pc, server, sent, text, said, reported>>

Skips ==
    /\ pc = "reading" /\ wire # <<>> /\ Head(wire) \in Ignored
    /\ wire' = Tail(wire)
    /\ UNCHANGED <<call, pc, server, sent, text, out, said, reported>>

Ends ==
    /\ pc = "reading"
    /\ \/ wire # <<>> /\ Head(wire) \in EndMarks
       \/ wire = <<>> /\ server = "closed"
    /\ pc' = "ended" /\ wire' = <<>>
    /\ UNCHANGED <<call, server, sent, text, out, said, reported>>

Chokes ==
    /\ pc = "reading" /\ wire # <<>> /\ Head(wire) = "garbage"
    /\ pc' = "raised" /\ wire' = <<>>
    /\ UNCHANGED <<call, server, sent, text, out, said, reported>>

(* The connection breaks, or nothing comes for 120 seconds.  The time is    *)
(* per read: every line starts it anew.                                     *)
MayTimeOut == wire = <<>> /\ server = "sending"
TimesOut ==
    /\ pc = "reading" /\ MayTimeOut
    /\ pc' = "raised"
    /\ UNCHANGED <<call, wire, server, sent, text, out, said, reported>>

(* Whoever consumes a stream goes away: the generator is closed where it    *)
(* waits, and its connection with it.                                       *)
Leaves ==
    /\ op = "stream" /\ pc \in AtWork
    /\ pc' = "left" /\ wire' = <<>>
    /\ UNCHANGED <<call, server, sent, text, out, said, reported>>

Client ==
    \/ Fails \/ NextPiece \/ LastPieceIsOut
    \/ Opens \/ Yields \/ Skips \/ Ends \/ Chokes \/ TimesOut

Next ==
    \/ Client
    \/ \E n \in 0 .. MaxText : Answers(n)
    \/ AnswersWithError
    \/ \E line \in Line : Sends(line)
    \/ Closes
    \/ Leaves

Spec == Init /\ [][Next]_vars

(* The client runs, and its timeouts with it; of the server nothing is      *)
(* expected.                                                                *)
LiveSpec == Spec /\ WF_vars(Client)

------------------------------------------------------------------------------
(* An answer that came to its end is complete: all the server said before   *)
(* its last line was handed out, whatever came between, and of a whole      *)
(* answer every character, once, wherever the pieces are cut.               *)
NothingLost == pc \in {"returned", "ended"} => out = said

(* Every call ends, whatever the server does or fails to do, as long as it  *)
(* sends finitely many lines: fallback and retries wait for nothing else.   *)
CallsEnd == <>(pc \in Over)

(* "mid-stream errors propagate to the caller" (stream_with_fallback): a    *)
(* stream in which the server reported an error after some content does not *)
(* come to a regular end.  The line is passed over, the stream ends, and    *)
(* the cut answer is taken, and cached, for a whole one.                    *)
ErrorsAreRaised == reported /\ out > 0 => pc # "ended"
==============================================================================
