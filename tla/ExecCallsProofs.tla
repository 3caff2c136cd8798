-------------------------- MODULE ExecCallsProofs ---------------------------
(***************************************************************************)
(* Theorems about ExecCalls, for all timeouts, latencies, graces and slacks  *)
(* that leave the client's guard its room and for whatever the command       *)
(* writes: a result is whole, a stream is honest and a call fails only for a *)
(* cause.                                                                    *)
(*                                                                           *)
(* The lines under way are those buffered by readNdjson followed by those on *)
(* the wire.  The argument about them is in two layers: lemmas on a sequence *)
(* of pieces alone (it grows by a line, is cut, loses its first line), and   *)
(* the invariant LineInv that says where each stream stands in it.           *)
(***************************************************************************)
EXTENDS ExecCalls, SequenceTheorems, TLAPS

(* A line of kind s that carries m starts at place j of b. *)
Starts(b, j, s, m) == b[j].part = 1 /\ b[j].kind = s /\ b[j].n = m

(* Pieces come in pairs, from the start of a line on ... *)
Paired(b) ==
  /\ Len(b) > 0 => b[1].part = 1
  /\ \A i \in 1..Len(b) : i + 1 <= Len(b) => b[i].part # b[i + 1].part

(* ... and while the connection works the last line is whole. *)
Closed(b) == Len(b) > 0 => b[Len(b)].part = 2

(* Of the chunks of s, those after got and up to sent are under way, each in    *)
(* its turn: none is overtaken and none is missing before another one.          *)
InTurn(b, s, got, sent) ==
  \A i \in 1..Len(b) : b[i].part = 1 /\ b[i].kind = s =>
    /\ got < b[i].n /\ b[i].n <= sent
    /\ \A m \in Nat : got < m /\ m < b[i].n => \E j \in 1..Len(b) : j < i /\ Starts(b, j, s, m)
    /\ \A j \in 1..Len(b) : j < i /\ b[j].part = 1 /\ b[j].kind = s => b[j].n < b[i].n

Complete(b, s, got, sent) ==
  \A m \in Nat : got < m /\ m <= sent => \E j \in 1..Len(b) : Starts(b, j, s, m)

-----------------------------------------------------------------------------
Underway == client.buffered \o wire
Tracked == IF call.mode = "run" THEN Stream ELSE {"stdout"}
Got(s) == IF s = "stdout" THEN client.stdout ELSE client.stderr
Sent(s) == command.written[s] - Len(pipes[s])

(* What is in the pipes follows what was sent. *)
PipeInv ==
  \A s \in Stream :
    /\ Len(pipes[s]) <= command.written[s]
    /\ \A k \in 1..Len(pipes[s]) : pipes[s][k] = Sent(s) + k

(* What was collected is a beginning of what was sent. *)
GotInv ==
  \A s \in Tracked :
    /\ Len(Got(s)) <= Sent(s)
    /\ \A i \in 1..Len(Got(s)) : Got(s)[i] = i

LineInv ==
  client.pc # "over" =>
    /\ Paired(Underway)
    /\ conn = "open" => Closed(Underway)
    /\ \A s \in Tracked :
         /\ InTurn(Underway, s, Len(Got(s)), Sent(s))
         /\ conn = "open" => Complete(Underway, s, Len(Got(s)), Sent(s))

(* Which last word the handler said. *)
WordInv ==
  /\ \A i \in 1..Len(Underway) :
       /\ Underway[i].kind = "refusal" => handler.pc = "refused"
       /\ Underway[i].kind = "error" => handler.pc = "erred"
  /\ handler.pc = "answered" /\ conn = "open" /\ client.pc # "over" =>
       \/ client.exit # "none"
       \/ \E i \in 1..Len(Underway) : Underway[i].part = 1 /\ Underway[i].kind = "exit"

(* Where the two programs, the command and the connection stand. *)
PlaceInv ==
  /\ client.pc = "idle" => handler.pc = "idle" /\ wire = << >>
  /\ client.pc = "idle" <=> conn = "idle"
  /\ client.pc \in {"idle", "sent"} => client.buffered = << >>
  /\ handler.pc = "idle" =>
       /\ handler.ctx = "open" /\ command.state = "unborn"
       /\ \A s \in Stream : pipes[s] = << >> /\ command.written[s] = 0
  /\ handler.ctx = "cancelled" => conn # "open"
  /\ handler.pc = "serving" => command.state # "unborn"
  /\ handler.pc \in {"answered", "erred"} =>
       command.state = "ended" /\ \A s \in Stream : pipes[s] = << >>
  /\ "guard" \in DOMAIN timers => client.pc \in {"sent", "reading"} /\ call.timeout # Never
  /\ conn \in {"lost", "silent"} => faulty
  /\ conn = "aborted" /\ call.mode = "run" => faulty

(* The client's guard outlasts whatever still has to happen. *)
GuardInv ==
  call.mode = "run" /\ call.timeout # Never /\ client.pc \in {"sent", "reading"}
    /\ conn = "open" =>
    /\ "guard" \in DOMAIN timers
    /\ handler.pc = "idle" =>
         /\ "request" \in DOMAIN timers
         /\ timers["guard"] + Latency = timers["request"] + call.timeout + Slack
    /\ handler.pc = "serving" /\ handler.ctx = "open" =>
         /\ "deadline" \in DOMAIN timers
         /\ timers["guard"] + Latency >= timers["deadline"] + Slack
    /\ handler.pc = "serving" /\ handler.ctx = "expired" =>
         \/ /\ "grace" \in DOMAIN timers
            /\ timers["guard"] + Latency + Grace >= timers["grace"] + Slack
         \/ command.killed /\ timers["guard"] + Latency + Grace >= Slack
    /\ handler.pc \in {"answered", "erred", "refused"} =>
         "answer" \in DOMAIN timers /\ timers["answer"] < timers["guard"]

(* What an outcome tells. *)
OutcomeInv ==
  /\ client.outcome # "none" => client.pc = "over"
  /\ client.outcome \in {"result", "timedOut"} =>
       /\ call.mode = "run" /\ command.state = "ended"
       /\ \A s \in Stream : Len(Got(s)) = command.written[s]
  /\ client.outcome = "closed" /\ conn # "aborted" =>
       command.state = "ended" /\ Len(client.stdout) = command.written["stdout"]
  /\ FailsOnlyForCause

Inv == TypeOK /\ PipeInv /\ GotInv /\ LineInv /\ WordInv /\ PlaceInv /\ GuardInv /\ OutcomeInv

-----------------------------------------------------------------------------
(* Sequences of pieces. *)
LEMMA PieceFacts ==
  ASSUME NEW b \in Seq(Piece), NEW i \in 1..Len(b)
  PROVE  b[i] \in Piece /\ b[i].kind \in Kind /\ b[i].n \in Nat /\ b[i].part \in 1..2
<1>1. b[i] \in Piece
  OBVIOUS
<1> QED
  BY <1>1 DEF Piece

LEMMA LineFacts ==
  ASSUME NEW b \in Seq(Piece), NEW kind \in Kind,
         NEW n \in Nat
  PROVE  /\ Line(kind, n) \in Seq(Piece)
         /\ b \o Line(kind, n) \in Seq(Piece)
         /\ Len(b \o Line(kind, n)) = Len(b) + 2
         /\ \A i \in 1..Len(b) : (b \o Line(kind, n))[i] = b[i]
         /\ (b \o Line(kind, n))[Len(b) + 1] = [kind |-> kind, n |-> n, part |-> 1]
         /\ (b \o Line(kind, n))[Len(b) + 2] = [kind |-> kind, n |-> n, part |-> 2]
<1> DEFINE p == [kind |-> kind, n |-> n, part |-> 1]
           q == [kind |-> kind, n |-> n, part |-> 2]
<1>1. p \in Piece /\ q \in Piece
  BY DEF Piece, Kind
<1>2. Line(kind, n) = <<p, q>>
  BY DEF Line
<1> HIDE DEF p, q
<1>3. <<p, q>> \in Seq(Piece) /\ Len(<<p, q>>) = 2 /\ <<p, q>>[1] = p /\ <<p, q>>[2] = q
  BY <1>1
<1>4. /\ b \o <<p, q>> \in Seq(Piece)
      /\ Len(b \o <<p, q>>) = Len(b) + 2
      /\ \A i \in 1..Len(b) : (b \o <<p, q>>)[i] = b[i]
      /\ (b \o <<p, q>>)[Len(b) + 1] = p
      /\ (b \o <<p, q>>)[Len(b) + 2] = q
  BY <1>1, <1>3
<1> QED
  BY <1>2, <1>3, <1>4 DEF p, q

LEMMA CutFacts ==
  ASSUME NEW b \in Seq(Piece), NEW n \in 0..Len(b)
  PROVE  /\ SubSeq(b, 1, n) \in Seq(Piece)
         /\ Len(SubSeq(b, 1, n)) = n
         /\ \A i \in 1..n : SubSeq(b, 1, n)[i] = b[i]
  OBVIOUS

LEMMA DropFacts ==
  ASSUME NEW b \in Seq(Piece), Len(b) >= 2
  PROVE  /\ SubSeq(b, 3, Len(b)) \in Seq(Piece)
         /\ Len(SubSeq(b, 3, Len(b))) = Len(b) - 2
         /\ \A i \in 1..(Len(b) - 2) : SubSeq(b, 3, Len(b))[i] = b[i + 2]
<1> DEFINE x == SubSeq(b, 3, Len(b))
           N == Len(b)
<1>1. N \in Nat /\ N >= 2 /\ \A i \in 3..N : b[i] \in Piece
  OBVIOUS
<1>2. /\ x \in Seq(Piece)
      /\ Len(x) = IF 3 <= N THEN N - 3 + 1 ELSE 0
      /\ \A i \in 1..(N - 3 + 1) : x[i] = b[3 + i - 1]
  BY <1>1, SubSeqProperties
<1> HIDE DEF x, N
<1>3. Len(x) = N - 2 /\ N - 3 + 1 = N - 2
  BY <1>1, <1>2
<1>4. ASSUME NEW i \in 1..(N - 2) PROVE x[i] = b[i + 2]
  <2>1. x[i] = b[3 + i - 1] /\ 3 + i - 1 = i + 2
    BY <1>1, <1>2, <1>3
  <2> QED
    BY <2>1
<1> QED
  BY <1>2, <1>3, <1>4 DEF x, N

(* Where the pieces are read from makes no difference. *)
LEMMA GrowSame ==
  ASSUME NEW b \in Seq(Piece), NEW w \in Seq(Piece), NEW x \in Seq(Piece)
  PROVE  b \o (w \o x) = (b \o w) \o x
  OBVIOUS

LEMMA ChunkSame ==
  ASSUME NEW b \in Seq(Piece), NEW w \in Seq(Piece), NEW n \in 1..Len(w)
  PROVE  /\ b \o SubSeq(w, 1, n) \in Seq(Piece)
         /\ SubSeq(w, n + 1, Len(w)) \in Seq(Piece)
         /\ (b \o SubSeq(w, 1, n)) \o SubSeq(w, n + 1, Len(w)) = b \o w
<1> DEFINE x == SubSeq(w, 1, n)
           y == SubSeq(w, n + 1, Len(w))
<1>1. x \in Seq(Piece) /\ Len(x) = n /\ \A i \in 1..n : x[i] = w[i]
  BY SubSeqProperties
<1>2. y \in Seq(Piece) /\ Len(y) = Len(w) - n /\ \A i \in 1..(Len(w) - n) : y[i] = w[n + i]
  BY SubSeqProperties
<1> HIDE DEF x, y
<1>3. b \o x \in Seq(Piece) /\ Len(b \o x) = Len(b) + n
  BY <1>1
<1>4. x \o y = w
  <2>1. /\ x \o y \in Seq(Piece) /\ Len(x \o y) = Len(w) /\ Len(w) \in Nat
        /\ \A i \in 1..Len(w) : (x \o y)[i] = IF i <= n THEN x[i] ELSE y[i - n]
    <3>1. /\ x \o y \in Seq(Piece) /\ Len(x \o y) = Len(x) + Len(y)
          /\ \A i \in 1..(Len(x) + Len(y)) :
               (x \o y)[i] = IF i <= Len(x) THEN x[i] ELSE y[i - Len(x)]
      BY <1>1, <1>2, ConcatProperties
    <3>2. Len(w) \in Nat /\ Len(x) + Len(y) = Len(w)
      BY <1>1, <1>2
    <3> QED
      BY <1>1, <3>1, <3>2
  <2>2. ASSUME NEW i \in 1..Len(w) PROVE (x \o y)[i] = w[i]
    <3>1. CASE i <= n
      BY <1>1, <2>1, <3>1
    <3>2. CASE ~(i <= n)
      <4>1. i - n \in 1..(Len(w) - n) /\ n + (i - n) = i
        BY <2>1, <3>2
      <4> QED
        BY <1>2, <2>1, <3>2, <4>1
    <3> QED
      BY <3>1, <3>2
  <2> QED
    BY <2>1, <2>2, SeqEqual
<1>5. (b \o x) \o y = b \o (x \o y)
  BY <1>1, <1>2, GrowSame
<1> QED
  BY <1>2, <1>3, <1>4, <1>5 DEF x, y

LEMMA CutSame ==
  ASSUME NEW b \in Seq(Piece), NEW w \in Seq(Piece), NEW n \in 0..Len(w)
  PROVE  /\ Len(b \o w) = Len(b) + Len(w)
         /\ Len(b) + n \in 0..Len(b \o w)
         /\ b \o SubSeq(w, 1, n) = SubSeq(b \o w, 1, Len(b) + n)
  OBVIOUS

LEMMA DropSame ==
  ASSUME NEW b \in Seq(Piece), NEW w \in Seq(Piece), Len(b) >= 2
  PROVE  /\ Len(b \o w) >= 2
         /\ \A i \in 1..Len(b) : (b \o w)[i] = b[i]
         /\ SubSeq(b, 3, Len(b)) \o w = SubSeq(b \o w, 3, Len(b \o w))
<1> DEFINE x == SubSeq(b, 3, Len(b))
           y == SubSeq(b \o w, 3, Len(b \o w))
<1>1. /\ b \o w \in Seq(Piece) /\ Len(b \o w) = Len(b) + Len(w)
      /\ \A i \in 1..Len(b) : (b \o w)[i] = b[i]
      /\ \A i \in 1..Len(w) : (b \o w)[Len(b) + i] = w[i]
  OBVIOUS
<1>2. x \in Seq(Piece) /\ Len(x) = Len(b) - 2 /\ \A i \in 1..(Len(b) - 2) : x[i] = b[i + 2]
  BY DropFacts
<1>3. /\ y \in Seq(Piece) /\ Len(y) = Len(b) + Len(w) - 2
      /\ \A i \in 1..(Len(b) + Len(w) - 2) : y[i] = (b \o w)[i + 2]
  BY <1>1, DropFacts
<1> HIDE DEF x, y
<1>4. x \o w \in Seq(Piece) /\ Len(x \o w) = Len(y)
  <2>1. x \o w \in Seq(Piece) /\ Len(x \o w) = Len(x) + Len(w)
    BY <1>2, ConcatProperties
  <2> QED
    BY <1>2, <1>3, <2>1
<1>5. ASSUME NEW i \in 1..Len(y) PROVE (x \o w)[i] = y[i]
  <2>1. CASE i <= Len(x)
    BY <1>1, <1>2, <1>3, <2>1
  <2>2. CASE i > Len(x)
    <3>1. i - Len(x) \in 1..Len(w) /\ (x \o w)[i] = w[i - Len(x)]
      BY <1>2, <1>3, <2>2
    <3>2. i + 2 = Len(b) + (i - Len(x))
      BY <1>2
    <3> QED
      BY <1>1, <1>3, <3>1, <3>2
  <2> QED
    BY <1>2, <1>3, <2>1, <2>2
<1>6. x \o w = y
  BY <1>3, <1>4, <1>5, SeqEqual
<1>7. Len(b \o w) >= 2
  BY <1>1
<1> QED
  BY <1>1, <1>6, <1>7 DEF x, y

-----------------------------------------------------------------------------
(* A line is added ... *)
LEMMA GrowPairs ==
  ASSUME NEW b \in Seq(Piece), NEW kind \in Kind,
         NEW n \in Nat, Paired(b), Closed(b)
  PROVE  Paired(b \o Line(kind, n)) /\ Closed(b \o Line(kind, n))
<1> DEFINE c == b \o Line(kind, n)
<1>1. /\ c \in Seq(Piece) /\ Len(c) = Len(b) + 2
      /\ \A i \in 1..Len(b) : c[i] = b[i]
      /\ c[Len(b) + 1] = [kind |-> kind, n |-> n, part |-> 1]
      /\ c[Len(b) + 2] = [kind |-> kind, n |-> n, part |-> 2]
  BY LineFacts, Zenon
<1> HIDE DEF c
<1>2. Closed(c) /\ (Len(c) > 0 => c[1].part = 1)
  BY <1>1 DEF Paired, Closed
<1>3. ASSUME NEW i \in 1..Len(c), i + 1 <= Len(c) PROVE c[i].part # c[i + 1].part
  <2>1. CASE i < Len(b)
    BY <1>1, <1>3, <2>1 DEF Paired
  <2>2. CASE i = Len(b)
    BY <1>1, <1>3, <2>2 DEF Closed
  <2>3. CASE i = Len(b) + 1
    BY <1>1, <1>3, <2>3
  <2> QED
    BY <1>1, <1>3, <2>1, <2>2, <2>3
<1>4. Paired(c)
  BY <1>2, <1>3 DEF Paired
<1> QED
  BY <1>2, <1>4 DEF c

LEMMA GrowOther ==
  ASSUME NEW b \in Seq(Piece), NEW kind \in Kind,
         NEW n \in Nat, NEW s \in Stream, s # kind, NEW got \in Nat, NEW sent \in Nat,
         InTurn(b, s, got, sent), Complete(b, s, got, sent)
  PROVE  /\ InTurn(b \o Line(kind, n), s, got, sent)
         /\ Complete(b \o Line(kind, n), s, got, sent)
<1> DEFINE c == b \o Line(kind, n)
<1>1. /\ c \in Seq(Piece) /\ Len(c) = Len(b) + 2
      /\ \A i \in 1..Len(b) : c[i] = b[i]
      /\ c[Len(b) + 1] = [kind |-> kind, n |-> n, part |-> 1]
      /\ c[Len(b) + 2] = [kind |-> kind, n |-> n, part |-> 2]
  BY LineFacts, Zenon
<1> HIDE DEF c
<1>2. \A i \in 1..Len(c) : c[i].kind = s => i \in 1..Len(b) /\ c[i] = b[i]
  BY <1>1
<1>3. 1..Len(b) \subseteq 1..Len(c)
  BY <1>1
<1>4. InTurn(c, s, got, sent)
  <2> SUFFICES ASSUME NEW i \in 1..Len(c), c[i].part = 1, c[i].kind = s
               PROVE  /\ got < c[i].n /\ c[i].n <= sent
                      /\ \A m \in Nat : got < m /\ m < c[i].n =>
                           \E j \in 1..Len(c) : j < i /\ Starts(c, j, s, m)
                      /\ \A j \in 1..Len(c) :
                           j < i /\ c[j].part = 1 /\ c[j].kind = s => c[j].n < c[i].n
    BY DEF InTurn
  <2>1. i \in 1..Len(b) /\ c[i] = b[i]
    BY <1>2
  <2>2. got < b[i].n /\ b[i].n <= sent
    BY <2>1 DEF InTurn
  <2>3. ASSUME NEW m \in Nat, got < m, m < b[i].n
        PROVE  \E j \in 1..Len(c) : j < i /\ Starts(c, j, s, m)
    <3>1. PICK j \in 1..Len(b) : j < i /\ Starts(b, j, s, m)
      BY <2>1, <2>3 DEF InTurn
    <3> QED
      BY <1>1, <1>3, <3>1 DEF Starts
  <2>4. ASSUME NEW j \in 1..Len(c), j < i, c[j].part = 1, c[j].kind = s
        PROVE  c[j].n < b[i].n
    BY <1>2, <2>1, <2>4 DEF InTurn
  <2> QED
    BY <2>1, <2>2, <2>3, <2>4
<1>5. Complete(c, s, got, sent)
  BY <1>1, <1>3 DEF Complete, Starts
<1> QED
  BY <1>4, <1>5 DEF c

LEMMA GrowOwn ==
  ASSUME NEW b \in Seq(Piece), NEW s \in Stream, NEW got \in Nat, NEW sent \in Nat, got <= sent,
         InTurn(b, s, got, sent), Complete(b, s, got, sent)
  PROVE  /\ InTurn(b \o Line(s, sent + 1), s, got, sent + 1)
         /\ Complete(b \o Line(s, sent + 1), s, got, sent + 1)
<1> DEFINE c == b \o Line(s, sent + 1)
<1>0. sent + 1 \in Nat /\ s \in Kind
  BY DEF Kind
<1>1. /\ c \in Seq(Piece) /\ Len(c) = Len(b) + 2
      /\ \A i \in 1..Len(b) : c[i] = b[i]
      /\ c[Len(b) + 1] = [kind |-> s, n |-> sent + 1, part |-> 1]
      /\ c[Len(b) + 2] = [kind |-> s, n |-> sent + 1, part |-> 2]
  BY <1>0, LineFacts, Zenon
<1> HIDE DEF c
<1>2. Len(b) + 1 \in 1..Len(c) /\ Starts(c, Len(b) + 1, s, sent + 1)
  BY <1>1 DEF Starts
<1>3. \A i \in 1..Len(b) : i \in 1..Len(c) /\ b[i].n \in Nat
  BY <1>1, PieceFacts
<1>4. \A i \in 1..Len(c) : c[i].part = 1 => i \in 1..Len(b) \/ i = Len(b) + 1
  BY <1>1
<1>5. ASSUME NEW m \in Nat, got < m, m <= sent
      PROVE  \E j \in 1..Len(b) : j \in 1..Len(c) /\ Starts(c, j, s, m)
  <2>1. PICK j \in 1..Len(b) : Starts(b, j, s, m)
    BY <1>5 DEF Complete
  <2> QED
    BY <1>1, <1>3, <2>1 DEF Starts
<1>6. Complete(c, s, got, sent + 1)
  <2> SUFFICES ASSUME NEW m \in Nat, got < m, m <= sent + 1
               PROVE  \E j \in 1..Len(c) : Starts(c, j, s, m)
    BY DEF Complete
  <2>1. CASE m = sent + 1
    BY <1>2, <2>1
  <2>2. CASE m <= sent
    BY <1>5, <2>2
  <2> QED
    BY <2>1, <2>2
<1>7. ASSUME NEW i \in 1..Len(c), c[i].part = 1, c[i].kind = s
      PROVE  /\ got < c[i].n /\ c[i].n <= sent + 1
             /\ \A m \in Nat : got < m /\ m < c[i].n =>
                  \E j \in 1..Len(c) : j < i /\ Starts(c, j, s, m)
             /\ \A j \in 1..Len(c) : j < i /\ c[j].part = 1 /\ c[j].kind = s => c[j].n < c[i].n
  <2>1. CASE i \in 1..Len(b)
    <3>1. c[i] = b[i] /\ b[i].part = 1 /\ b[i].kind = s /\ b[i].n \in Nat
      BY <1>1, <1>3, <1>7, <2>1
    <3>2. got < b[i].n /\ b[i].n <= sent
      BY <2>1, <3>1 DEF InTurn
    <3>3. ASSUME NEW m \in Nat, got < m, m < b[i].n
          PROVE  \E j \in 1..Len(c) : j < i /\ Starts(c, j, s, m)
      <4>1. PICK j \in 1..Len(b) : j < i /\ Starts(b, j, s, m)
        BY <2>1, <3>1, <3>3 DEF InTurn
      <4> QED
        BY <1>1, <1>3, <4>1 DEF Starts
    <3>4. ASSUME NEW j \in 1..Len(c), j < i, c[j].part = 1, c[j].kind = s
          PROVE  c[j].n < b[i].n
      <4>1. j \in 1..Len(b) /\ c[j] = b[j]
        BY <1>1, <2>1, <3>4
      <4> QED
        BY <2>1, <3>1, <3>4, <4>1 DEF InTurn
    <3> QED
      BY <3>1, <3>2, <3>3, <3>4
  <2>2. CASE i = Len(b) + 1
    <3>1. c[i].n = sent + 1
      BY <1>1, <2>2
    <3>2. ASSUME NEW m \in Nat, got < m, m < c[i].n
          PROVE  \E j \in 1..Len(c) : j < i /\ Starts(c, j, s, m)
      <4>1. PICK j \in 1..Len(b) : j \in 1..Len(c) /\ Starts(c, j, s, m)
        BY <1>5, <3>1, <3>2
      <4> QED
        BY <2>2, <4>1
    <3>3. ASSUME NEW j \in 1..Len(c), j < i, c[j].part = 1, c[j].kind = s
          PROVE  c[j].n < c[i].n
      <4>1. j \in 1..Len(b) /\ c[j] = b[j]
        BY <1>1, <2>2, <3>3
      <4>2. b[j].n <= sent /\ b[j].n \in Nat
        BY <1>3, <3>3, <4>1 DEF InTurn
      <4> QED
        BY <3>1, <4>1, <4>2
    <3>4. got < c[i].n /\ c[i].n <= sent + 1
      BY <3>1
    <3> QED
      BY <3>2, <3>3, <3>4
  <2> QED
    BY <1>4, <1>7, <2>1, <2>2
<1>8. InTurn(c, s, got, sent + 1)
  BY <1>7 DEF InTurn
<1> QED
  BY <1>6, <1>8 DEF c

(* ... the rest is lost ... *)
LEMMA CutPairs ==
  ASSUME NEW b \in Seq(Piece), NEW n \in 0..Len(b), Paired(b)
  PROVE  Paired(SubSeq(b, 1, n))
<1> DEFINE c == SubSeq(b, 1, n)
<1>1. c \in Seq(Piece) /\ Len(c) = n /\ \A i \in 1..n : c[i] = b[i]
  BY CutFacts
<1> HIDE DEF c
<1>2. Len(c) > 0 => c[1].part = 1
  BY <1>1 DEF Paired
<1>3. ASSUME NEW i \in 1..Len(c), i + 1 <= Len(c) PROVE c[i].part # c[i + 1].part
  <2>1. i \in 1..Len(b) /\ i + 1 <= Len(b) /\ c[i] = b[i] /\ c[i + 1] = b[i + 1]
    BY <1>1, <1>3
  <2> QED
    BY <2>1 DEF Paired
<1>4. Paired(c)
  BY <1>2, <1>3 DEF Paired
<1> QED
  BY <1>4 DEF c

LEMMA CutInTurn ==
  ASSUME NEW b \in Seq(Piece), NEW n \in 0..Len(b), NEW s, NEW got, NEW sent,
         InTurn(b, s, got, sent)
  PROVE  InTurn(SubSeq(b, 1, n), s, got, sent)
<1> DEFINE c == SubSeq(b, 1, n)
<1>1. c \in Seq(Piece) /\ Len(c) = n /\ \A i \in 1..n : c[i] = b[i]
  BY CutFacts
<1> HIDE DEF c
<1>2. \A i \in 1..n : i \in 1..Len(b) /\ \A j \in 1..Len(b) : j < i => j \in 1..n
  OBVIOUS
<1>3. InTurn(c, s, got, sent)
  BY <1>1, <1>2 DEF InTurn, Starts
<1> QED
  BY <1>3 DEF c

(* ... or the first line is taken off. *)
LEMMA DropPairs ==
  ASSUME NEW b \in Seq(Piece), Len(b) >= 2, Paired(b)
  PROVE  /\ b[1].part = 1 /\ b[2].part = 2
         /\ Paired(SubSeq(b, 3, Len(b)))
         /\ Closed(b) => Closed(SubSeq(b, 3, Len(b)))
<1> DEFINE c == SubSeq(b, 3, Len(b))
<1>1. c \in Seq(Piece) /\ Len(c) = Len(b) - 2 /\ \A i \in 1..(Len(b) - 2) : c[i] = b[i + 2]
  BY DropFacts
<1> HIDE DEF c
<1>2. \A i \in 1..Len(b) : b[i].part \in 1..2
  BY PieceFacts
<1>3. b[1].part = 1 /\ b[2].part = 2
  BY <1>2 DEF Paired
<1>4. Len(c) > 0 => c[1].part = 1
  <2>0. Len(b) \in Nat /\ 2 \in 1..Len(b) /\ 2 + 1 = 3 /\ (Len(b) >= 3 => 3 \in 1..Len(b))
    OBVIOUS
  <2>1. Len(b) >= 3 => b[2].part # b[3].part /\ b[3].part \in 1..2
    BY <1>2, <2>0 DEF Paired
  <2> QED
    BY <1>1, <1>3, <2>1
<1>5. ASSUME NEW i \in 1..Len(c), i + 1 <= Len(c) PROVE c[i].part # c[i + 1].part
  <2>1. c[i] = b[i + 2] /\ c[i + 1] = b[(i + 2) + 1]
    BY <1>1, <1>5
  <2>2. i + 2 \in 1..Len(b) /\ (i + 2) + 1 <= Len(b)
    BY <1>1, <1>5
  <2> QED
    BY <2>1, <2>2 DEF Paired
<1>6. Closed(b) => Closed(c)
  BY <1>1 DEF Closed
<1>7. Paired(c)
  BY <1>4, <1>5 DEF Paired
<1> QED
  BY <1>3, <1>6, <1>7 DEF c

LEMMA DropOther ==
  ASSUME NEW b \in Seq(Piece), Len(b) >= 2, Paired(b), NEW s, NEW got, NEW sent,
         InTurn(b, s, got, sent), b[1].kind # s
  PROVE  /\ InTurn(SubSeq(b, 3, Len(b)), s, got, sent)
         /\ Complete(b, s, got, sent) => Complete(SubSeq(b, 3, Len(b)), s, got, sent)
<1> DEFINE c == SubSeq(b, 3, Len(b))
<1>1. c \in Seq(Piece) /\ Len(c) = Len(b) - 2 /\ \A i \in 1..(Len(b) - 2) : c[i] = b[i + 2]
  BY DropFacts
<1> HIDE DEF c
<1>2. b[2].part = 2
  BY DropPairs
<1>3. ASSUME NEW j \in 1..Len(b), NEW m, Starts(b, j, s, m)
      PROVE  j - 2 \in 1..Len(c) /\ Starts(c, j - 2, s, m)
  <2>1. j # 1 /\ j # 2
    BY <1>2, <1>3 DEF Starts
  <2>2. j - 2 \in 1..(Len(b) - 2) /\ (j - 2) + 2 = j
    BY <2>1
  <2> QED
    BY <1>1, <1>3, <2>2 DEF Starts
<1>4. \A i \in 1..Len(c) : i + 2 \in 1..Len(b) /\ c[i] = b[i + 2]
  BY <1>1
<1>5. InTurn(c, s, got, sent)
  <2> SUFFICES ASSUME NEW i \in 1..Len(c), c[i].part = 1, c[i].kind = s
               PROVE  /\ got < c[i].n /\ c[i].n <= sent
                      /\ \A m \in Nat : got < m /\ m < c[i].n =>
                           \E j \in 1..Len(c) : j < i /\ Starts(c, j, s, m)
                      /\ \A j \in 1..Len(c) :
                           j < i /\ c[j].part = 1 /\ c[j].kind = s => c[j].n < c[i].n
    BY DEF InTurn
  <2>1. i + 2 \in 1..Len(b) /\ c[i] = b[i + 2]
    BY <1>4
  <2>2. got < c[i].n /\ c[i].n <= sent
    BY <2>1 DEF InTurn
  <2>3. ASSUME NEW m \in Nat, got < m, m < c[i].n
        PROVE  \E j \in 1..Len(c) : j < i /\ Starts(c, j, s, m)
    <3>1. PICK j \in 1..Len(b) : j < i + 2 /\ Starts(b, j, s, m)
      BY <2>1, <2>3 DEF InTurn
    <3>2. j - 2 \in 1..Len(c) /\ Starts(c, j - 2, s, m) /\ j - 2 < i
      BY <1>3, <3>1
    <3> QED
      BY <3>2
  <2>4. ASSUME NEW j \in 1..Len(c), j < i, c[j].part = 1, c[j].kind = s
        PROVE  c[j].n < c[i].n
    <3>1. j + 2 \in 1..Len(b) /\ j + 2 < i + 2 /\ c[j] = b[j + 2]
      BY <1>4, <2>4
    <3> QED
      BY <2>1, <2>4, <3>1 DEF InTurn
  <2> QED
    BY <2>2, <2>3, <2>4
<1>6. ASSUME Complete(b, s, got, sent) PROVE Complete(c, s, got, sent)
  <2> SUFFICES ASSUME NEW m \in Nat, got < m, m <= sent
               PROVE  \E j \in 1..Len(c) : Starts(c, j, s, m)
    BY DEF Complete
  <2>1. PICK j \in 1..Len(b) : Starts(b, j, s, m)
    BY <1>6 DEF Complete
  <2> QED
    BY <1>3, <2>1
<1> QED
  BY <1>5, <1>6 DEF c

LEMMA DropOwn ==
  ASSUME NEW b \in Seq(Piece), Len(b) >= 2, Paired(b), NEW s, NEW got \in Nat, NEW sent \in Nat,
         InTurn(b, s, got, sent), b[1].kind = s
  PROVE  /\ b[1].n = got + 1 /\ got + 1 <= sent
         /\ InTurn(SubSeq(b, 3, Len(b)), s, got + 1, sent)
         /\ Complete(b, s, got, sent) => Complete(SubSeq(b, 3, Len(b)), s, got + 1, sent)
<1> DEFINE c == SubSeq(b, 3, Len(b))
<1>1. c \in Seq(Piece) /\ Len(c) = Len(b) - 2 /\ \A i \in 1..(Len(b) - 2) : c[i] = b[i + 2]
  BY DropFacts
<1> HIDE DEF c
<1>2. b[1].part = 1 /\ b[2].part = 2
  BY DropPairs
<1>3. b[1].n = got + 1 /\ got + 1 <= sent
  <2>1. 1 \in 1..Len(b) /\ b[1].n \in Nat
    BY PieceFacts
  <2>2. got < b[1].n /\ b[1].n <= sent
    BY <1>2, <2>1 DEF InTurn
  <2>3. ~(got + 1 < b[1].n)
    <3> SUFFICES ASSUME got + 1 < b[1].n PROVE FALSE
      OBVIOUS
    <3>1. got + 1 \in Nat /\ got < got + 1
      OBVIOUS
    <3>2. PICK j \in 1..Len(b) : j < 1 /\ Starts(b, j, s, got + 1)
      BY <1>2, <2>1, <3>1 DEF InTurn
    <3> QED
      BY <3>2
  <2> QED
    BY <2>1, <2>2, <2>3
<1>4. ASSUME NEW j \in 1..Len(b), NEW m \in Nat, Starts(b, j, s, m), got + 1 < m
      PROVE  j - 2 \in 1..Len(c) /\ Starts(c, j - 2, s, m)
  <2>1. j # 1 /\ j # 2
    BY <1>2, <1>3, <1>4 DEF Starts
  <2>2. j - 2 \in 1..(Len(b) - 2) /\ (j - 2) + 2 = j
    BY <2>1
  <2> QED
    BY <1>1, <1>4, <2>2 DEF Starts
<1>5. \A i \in 1..Len(c) : i + 2 \in 1..Len(b) /\ c[i] = b[i + 2]
  BY <1>1
<1>6. InTurn(c, s, got + 1, sent)
  <2> SUFFICES ASSUME NEW i \in 1..Len(c), c[i].part = 1, c[i].kind = s
               PROVE  /\ got + 1 < c[i].n /\ c[i].n <= sent
                      /\ \A m \in Nat : got + 1 < m /\ m < c[i].n =>
                           \E j \in 1..Len(c) : j < i /\ Starts(c, j, s, m)
                      /\ \A j \in 1..Len(c) :
                           j < i /\ c[j].part = 1 /\ c[j].kind = s => c[j].n < c[i].n
    BY DEF InTurn
  <2>1. i + 2 \in 1..Len(b) /\ c[i] = b[i + 2] /\ 1 \in 1..Len(b) /\ 1 < i + 2
    BY <1>5
  <2>2. b[1].n < c[i].n /\ c[i].n <= sent
    BY <1>2, <2>1 DEF InTurn
  <2>3. ASSUME NEW m \in Nat, got + 1 < m, m < c[i].n
        PROVE  \E j \in 1..Len(c) : j < i /\ Starts(c, j, s, m)
    <3>0. got < m
      BY <2>3
    <3>1. PICK j \in 1..Len(b) : j < i + 2 /\ Starts(b, j, s, m)
      BY <2>1, <2>3, <3>0 DEF InTurn
    <3>2. j - 2 \in 1..Len(c) /\ Starts(c, j - 2, s, m)
      BY <1>4, <2>3, <3>1
    <3>3. j - 2 < i
      BY <3>1
    <3> QED
      BY <3>2, <3>3
  <2>4. ASSUME NEW j \in 1..Len(c), j < i, c[j].part = 1, c[j].kind = s
        PROVE  c[j].n < c[i].n
    <3>1. j + 2 \in 1..Len(b) /\ j + 2 < i + 2 /\ c[j] = b[j + 2]
      BY <1>5, <2>4
    <3> QED
      BY <2>1, <2>4, <3>1 DEF InTurn
  <2> QED
    BY <1>3, <2>2, <2>3, <2>4
<1>7. ASSUME Complete(b, s, got, sent) PROVE Complete(c, s, got + 1, sent)
  <2> SUFFICES ASSUME NEW m \in Nat, got + 1 < m, m <= sent
               PROVE  \E j \in 1..Len(c) : Starts(c, j, s, m)
    BY DEF Complete
  <2>0. got < m
    OBVIOUS
  <2>1. PICK j \in 1..Len(b) : Starts(b, j, s, m)
    BY <1>7, <2>0 DEF Complete
  <2> QED
    BY <1>4, <2>1
<1> QED
  BY <1>3, <1>6, <1>7 DEF c

-----------------------------------------------------------------------------
(* The parts of a state. *)
LEMMA Types ==
  ASSUME TypeOK
  PROVE  /\ client.pc \in {"idle", "sent", "reading", "over"}
         /\ client.buffered \in Seq(Piece) /\ wire \in Seq(Piece) /\ Underway \in Seq(Piece)
         /\ client.exit \in {"none", "own", "late"}
         /\ client.stdout \in Seq(Nat) /\ client.stderr \in Seq(Nat)
         /\ handler.pc \in {"idle", "serving", "answered", "erred", "refused"}
         /\ handler.ctx \in {"open", "expired", "cancelled"}
         /\ command.state \in {"unborn", "running", "ended"}
         /\ \A s \in Stream : /\ pipes[s] \in Seq(Nat) /\ Len(pipes[s]) \in Nat
                              /\ command.written[s] \in Nat
                              /\ Got(s) \in Seq(Nat) /\ Len(Got(s)) \in Nat
         /\ Tracked \subseteq Stream /\ "stdout" \in Tracked
<1>1. client.buffered \in Seq(Piece) /\ wire \in Seq(Piece)
  BY DEF TypeOK
<1>2. Underway \in Seq(Piece)
  BY <1>1 DEF Underway
<1>3. client.stdout \in Seq(Nat) /\ client.stderr \in Seq(Nat)
  BY DEF TypeOK
<1>4. ASSUME NEW s \in Stream
      PROVE  /\ pipes[s] \in Seq(Nat) /\ Len(pipes[s]) \in Nat
             /\ command.written[s] \in Nat
             /\ Got(s) \in Seq(Nat) /\ Len(Got(s)) \in Nat
  <2>1. pipes[s] \in Seq(Nat) /\ command.written[s] \in Nat
    BY DEF TypeOK
  <2>2. Got(s) \in Seq(Nat)
    BY <1>3 DEF Got
  <2> QED
    BY <2>1, <2>2
<1>5. Tracked \subseteq Stream /\ "stdout" \in Tracked
  BY DEF Tracked, Stream
<1>6. /\ client.pc \in {"idle", "sent", "reading", "over"}
      /\ client.exit \in {"none", "own", "late"}
      /\ handler.pc \in {"idle", "serving", "answered", "erred", "refused"}
      /\ handler.ctx \in {"open", "expired", "cancelled"}
      /\ command.state \in {"unborn", "running", "ended"}
  BY DEF TypeOK
<1> QED
  BY <1>1, <1>2, <1>3, <1>4, <1>5, <1>6

LEMMA SentNat == ASSUME TypeOK, PipeInv, NEW s \in Stream PROVE Sent(s) \in Nat
<1>1. Len(pipes[s]) \in Nat /\ command.written[s] \in Nat /\ Len(pipes[s]) <= command.written[s]
  BY Types DEF PipeInv
<1> QED
  BY <1>1 DEF Sent

(* The numbers of a call. *)
LEMMA Numbers ==
  ASSUME TypeOK
  PROVE  /\ Latency \in Nat /\ Grace \in Nat /\ Slack \in Nat
         /\ Latency + Grace + Latency < Slack
         /\ call.mode \in {"run", "stream"}
         /\ call.timeout # Never => call.timeout \in Nat
         /\ \A t \in DOMAIN timers : timers[t] \in Nat
<1>1. call.mode \in Modes /\ call.timeout \in Timeouts
  BY DEF TypeOK
<1>2. call.mode \in {"run", "stream"} /\ (call.timeout # Never => call.timeout \in Nat)
  BY <1>1, ExecAssumption
<1> QED
  BY <1>2, ExecAssumption DEF TypeOK

LEMMA InitInv == Init => Inv
<1> SUFFICES ASSUME Init PROVE Inv
  OBVIOUS
<1>1. DOMAIN timers = {}
  BY DEF Init
<1>2. TypeOK
  <2>1. client \in [pc: {"idle", "sent", "reading", "over"},
                 outcome: {"none", "result", "timedOut", "failed", "aborted", "closed",
                           "cancelled"},
                 stdout: Seq(Nat), stderr: Seq(Nat), exit: {"none", "own", "late"},
                 buffered: Seq(Piece)]
    BY DEF Init
  <2>2. command \in [state: {"unborn", "running", "ended"}, killed: BOOLEAN,
                  written: [Stream -> Nat]]
    <3>1. [s \in Stream |-> 0] \in [Stream -> Nat]
      OBVIOUS
    <3> QED
      BY <3>1 DEF Init
  <2>3. pipes \in [Stream -> Seq(Nat)] /\ wire \in Seq(Piece)
    BY DEF Init
  <2>4. handler \in [pc: {"idle", "serving", "answered", "erred", "refused"},
                  ctx: {"open", "expired", "cancelled"}]
    BY DEF Init
  <2> QED
    BY <1>1, <2>1, <2>2, <2>3, <2>4 DEF TypeOK, Init
<1>3. /\ client.buffered = << >> /\ wire = << >> /\ client.pc = "idle" /\ client.outcome = "none"
      /\ client.stdout = << >> /\ client.stderr = << >> /\ handler.pc = "idle"
      /\ handler.ctx = "open"
      /\ \A s \in Stream : pipes[s] = << >> /\ command.written[s] = 0
  BY DEF Init
<1>4. \A s \in Stream : Len(Got(s)) = 0 /\ Sent(s) = 0
  BY <1>3 DEF Got, Sent
<1>5. Underway = << >> /\ Len(Underway) = 0
  BY <1>3 DEF Underway
<1>6. PipeInv /\ GotInv
  BY <1>2, <1>3, <1>4, Types DEF PipeInv, GotInv
<1>7. LineInv
  BY <1>2, <1>4, <1>5, Types DEF LineInv, Paired, Closed, InTurn, Complete
<1>8. WordInv /\ PlaceInv /\ GuardInv /\ OutcomeInv
  BY <1>1, <1>3, <1>5 DEF WordInv, PlaceInv, GuardInv, OutcomeInv, FailsOnlyForCause, Init
<1> QED
  BY <1>2, <1>6, <1>7, <1>8 DEF Inv

-----------------------------------------------------------------------------
(* While the network works, the guard of a run is not due. *)
LEMMA GuardRuns ==
  ASSUME Inv, call.mode = "run", call.timeout # Never, client.pc \in {"sent", "reading"},
         conn = "open"
  PROVE  /\ "guard" \in DOMAIN timers /\ timers["guard"] \in Nat /\ timers["guard"] > 0
         /\ handler.pc \in {"idle", "serving"} => timers["guard"] > Latency
<1>1. "guard" \in DOMAIN timers /\ timers["guard"] \in Nat /\ TypeOK /\ handler.ctx # "cancelled"
  BY Numbers DEF Inv, GuardInv, PlaceInv
<1>2. CASE handler.pc = "idle"
  BY <1>1, <1>2, Numbers DEF Inv, GuardInv
<1>3. CASE handler.pc = "serving" /\ handler.ctx = "open"
  BY <1>1, <1>3, Numbers DEF Inv, GuardInv
<1>4. CASE handler.pc = "serving" /\ handler.ctx = "expired"
  BY <1>1, <1>4, Numbers DEF Inv, GuardInv
<1>5. CASE handler.pc \in {"answered", "erred", "refused"}
  BY <1>1, <1>5, Numbers DEF Inv, GuardInv
<1> QED
  BY <1>1, <1>2, <1>3, <1>4, <1>5, Types

(* What sending a line does to the lines under way. *)
LEMMA SendFacts ==
  ASSUME TypeOK, NEW kind \in Kind, NEW n \in Nat, Send(Line(kind, n)), client' = client
  PROVE  /\ wire' \in Seq(Piece)
         /\ conn = "open" => Underway' = Underway \o Line(kind, n)
         /\ conn # "open" => Underway' = Underway
         /\ \A i \in 1..Len(Underway) : i \in 1..Len(Underway') /\ Underway'[i] = Underway[i]
         /\ \A i \in 1..Len(Underway') : i \notin 1..Len(Underway) => Underway'[i].kind = kind
         /\ conn = "open" =>
              \E i \in 1..Len(Underway') : Underway'[i].part = 1 /\ Underway'[i].kind = kind
<1> DEFINE b == client.buffered
<1>1. b \in Seq(Piece) /\ wire \in Seq(Piece) /\ Underway = b \o wire /\ Underway \in Seq(Piece)
  BY Types DEF Underway
<1>2. Underway' = b \o wire'
  BY DEF Underway
<1> HIDE DEF b
<1>3. CASE conn = "open"
  <2>1. wire' = wire \o Line(kind, n)
    BY <1>3 DEF Send
  <2>2. Line(kind, n) \in Seq(Piece) /\ wire' \in Seq(Piece)
    BY <1>1, <2>1, LineFacts
  <2>3. Underway' = Underway \o Line(kind, n)
    BY <1>1, <1>2, <2>1, <2>2, GrowSame
  <2> DEFINE c == Underway \o Line(kind, n)
  <2>4. /\ c \in Seq(Piece) /\ Len(c) = Len(Underway) + 2
        /\ \A i \in 1..Len(Underway) : c[i] = Underway[i]
        /\ c[Len(Underway) + 1] = [kind |-> kind, n |-> n, part |-> 1]
        /\ c[Len(Underway) + 2] = [kind |-> kind, n |-> n, part |-> 2]
    BY <1>1, LineFacts, Zenon
  <2> HIDE DEF c
  <2>5. \A i \in 1..Len(Underway) : i \in 1..Len(c) /\ c[i] = Underway[i]
    BY <1>1, <2>4
  <2>6. ASSUME NEW i \in 1..Len(c), i \notin 1..Len(Underway) PROVE c[i].kind = kind
    <3> DEFINE N == Len(Underway)
    <3>1. N \in Nat /\ i \in 1..(N + 2) /\ i \notin 1..N
      BY <1>1, <2>4, <2>6
    <3> HIDE DEF N
    <3>2. i = N + 1 \/ i = N + 2
      BY <3>1
    <3> QED
      BY <2>4, <3>2 DEF N
  <2>7. Len(Underway) + 1 \in 1..Len(c) /\ c[Len(Underway) + 1].part = 1
        /\ c[Len(Underway) + 1].kind = kind
    BY <1>1, <2>4
  <2> QED
    BY <1>3, <2>2, <2>3, <2>5, <2>6, <2>7 DEF c
<1>4. CASE conn # "open"
  BY <1>1, <1>2, <1>4 DEF Send
<1> QED
  BY <1>3, <1>4

(* What the lines under way are worth only depends on these. *)
LEMMA LineFrame ==
  ASSUME LineInv, Underway' = Underway, Tracked' = Tracked,
         client'.pc # "over" => client.pc # "over",
         conn' = "open" => conn = "open",
         \A s \in Tracked : Got(s)' = Got(s) /\ Sent(s)' = Sent(s)
  PROVE  LineInv'
  BY DEF LineInv

(* The handler's own lines leave the streams as they are. *)
LEMMA SendWord ==
  ASSUME Inv, NEW kind \in Kind \ Stream, NEW n \in Nat, Send(Line(kind, n)),
         UNCHANGED <<call, conn, client, pipes>>, command'.written = command.written
  PROVE  PipeInv' /\ GotInv' /\ LineInv'
<1> USE DEF Inv
<1>1. /\ Tracked' = Tracked
      /\ \A s \in Stream : Got(s)' = Got(s) /\ Sent(s)' = Sent(s)
  BY DEF Tracked, Got, Sent
<1>2. Tracked \subseteq Stream /\ Underway \in Seq(Piece)
  BY Types
<1>3. PipeInv'
  BY <1>1 DEF PipeInv
<1>4. GotInv'
  BY <1>1, <1>2 DEF GotInv
<1>5. LineInv'
  <2>1. CASE conn = "open" /\ client.pc # "over"
    <3>1. Underway' = Underway \o Line(kind, n)
      BY <2>1, SendFacts
    <3>2. Paired(Underway') /\ Closed(Underway')
      BY <1>2, <2>1, <3>1, GrowPairs DEF LineInv
    <3>3. ASSUME NEW s \in Tracked
          PROVE  /\ InTurn(Underway', s, Len(Got(s)), Sent(s))
                 /\ Complete(Underway', s, Len(Got(s)), Sent(s))
      <4>1. s \in Stream /\ Len(Got(s)) \in Nat /\ Sent(s) \in Nat
        BY <1>2, Types, SentNat
      <4>2. InTurn(Underway, s, Len(Got(s)), Sent(s)) /\ Complete(Underway, s, Len(Got(s)), Sent(s))
        BY <2>1 DEF LineInv
      <4> QED
        BY <1>2, <3>1, <4>1, <4>2, GrowOther
    <3> QED
      BY <1>1, <1>2, <3>2, <3>3 DEF LineInv
  <2>2. CASE client.pc = "over"
    BY <2>2 DEF LineInv
  <2>3. CASE conn # "open"
    BY <1>1, <1>2, <2>3, SendFacts, LineFrame
  <2> QED
    BY <2>1, <2>2, <2>3
<1> QED
  BY <1>3, <1>4, <1>5

-----------------------------------------------------------------------------
(* The steps of the agent. *)
LEMMA ArriveInv == ASSUME Inv, Arrive PROVE Inv'
<1> USE DEF Inv
<1> DEFINE ts == Without(timers, {"request"})
<1>1. /\ DOMAIN ts = DOMAIN timers \ {"request"}
      /\ \A t \in DOMAIN ts : ts[t] = timers[t]
  BY DEF Without
<1>2. /\ call.mode = "run" /\ call.timeout # Never => timers' = With(ts, "deadline", call.timeout)
      /\ ~(call.mode = "run" /\ call.timeout # Never) => timers' = ts
  BY DEF Arrive
<1> HIDE DEF ts
<1>3. /\ DOMAIN timers' \subseteq DOMAIN timers \cup {"deadline"}
      /\ \A t \in DOMAIN timers : t \notin {"request", "deadline"} =>
           t \in DOMAIN timers' /\ timers'[t] = timers[t]
      /\ \A t \in DOMAIN timers' : timers'[t] \in Nat
      /\ call.mode = "run" /\ call.timeout # Never =>
           "deadline" \in DOMAIN timers' /\ timers'["deadline"] = call.timeout
  BY <1>1, <1>2, Numbers DEF With
<1>4. /\ handler.pc = "idle" /\ conn = "open" /\ handler'.pc = "serving"
      /\ handler'.ctx = handler.ctx /\ handler.ctx = "open"
      /\ command'.state = "running" /\ command'.written = command.written
      /\ UNCHANGED <<call, conn, faulty, client, pipes>>
  BY DEF Arrive, TypeOK, PlaceInv
<1>5. "pid" \in Kind \ Stream /\ Send(Line("pid", 0))
  BY DEF Arrive, Kind, Stream
<1>6. TypeOK'
  <2>1. handler' \in [pc: {"idle", "serving", "answered", "erred", "refused"},
                      ctx: {"open", "expired", "cancelled"}]
    BY DEF Arrive, TypeOK
  <2>2. command' \in [state: {"unborn", "running", "ended"}, killed: BOOLEAN,
                      written: [Stream -> Nat]]
    BY DEF Arrive, TypeOK
  <2> QED
    BY <1>3, <1>4, <1>5, <2>1, <2>2, SendFacts DEF TypeOK
<1>7. PipeInv' /\ GotInv' /\ LineInv'
  BY <1>4, <1>5, SendWord
<1>8. WordInv'
  BY <1>4, <1>5, SendFacts DEF WordInv, Stream
<1>9. PlaceInv'
  BY <1>3, <1>4, SendFacts DEF PlaceInv
<1>10. GuardInv'
  <2> SUFFICES ASSUME call.mode = "run", call.timeout # Never, client.pc \in {"sent", "reading"}
               PROVE  /\ "guard" \in DOMAIN timers'
                      /\ "deadline" \in DOMAIN timers'
                      /\ timers'["guard"] + Latency >= timers'["deadline"] + Slack
    BY <1>4 DEF GuardInv
  <2>1. /\ "guard" \in DOMAIN timers /\ "request" \in DOMAIN timers
        /\ timers["guard"] + Latency = timers["request"] + call.timeout + Slack
        /\ timers'["guard"] = timers["guard"] /\ "guard" \in DOMAIN timers'
    BY <1>3, <1>4 DEF GuardInv
  <2> QED
    BY <1>3, <2>1, Numbers
<1>11. OutcomeInv'
  <2>1. \A s \in Stream : Got(s)' = Got(s)
    BY <1>4 DEF Got
  <2>2. client.outcome \notin {"result", "timedOut", "closed"}
    BY <1>4 DEF OutcomeInv, PlaceInv
  <2> QED
    BY <1>4, <2>1, <2>2 DEF OutcomeInv, FailsOnlyForCause
<1> QED
  BY <1>6, <1>7, <1>8, <1>9, <1>10, <1>11

LEMMA RefuseInv == ASSUME Inv, Refuse PROVE Inv'
<1> USE DEF Inv
<1> DEFINE ts == Without(timers, {"request"})
<1>1. /\ DOMAIN ts = DOMAIN timers \ {"request"}
      /\ \A t \in DOMAIN ts : ts[t] = timers[t]
  BY DEF Without
<1>2. timers' = With(ts, "answer", Latency)
  BY DEF Refuse
<1> HIDE DEF ts
<1>3. /\ DOMAIN timers' \subseteq DOMAIN timers \cup {"answer"}
      /\ \A t \in DOMAIN timers : t \notin {"request", "answer"} =>
           t \in DOMAIN timers' /\ timers'[t] = timers[t]
      /\ \A t \in DOMAIN timers' : timers'[t] \in Nat
      /\ "answer" \in DOMAIN timers' /\ timers'["answer"] = Latency
  BY <1>1, <1>2, Numbers DEF With
<1>4. /\ handler.pc = "idle" /\ conn = "open" /\ handler'.pc = "refused"
      /\ handler'.ctx = handler.ctx /\ handler.ctx = "open"
      /\ UNCHANGED <<call, conn, faulty, client, command, pipes>>
  BY DEF Refuse, TypeOK, PlaceInv
<1>5. "refusal" \in Kind \ Stream /\ Send(Line("refusal", 0))
  BY DEF Refuse, Kind, Stream
<1>6. TypeOK'
  <2>1. handler' \in [pc: {"idle", "serving", "answered", "erred", "refused"},
                      ctx: {"open", "expired", "cancelled"}]
    BY DEF Refuse, TypeOK
  <2> QED
    BY <1>3, <1>4, <1>5, <2>1, SendFacts DEF TypeOK
<1>7. PipeInv' /\ GotInv' /\ LineInv'
  BY <1>4, <1>5, SendWord
<1>8. WordInv'
  <2>1. ASSUME NEW i \in 1..Len(Underway') PROVE Underway'[i].kind # "error"
    <3>1. CASE i \in 1..Len(Underway)
      BY <1>4, <1>5, <3>1, SendFacts DEF WordInv
    <3>2. CASE i \notin 1..Len(Underway)
      BY <1>4, <1>5, <3>2, SendFacts
    <3> QED
      BY <3>1, <3>2
  <2> QED
    BY <1>4, <2>1 DEF WordInv
<1>9. PlaceInv'
  BY <1>3, <1>4 DEF PlaceInv
<1>10. GuardInv'
  <2> SUFFICES ASSUME call.mode = "run", call.timeout # Never, client.pc \in {"sent", "reading"}
               PROVE  "guard" \in DOMAIN timers' /\ timers'["answer"] < timers'["guard"]
    BY <1>3, <1>4 DEF GuardInv
  <2>1. /\ "guard" \in DOMAIN timers /\ timers["guard"] > Latency
        /\ timers'["guard"] = timers["guard"] /\ "guard" \in DOMAIN timers'
    BY <1>3, <1>4, GuardRuns
  <2> QED
    BY <1>3, <2>1, GuardRuns, Numbers, <1>4
<1>11. OutcomeInv'
  <2>1. \A s \in Stream : Got(s)' = Got(s)
    BY <1>4 DEF Got
  <2> QED
    BY <1>4, <2>1 DEF OutcomeInv, FailsOnlyForCause
<1> QED
  BY <1>6, <1>7, <1>8, <1>9, <1>10, <1>11

LEMMA AnswerInv == ASSUME Inv, Answer PROVE Inv'
<1> USE DEF Inv
<1> DEFINE ts == Without(timers, {"deadline", "grace"})
<1>1. /\ DOMAIN ts = DOMAIN timers \ {"deadline", "grace"}
      /\ \A t \in DOMAIN ts : ts[t] = timers[t]
  BY DEF Without
<1>2. timers' = With(ts, "answer", Latency)
  BY DEF Answer
<1> HIDE DEF ts
<1>3. /\ DOMAIN timers' \subseteq DOMAIN timers \cup {"answer"}
      /\ \A t \in DOMAIN timers : t \notin {"deadline", "grace", "answer"} =>
           t \in DOMAIN timers' /\ timers'[t] = timers[t]
      /\ \A t \in DOMAIN timers' : timers'[t] \in Nat
      /\ "answer" \in DOMAIN timers' /\ timers'["answer"] = Latency
  BY <1>1, <1>2, Numbers DEF With
<1>4. /\ handler.pc = "serving" /\ handler'.pc \in {"answered", "erred"}
      /\ handler'.ctx = handler.ctx /\ command.state = "ended"
      /\ \A s \in Stream : pipes[s] = << >>
      /\ UNCHANGED <<call, conn, faulty, client, command, pipes>>
  BY DEF Answer, TypeOK
<1>5. PICK kind \in Kind \ Stream, n \in Nat :
        /\ Send(Line(kind, n))
        /\ \/ kind = "exit" /\ handler'.pc = "answered"
           \/ kind = "error" /\ handler'.pc = "erred"
  <2>1. "exit" \in Kind \ Stream /\ "error" \in Kind \ Stream /\ 0 \in Nat /\ 1 \in Nat
    BY DEF Kind, Stream
  <2>2. CASE handler' = [handler EXCEPT !.pc = "answered"]
               /\ Send(Line("exit", IF handler.ctx = "expired" THEN 1 ELSE 0))
    <3>1. handler'.pc = "answered"
      BY <2>2 DEF TypeOK
    <3>2. CASE handler.ctx = "expired"
      <4>1. Send(Line("exit", 1))
        BY <2>2, <3>2
      <4> QED
        BY <2>1, <3>1, <4>1
    <3>3. CASE handler.ctx # "expired"
      <4>1. Send(Line("exit", 0))
        BY <2>2, <3>3
      <4> QED
        BY <2>1, <3>1, <4>1
    <3> QED
      BY <3>2, <3>3
  <2>3. CASE handler' = [handler EXCEPT !.pc = "erred"] /\ Send(Line("error", 0))
    <3>1. handler'.pc = "erred"
      BY <2>3 DEF TypeOK
    <3> QED
      BY <2>1, <2>3, <3>1
  <2> QED
    BY <2>2, <2>3 DEF Answer
<1>6. TypeOK'
  <2>1. handler' \in [pc: {"idle", "serving", "answered", "erred", "refused"},
                      ctx: {"open", "expired", "cancelled"}]
    BY DEF Answer, TypeOK
  <2> QED
    BY <1>3, <1>4, <1>5, <2>1, SendFacts DEF TypeOK
<1>7. PipeInv' /\ GotInv' /\ LineInv'
  BY <1>4, <1>5, SendWord
<1>8. WordInv'
  BY <1>4, <1>5, SendFacts DEF WordInv, Stream
<1>9. PlaceInv'
  BY <1>3, <1>4 DEF PlaceInv
<1>10. GuardInv'
  <2> SUFFICES ASSUME call.mode = "run", call.timeout # Never, client.pc \in {"sent", "reading"},
                      conn = "open"
               PROVE  "guard" \in DOMAIN timers' /\ timers'["answer"] < timers'["guard"]
    BY <1>3, <1>4 DEF GuardInv
  <2>1. /\ "guard" \in DOMAIN timers /\ timers["guard"] > Latency
        /\ timers'["guard"] = timers["guard"] /\ "guard" \in DOMAIN timers'
    BY <1>3, <1>4, GuardRuns
  <2> QED
    BY <1>3, <2>1
<1>11. OutcomeInv'
  <2>1. \A s \in Stream : Got(s)' = Got(s)
    BY <1>4 DEF Got
  <2> QED
    BY <1>4, <2>1 DEF OutcomeInv, FailsOnlyForCause
<1> QED
  BY <1>6, <1>7, <1>8, <1>9, <1>10, <1>11

LEMMA ForwardInv == ASSUME Inv, NEW s \in Stream, Forward(s) PROVE Inv'
<1> USE DEF Inv
<1>1. /\ UNCHANGED <<call, timers, conn, faulty, client, handler, command>>
      /\ pipes[s] \in Seq(Nat) /\ pipes[s] # << >>
      /\ pipes' = [pipes EXCEPT ![s] = Tail(pipes[s])]
      /\ Send(Line(s, Head(pipes[s]))) /\ s \in Kind
  BY Types DEF Forward, Kind
<1>2. /\ Tail(pipes[s]) \in Seq(Nat) /\ Len(Tail(pipes[s])) = Len(pipes[s]) - 1
      /\ Len(pipes[s]) \in Nat /\ Len(pipes[s]) >= 1 /\ Head(pipes[s]) = pipes[s][1]
      /\ \A k \in 1..(Len(pipes[s]) - 1) : Tail(pipes[s])[k] = pipes[s][k + 1]
  BY <1>1
<1>3. /\ pipes' \in [Stream -> Seq(Nat)] /\ pipes'[s] = Tail(pipes[s])
      /\ \A r \in Stream : r # s => pipes'[r] = pipes[r]
  BY <1>1, <1>2 DEF TypeOK
<1>4. Sent(s) \in Nat /\ Head(pipes[s]) = Sent(s) + 1 /\ Sent(s) + 1 \in Nat
  BY <1>2, SentNat DEF PipeInv
<1>5. Sent(s)' = Sent(s) + 1 /\ \A r \in Stream : r # s => Sent(r)' = Sent(r)
  BY <1>1, <1>2, <1>3, Types DEF Sent
<1>6. Tracked' = Tracked /\ \A r \in Stream : Got(r)' = Got(r)
  BY <1>1 DEF Tracked, Got
<1>7. TypeOK'
  <2>1. wire' \in Seq(Piece)
    BY <1>1, <1>4, SendFacts
  <2> QED
    BY <1>1, <1>3, <2>1 DEF TypeOK
<1>8. PipeInv'
  <2> SUFFICES ASSUME NEW r \in Stream
               PROVE  /\ Len(pipes'[r]) <= command.written[r]
                      /\ \A k \in 1..Len(pipes'[r]) : pipes'[r][k] = Sent(r)' + k
    BY <1>1 DEF PipeInv
  <2>1. CASE r # s
    BY <1>3, <1>5, <2>1 DEF PipeInv
  <2>2. CASE r = s
    <3>1. Len(pipes[s]) <= command.written[s] /\ command.written[s] \in Nat
      BY Types DEF PipeInv
    <3>2. Len(pipes'[s]) = Len(pipes[s]) - 1
      BY <1>2, <1>3
    <3>3. ASSUME NEW k \in 1..(Len(pipes[s]) - 1) PROVE pipes'[s][k] = Sent(s)' + k
      <4>1. k + 1 \in 1..Len(pipes[s]) /\ pipes'[s][k] = pipes[s][k + 1]
        BY <1>2, <1>3
      <4>2. pipes[s][k + 1] = Sent(s) + (k + 1)
        BY <4>1 DEF PipeInv
      <4> QED
        BY <1>4, <1>5, <4>1, <4>2
    <3> QED
      BY <1>2, <2>2, <3>1, <3>2, <3>3
  <2> QED
    BY <2>1, <2>2
<1>9. GotInv'
  <2> SUFFICES ASSUME NEW r \in Tracked
               PROVE  Len(Got(r)) <= Sent(r)' /\ \A i \in 1..Len(Got(r)) : Got(r)[i] = i
    BY <1>6, Types DEF GotInv
  <2>1. /\ r \in Stream /\ Len(Got(r)) \in Nat /\ Len(Got(r)) <= Sent(r)
        /\ \A i \in 1..Len(Got(r)) : Got(r)[i] = i
    BY Types DEF GotInv
  <2> QED
    BY <1>4, <1>5, <2>1
<1>10. LineInv'
  <2> SUFFICES ASSUME client.pc # "over" PROVE LineInv'
    BY <1>1 DEF LineInv
  <2>1. CASE conn = "open"
    <3>1. Underway' = Underway \o Line(s, Sent(s) + 1) /\ Underway \in Seq(Piece)
      BY <1>1, <1>4, <2>1, SendFacts, Types
    <3>2. Paired(Underway') /\ Closed(Underway')
      BY <1>1, <1>4, <2>1, <3>1, GrowPairs DEF LineInv
    <3>3. ASSUME NEW r \in Tracked
          PROVE  /\ InTurn(Underway', r, Len(Got(r)), Sent(r)')
                 /\ Complete(Underway', r, Len(Got(r)), Sent(r)')
      <4>1. r \in Stream /\ Len(Got(r)) \in Nat /\ Sent(r) \in Nat /\ Len(Got(r)) <= Sent(r)
        BY Types, SentNat DEF GotInv
      <4>2. InTurn(Underway, r, Len(Got(r)), Sent(r)) /\ Complete(Underway, r, Len(Got(r)), Sent(r))
        BY <2>1 DEF LineInv
      <4>3. CASE r = s
        BY <1>5, <3>1, <4>1, <4>2, <4>3, GrowOwn
      <4>4. CASE r # s
        BY <1>1, <1>4, <1>5, <3>1, <4>1, <4>2, <4>4, GrowOther
      <4> QED
        BY <4>3, <4>4
    <3> QED
      BY <1>6, <3>2, <3>3, Types DEF LineInv
  <2>2. CASE conn # "open"
    <3>1. Underway' = Underway
      BY <1>1, <1>4, <2>2, SendFacts
    <3>2. ASSUME NEW r \in Tracked PROVE InTurn(Underway, r, Len(Got(r)), Sent(r)')
      <4>1. r \in Stream /\ Sent(r) \in Nat /\ InTurn(Underway, r, Len(Got(r)), Sent(r))
        BY Types, SentNat DEF LineInv
      <4>2. Sent(r)' \in Nat /\ Sent(r) <= Sent(r)'
        BY <1>4, <1>5, <4>1
      <4>3. \A i \in 1..Len(Underway) : Underway[i].n \in Nat
        BY Types, PieceFacts
      <4> QED
        BY <4>1, <4>2, <4>3 DEF InTurn
    <3> QED
      BY <1>1, <1>6, <2>2, <3>1, <3>2, Types DEF LineInv
  <2> QED
    BY <2>1, <2>2
<1>11. WordInv'
  <2>1. \A i \in 1..Len(Underway) : i \in 1..Len(Underway') /\ Underway'[i] = Underway[i]
    BY <1>1, <1>4, SendFacts
  <2>2. \A i \in 1..Len(Underway') : i \notin 1..Len(Underway) => Underway'[i].kind \in Stream
    BY <1>1, <1>4, SendFacts
  <2> QED
    BY <1>1, <2>1, <2>2 DEF WordInv, Stream
<1>12. PlaceInv'
  <2>1. handler.pc \notin {"answered", "erred", "idle"} /\ client.pc # "idle"
    BY <1>1 DEF PlaceInv
  <2> QED
    BY <1>1, <2>1 DEF PlaceInv
<1>13. GuardInv' /\ OutcomeInv'
  BY <1>1, <1>6 DEF GuardInv, OutcomeInv, FailsOnlyForCause
<1> QED
  BY <1>7, <1>8, <1>9, <1>10, <1>11, <1>12, <1>13

(* A step that touches neither the lines nor what was read of them. *)
LEMMA DataFrame ==
  ASSUME Inv, UNCHANGED <<call, conn, wire, client, pipes>>, command'.written = command.written
  PROVE  PipeInv' /\ GotInv' /\ LineInv' /\ \A s \in Stream : Got(s)' = Got(s)
<1> USE DEF Inv
<1>1. /\ Tracked' = Tracked /\ Underway' = Underway
      /\ \A s \in Stream : Got(s)' = Got(s) /\ Sent(s)' = Sent(s)
  BY DEF Tracked, Got, Sent, Underway
<1>2. Tracked \subseteq Stream
  BY Types
<1>3. PipeInv' /\ GotInv'
  BY <1>1, <1>2 DEF PipeInv, GotInv
<1> QED
  BY <1>1, <1>2, <1>3, LineFrame

LEMMA ContextEndsInv ==
  ASSUME Inv, NEW cause \in {"expired", "cancelled"}, ContextEnds(cause) PROVE Inv'
<1> USE DEF Inv
<1> DEFINE ts == Without(timers, {"deadline"})
<1>1. DOMAIN ts = DOMAIN timers \ {"deadline"} /\ \A t \in DOMAIN ts : ts[t] = timers[t]
  BY DEF Without
<1>2. timers' = With(ts, "grace", Grace)
  BY DEF ContextEnds
<1> HIDE DEF ts
<1>3. /\ DOMAIN timers' \subseteq DOMAIN timers \cup {"grace"}
      /\ \A t \in DOMAIN timers : t \notin {"deadline", "grace"} =>
           t \in DOMAIN timers' /\ timers'[t] = timers[t]
      /\ \A t \in DOMAIN timers' : timers'[t] \in Nat
      /\ "grace" \in DOMAIN timers' /\ timers'["grace"] = Grace
  BY <1>1, <1>2, Numbers DEF With
<1>4. /\ handler.pc = "serving" /\ handler'.pc = "serving" /\ handler.ctx = "open"
      /\ handler'.ctx = cause
      /\ UNCHANGED <<call, conn, faulty, wire, client, command, pipes>>
  BY DEF ContextEnds, TypeOK
<1>5. /\ cause = "expired" => "deadline" \in DOMAIN timers /\ timers["deadline"] = 0
      /\ cause = "cancelled" => conn \in {"lost", "silent", "aborted"}
  BY DEF ContextEnds, Due
<1>6. TypeOK'
  <2>1. handler' \in [pc: {"idle", "serving", "answered", "erred", "refused"},
                      ctx: {"open", "expired", "cancelled"}]
    BY DEF ContextEnds, TypeOK
  <2> QED
    BY <1>3, <1>4, <2>1 DEF TypeOK
<1>7. PipeInv' /\ GotInv' /\ LineInv' /\ \A s \in Stream : Got(s)' = Got(s)
  BY <1>4, DataFrame
<1>8. WordInv'
  <2>1. Underway' = Underway
    BY <1>4 DEF Underway
  <2> QED
    BY <1>4, <2>1 DEF WordInv
<1>9. PlaceInv'
  BY <1>3, <1>4, <1>5 DEF PlaceInv
<1>10. GuardInv'
  <2> SUFFICES ASSUME call.mode = "run", call.timeout # Never, client.pc \in {"sent", "reading"},
                      conn = "open"
               PROVE  /\ "guard" \in DOMAIN timers' /\ "grace" \in DOMAIN timers'
                      /\ timers'["guard"] + Latency + Grace >= timers'["grace"] + Slack
    BY <1>4 DEF GuardInv
  <2>1. cause = "expired"
    BY <1>5
  <2>2. /\ "guard" \in DOMAIN timers /\ timers["guard"] \in Nat
        /\ timers["guard"] + Latency >= timers["deadline"] + Slack
        /\ timers'["guard"] = timers["guard"] /\ "guard" \in DOMAIN timers'
    BY <1>3, <1>4, Numbers DEF GuardInv
  <2> QED
    BY <1>3, <1>5, <2>1, <2>2, Numbers
<1>11. OutcomeInv'
  BY <1>4, <1>7 DEF OutcomeInv, FailsOnlyForCause
<1> QED
  BY <1>6, <1>7, <1>8, <1>9, <1>10, <1>11

LEMMA KillGroupInv == ASSUME Inv, KillGroup PROVE Inv'
<1> USE DEF Inv
<1>1. /\ DOMAIN timers' = DOMAIN timers \ {"grace"}
      /\ \A t \in DOMAIN timers' : timers'[t] = timers[t]
  BY DEF KillGroup, Without
<1>2. /\ handler.pc = "serving" /\ "grace" \in DOMAIN timers /\ timers["grace"] = 0
      /\ command'.killed = TRUE /\ command'.state = command.state
      /\ command'.written = command.written
      /\ UNCHANGED <<call, conn, faulty, wire, client, handler, pipes>>
  BY DEF KillGroup, Due, TypeOK
<1>3. TypeOK'
  <2>1. command' \in [state: {"unborn", "running", "ended"}, killed: BOOLEAN,
                      written: [Stream -> Nat]]
    BY DEF KillGroup, TypeOK
  <2> QED
    BY <1>1, <1>2, <2>1 DEF TypeOK
<1>4. PipeInv' /\ GotInv' /\ LineInv' /\ \A s \in Stream : Got(s)' = Got(s)
  BY <1>2, DataFrame
<1>5. WordInv'
  <2>1. Underway' = Underway
    BY <1>2 DEF Underway
  <2> QED
    BY <1>2, <2>1 DEF WordInv
<1>6. PlaceInv' /\ OutcomeInv'
  BY <1>1, <1>2, <1>4 DEF PlaceInv, OutcomeInv, FailsOnlyForCause
<1>7. GuardInv'
  <2> SUFFICES ASSUME call.mode = "run", call.timeout # Never, client.pc \in {"sent", "reading"},
                      conn = "open"
               PROVE  /\ "guard" \in DOMAIN timers'
                      /\ handler.ctx = "open" =>
                           /\ "deadline" \in DOMAIN timers'
                           /\ timers'["guard"] + Latency >= timers'["deadline"] + Slack
                      /\ handler.ctx = "expired" => timers'["guard"] + Latency + Grace >= Slack
    BY <1>2 DEF GuardInv
  <2>1. /\ "guard" \in DOMAIN timers /\ timers["guard"] \in Nat
        /\ timers'["guard"] = timers["guard"] /\ "guard" \in DOMAIN timers'
    BY <1>1, Numbers DEF GuardInv
  <2>2. CASE handler.ctx = "open"
    BY <1>1, <1>2, <2>1, <2>2 DEF GuardInv
  <2>3. CASE handler.ctx = "expired"
    <3>1. timers["guard"] + Latency + Grace >= timers["grace"] + Slack
            \/ timers["guard"] + Latency + Grace >= Slack
      BY <1>2, <2>3 DEF GuardInv
    <3> QED
      BY <1>2, <2>1, <2>3, <3>1, Numbers
  <2> QED
    BY <2>1, <2>2, <2>3
<1> QED
  BY <1>3, <1>4, <1>5, <1>6, <1>7

-----------------------------------------------------------------------------
(* The command. *)
LEMMA CommandEndsInv == ASSUME Inv, CommandEnds PROVE Inv'
<1> USE DEF Inv
<1>1. /\ command.state = "running" /\ command'.state = "ended"
      /\ command'.written = command.written /\ command'.killed = command.killed
      /\ UNCHANGED <<call, timers, conn, faulty, wire, client, handler, pipes>>
  BY DEF CommandEnds, TypeOK
<1>2. TypeOK'
  <2>1. command' \in [state: {"unborn", "running", "ended"}, killed: BOOLEAN,
                      written: [Stream -> Nat]]
    BY DEF CommandEnds, TypeOK
  <2> QED
    BY <1>1, <2>1 DEF TypeOK
<1>3. PipeInv' /\ GotInv' /\ LineInv' /\ \A s \in Stream : Got(s)' = Got(s)
  BY <1>1, DataFrame
<1>4. WordInv'
  <2>1. Underway' = Underway
    BY <1>1 DEF Underway
  <2> QED
    BY <1>1, <2>1 DEF WordInv
<1>5. PlaceInv' /\ GuardInv' /\ OutcomeInv'
  BY <1>1, <1>3 DEF PlaceInv, GuardInv, OutcomeInv, FailsOnlyForCause
<1> QED
  BY <1>2, <1>3, <1>4, <1>5

LEMMA WriteInv == ASSUME Inv, NEW s \in Stream, Write(s) PROVE Inv'
<1> USE DEF Inv
<1> DEFINE w == command.written[s]
<1>1. /\ command.state = "running" /\ command'.state = "running"
      /\ command' = [command EXCEPT !.written = [command.written EXCEPT ![s] = w + 1]]
      /\ pipes' = [pipes EXCEPT ![s] = Append(pipes[s], w + 1)]
      /\ UNCHANGED <<call, timers, conn, faulty, wire, client, handler>>
  BY DEF Write, TypeOK
<1>2. /\ pipes[s] \in Seq(Nat) /\ w \in Nat /\ Len(pipes[s]) \in Nat /\ Len(pipes[s]) <= w
      /\ command.written \in [Stream -> Nat]
  BY Types DEF TypeOK, PipeInv
<1>3. /\ command'.written = [command.written EXCEPT ![s] = w + 1]
      /\ command'.killed = command.killed
  BY <1>1 DEF TypeOK
<1>4. /\ command'.written \in [Stream -> Nat] /\ command'.written[s] = w + 1
      /\ \A r \in Stream : r # s => command'.written[r] = command.written[r]
  BY <1>2, <1>3
<1>5. /\ Append(pipes[s], w + 1) \in Seq(Nat) /\ Len(Append(pipes[s], w + 1)) = Len(pipes[s]) + 1
      /\ \A k \in 1..Len(pipes[s]) : Append(pipes[s], w + 1)[k] = pipes[s][k]
      /\ Append(pipes[s], w + 1)[Len(pipes[s]) + 1] = w + 1
  BY <1>2
<1>6. /\ pipes' \in [Stream -> Seq(Nat)] /\ pipes'[s] = Append(pipes[s], w + 1)
      /\ \A r \in Stream : r # s => pipes'[r] = pipes[r]
  BY <1>1, <1>5 DEF TypeOK
<1>7. /\ \A r \in Stream : Got(r)' = Got(r) /\ Sent(r)' = Sent(r)
      /\ Tracked' = Tracked /\ Underway' = Underway
  <2>1. \A r \in Stream : r # s => Sent(r)' = Sent(r)
    BY <1>4, <1>6 DEF Sent
  <2>2. Sent(s)' = Sent(s)
    BY <1>2, <1>4, <1>5, <1>6 DEF Sent
  <2>3. /\ \A r \in Stream : Got(r)' = Got(r)
        /\ Tracked' = Tracked /\ Underway' = Underway
    BY <1>1 DEF Got, Tracked, Underway
  <2> QED
    BY <2>1, <2>2, <2>3
<1>8. TypeOK'
  <2>1. command' \in [state: {"unborn", "running", "ended"}, killed: BOOLEAN,
                      written: [Stream -> Nat]]
    BY <1>1, <1>3, <1>4 DEF TypeOK
  <2>2. UNCHANGED <<call, timers, conn, faulty, wire, client, handler>>
    BY <1>1
  <2>3. pipes' \in [Stream -> Seq(Nat)]
    BY <1>6
  <2> QED
    BY <2>1, <2>2, <2>3 DEF TypeOK
<1>9. PipeInv'
  <2> SUFFICES ASSUME NEW r \in Stream
               PROVE  /\ Len(pipes'[r]) <= command'.written[r]
                      /\ \A k \in 1..Len(pipes'[r]) : pipes'[r][k] = Sent(r) + k
    BY <1>7 DEF PipeInv
  <2>1. CASE r # s
    BY <1>4, <1>6, <2>1 DEF PipeInv
  <2>2. CASE r = s
    <3>1. Len(pipes'[s]) = Len(pipes[s]) + 1
      BY <1>5, <1>6
    <3>2. ASSUME NEW k \in 1..(Len(pipes[s]) + 1) PROVE pipes'[s][k] = Sent(s) + k
      <4>1. CASE k \in 1..Len(pipes[s])
        BY <1>5, <1>6, <4>1 DEF PipeInv
      <4>2. CASE k = Len(pipes[s]) + 1
        <5>1. pipes'[s][k] = w + 1
          BY <1>5, <1>6, <4>2
        <5>2. Sent(s) = w - Len(pipes[s])
          BY DEF Sent
        <5> QED
          BY <1>2, <4>2, <5>1, <5>2
      <4> QED
        BY <1>2, <4>1, <4>2
    <3> QED
      BY <1>2, <1>4, <2>2, <3>1, <3>2
  <2> QED
    BY <2>1, <2>2
<1>10. GotInv' /\ LineInv'
  <2>1. Tracked \subseteq Stream
    BY Types
  <2> QED
    BY <1>1, <1>7, <2>1, LineFrame DEF GotInv
<1>11. WordInv'
  BY <1>1, <1>7 DEF WordInv
<1>12. PlaceInv' /\ GuardInv' /\ OutcomeInv'
  BY <1>1, <1>3, <1>7 DEF PlaceInv, GuardInv, OutcomeInv, FailsOnlyForCause
<1> QED
  BY <1>8, <1>9, <1>10, <1>11, <1>12

-----------------------------------------------------------------------------
(* The client. *)
LEMMA RequestInv == ASSUME Inv, Request PROVE Inv'
<1> USE DEF Inv
<1> DEFINE ts == With(timers, "request", Latency)
<1>1. /\ DOMAIN ts = DOMAIN timers \cup {"request"} /\ ts["request"] = Latency
      /\ \A t \in DOMAIN ts : ts[t] \in Nat
  BY Numbers DEF With
<1>2. /\ call.mode = "run" /\ call.timeout # Never =>
           timers' = With(ts, "guard", call.timeout + Slack)
      /\ ~(call.mode = "run" /\ call.timeout # Never) => timers' = ts
  BY DEF Request, GiveUp
<1> HIDE DEF ts
<1>3. /\ DOMAIN timers' \subseteq DOMAIN timers \cup {"request", "guard"}
      /\ \A t \in DOMAIN timers' : timers'[t] \in Nat
      /\ "request" \in DOMAIN timers' /\ timers'["request"] = Latency
      /\ call.mode = "run" /\ call.timeout # Never =>
           "guard" \in DOMAIN timers' /\ timers'["guard"] = call.timeout + Slack
      /\ "guard" \in DOMAIN timers' => "guard" \in DOMAIN timers \/ call.timeout # Never
  BY <1>1, <1>2, Numbers DEF With
<1>4. /\ client.pc = "idle" /\ client' = [client EXCEPT !.pc = "sent"] /\ conn' = "open"
      /\ UNCHANGED <<call, faulty, wire, handler, command, pipes>>
  BY DEF Request
<1>5. /\ client'.pc = "sent" /\ client'.outcome = client.outcome /\ client'.exit = client.exit
      /\ client'.stdout = client.stdout /\ client'.stderr = client.stderr
      /\ client'.buffered = client.buffered
  BY <1>4 DEF TypeOK
<1>6. /\ handler.pc = "idle" /\ wire = << >> /\ client.buffered = << >>
      /\ handler.ctx = "open" /\ command.state = "unborn"
      /\ \A s \in Stream : pipes[s] = << >> /\ command.written[s] = 0
  BY <1>4 DEF PlaceInv
<1>7. TypeOK'
  <2>1. client' \in [pc: {"idle", "sent", "reading", "over"},
                 outcome: {"none", "result", "timedOut", "failed", "aborted", "closed",
                           "cancelled"},
                 stdout: Seq(Nat), stderr: Seq(Nat), exit: {"none", "own", "late"},
                 buffered: Seq(Piece)]
    BY <1>4 DEF TypeOK
  <2>2. UNCHANGED <<call, faulty, wire, handler, command, pipes>> /\ conn' = "open"
    BY <1>4
  <2> QED
    BY <1>3, <2>1, <2>2 DEF TypeOK
<1>8. /\ \A s \in Stream : Got(s)' = Got(s) /\ Sent(s)' = Sent(s)
      /\ Tracked' = Tracked /\ Underway' = Underway /\ Tracked \subseteq Stream
      /\ Len(Underway) = 0
  BY <1>4, <1>5, <1>6, Types DEF Got, Sent, Tracked, Underway
<1>9. PipeInv' /\ GotInv' /\ WordInv'
  BY <1>4, <1>5, <1>6, <1>8 DEF PipeInv, GotInv, WordInv
<1>10. LineInv'
  <2>1. Paired(Underway) /\ \A s \in Tracked : InTurn(Underway, s, Len(Got(s)), Sent(s))
    BY <1>4 DEF LineInv
  <2>2. Closed(Underway)
    BY <1>8 DEF Closed
  <2>3. ASSUME NEW s \in Tracked PROVE Complete(Underway, s, Len(Got(s)), Sent(s))
    <3>1. Sent(s) = 0 /\ Len(Got(s)) = 0
      <4>1. s \in Stream /\ Len(Got(s)) \in Nat /\ Len(Got(s)) <= Sent(s)
        BY Types DEF GotInv
      <4>2. Sent(s) = 0
        BY <1>6, <4>1 DEF Sent
      <4> QED
        BY <4>1, <4>2
    <3> QED
      BY <3>1 DEF Complete
  <2> QED
    BY <1>8, <2>1, <2>2, <2>3 DEF LineInv
<1>11. PlaceInv'
  BY <1>3, <1>4, <1>5, <1>6 DEF PlaceInv
<1>12. GuardInv'
  BY <1>3, <1>4, <1>6, Numbers DEF GuardInv
<1>13. OutcomeInv'
  BY <1>4, <1>5, <1>6, <1>8 DEF OutcomeInv, FailsOnlyForCause
<1> QED
  BY <1>7, <1>9, <1>10, <1>11, <1>12, <1>13

(* The call ends: what is left of it is the outcome. *)
LEMMA OverInv ==
  ASSUME Inv, NEW outcome \in {"result", "timedOut", "failed", "aborted", "closed", "cancelled"},
         Over(outcome), client.pc \in {"sent", "reading"},
         UNCHANGED <<call, faulty, handler, command, pipes>>,
         \/ conn' = conn /\ wire' = wire
         \/ call.mode = "stream" /\ conn' = "aborted" /\ wire' = << >>,
         outcome \in {"result", "timedOut"} =>
           /\ call.mode = "run" /\ command.state = "ended"
           /\ \A s \in Stream : Len(Got(s)) = command.written[s],
         outcome = "closed" /\ conn' # "aborted" =>
           command.state = "ended" /\ Len(client.stdout) = command.written["stdout"],
         outcome \in {"failed", "aborted"} => faulty \/ handler.pc \in {"refused", "erred"}
  PROVE  Inv'
<1> USE DEF Inv
<1>1. /\ DOMAIN timers' = DOMAIN timers \ {"guard", "answer"}
      /\ \A t \in DOMAIN timers' : timers'[t] = timers[t]
  BY DEF Over, Without
<1>2. client' = [client EXCEPT !.pc = "over", !.outcome = outcome, !.buffered = << >>]
  BY DEF Over
<1>3. /\ client'.pc = "over" /\ client'.outcome = outcome /\ client'.exit = client.exit
      /\ client'.stdout = client.stdout /\ client'.stderr = client.stderr
      /\ client'.buffered = << >>
  BY <1>2 DEF TypeOK
<1>4. wire' \in Seq(Piece) /\ wire \in Seq(Piece) /\ client.buffered \in Seq(Piece)
  <2>1. wire \in Seq(Piece) /\ client.buffered \in Seq(Piece) /\ << >> \in Seq(Piece)
    BY Types
  <2> QED
    BY <2>1
<1>5. TypeOK'
  <2>1. client' \in [pc: {"idle", "sent", "reading", "over"},
                 outcome: {"none", "result", "timedOut", "failed", "aborted", "closed",
                           "cancelled"},
                 stdout: Seq(Nat), stderr: Seq(Nat), exit: {"none", "own", "late"},
                 buffered: Seq(Piece)]
    <3>1. << >> \in Seq(Piece)
      OBVIOUS
    <3> QED
      BY <1>2, <3>1 DEF TypeOK
  <2>2. UNCHANGED <<call, faulty, handler, command, pipes>>
        /\ conn' \in {"idle", "open", "lost", "silent", "aborted"}
    BY DEF TypeOK
  <2> QED
    BY <1>1, <1>4, <2>1, <2>2 DEF TypeOK
<1>6. /\ \A s \in Stream : Got(s)' = Got(s) /\ Sent(s)' = Sent(s)
      /\ Tracked' = Tracked /\ Tracked \subseteq Stream
  BY <1>3, Types DEF Got, Sent, Tracked
<1>7. PipeInv' /\ GotInv' /\ LineInv'
  BY <1>3, <1>6 DEF PipeInv, GotInv, LineInv
<1>8. WordInv'
  <2>1. Underway' = wire'
    BY <1>3, <1>4 DEF Underway
  <2>2. ASSUME NEW i \in 1..Len(wire')
        PROVE  /\ wire'[i].kind = "refusal" => handler.pc = "refused"
               /\ wire'[i].kind = "error" => handler.pc = "erred"
    <3>1. wire' = wire
      BY <2>2
    <3>2. /\ Len(client.buffered) + i \in 1..Len(client.buffered \o wire)
          /\ (client.buffered \o wire)[Len(client.buffered) + i] = wire[i]
      BY <1>4, <2>2, <3>1
    <3> QED
      BY <3>1, <3>2 DEF WordInv, Underway
  <2> QED
    BY <1>3, <2>1, <2>2 DEF WordInv
<1>9. PlaceInv' /\ GuardInv'
  BY <1>1, <1>3, Numbers DEF PlaceInv, GuardInv
<1>10. OutcomeInv'
  BY <1>3, <1>6 DEF OutcomeInv, FailsOnlyForCause
<1> QED
  BY <1>5, <1>7, <1>8, <1>9, <1>10

LEMMA CancelInv == ASSUME Inv, Cancel PROVE Inv'
  BY OverInv DEF Cancel, Abort

(* Nothing is left of the body once it has ended and the reader waits. *)
LEMMA Drained ==
  ASSUME Inv, Reads, wire = << >>, conn = "open"
  PROVE  /\ Len(Underway) = 0
         /\ \A s \in Tracked : Len(Got(s)) = Sent(s)
<1> USE DEF Inv
<1>1. /\ Underway = client.buffered /\ Underway \in Seq(Piece) /\ client.pc = "reading"
      /\ \A i \in 1..Len(Underway) : Underway[i].part # 2
  <2>1. client.buffered \in Seq(Piece) /\ client.pc = "reading" /\ DOMAIN client.buffered = 1..Len(client.buffered)
    BY Types DEF Reads
  <2>2. Underway = client.buffered
    BY <2>1 DEF Underway
  <2> QED
    BY <2>1, <2>2 DEF Reads, HasLine
<1>2. Len(Underway) = 0
  BY <1>1 DEF LineInv, Closed
<1>3. ASSUME NEW s \in Tracked PROVE Len(Got(s)) = Sent(s)
  <2>1. s \in Stream /\ Len(Got(s)) \in Nat /\ Len(Got(s)) <= Sent(s) /\ Sent(s) \in Nat
    BY Types, SentNat DEF GotInv
  <2>2. Complete(Underway, s, Len(Got(s)), Sent(s))
    BY <1>1 DEF LineInv
  <2>3. ~(Len(Got(s)) < Sent(s))
    BY <1>2, <2>1, <2>2 DEF Complete
  <2> QED
    BY <2>1, <2>3
<1> QED
  BY <1>2, <1>3

LEMMA EndOfBodyInv == ASSUME Inv, EndOfBody PROVE Inv'
<1> USE DEF Inv
<1> DEFINE o == IF call.mode = "run" THEN Judged ELSE "closed"
<1>1. /\ Reads /\ wire = << >> /\ handler.pc \in {"answered", "erred"} /\ conn = "open" /\ Over(o)
      /\ client.pc = "reading" /\ UNCHANGED <<call, conn, faulty, wire, handler, command, pipes>>
  BY DEF EndOfBody, Reads
<1>2. Len(Underway) = 0 /\ \A s \in Tracked : Len(Got(s)) = Sent(s)
  BY <1>1, Drained
<1>3. command.state = "ended" /\ \A s \in Stream : pipes[s] = << >>
  BY <1>1 DEF PlaceInv
<1>4. ASSUME NEW s \in Tracked PROVE Len(Got(s)) = command.written[s]
  <2>1. s \in Stream /\ command.written[s] \in Nat
    BY Types
  <2> QED
    BY <1>2, <1>3, <2>1 DEF Sent
<1>5. call.mode = "run" => Tracked = Stream
  BY DEF Tracked
<1>6. Len(client.stdout) = command.written["stdout"]
  BY <1>4, Types DEF Got
<1>7. client.exit = "none" => handler.pc = "erred"
  BY <1>1, <1>2 DEF WordInv
<1>8. /\ o \in {"result", "timedOut", "failed", "closed"}
      /\ o \in {"result", "timedOut"} => call.mode = "run"
      /\ o = "failed" => client.exit = "none"
  BY DEF Judged
<1> HIDE DEF o
<1> QED
  BY <1>1, <1>3, <1>4, <1>5, <1>6, <1>7, <1>8, OverInv

LEMMA ReadFailsInv == ASSUME Inv, ReadFails PROVE Inv'
<1> USE DEF Inv
<1>1. client.pc \in {"sent", "reading"} /\ UNCHANGED <<call, conn, faulty, wire, handler, command, pipes>>
  BY DEF ReadFails, Reads
<1>2. CASE conn = "lost" /\ Over("failed")
  BY <1>1, <1>2, OverInv DEF PlaceInv
<1>3. CASE conn = "aborted" /\ call.mode = "run" /\ Over("aborted")
  BY <1>1, <1>3, OverInv DEF PlaceInv
<1>4. CASE conn = "aborted" /\ call.mode # "run" /\ Over("closed")
  BY <1>1, <1>4, OverInv
<1> QED
  BY <1>2, <1>3, <1>4 DEF ReadFails

(* A step of the client that leaves the call open, by what it keeps. *)
LEMMA HeadersInv == ASSUME Inv, Headers PROVE Inv'
<1> USE DEF Inv
<1>1. /\ client.pc = "sent" /\ wire # << >>
      /\ UNCHANGED <<call, conn, faulty, wire, handler, command, pipes>>
  BY DEF Headers
<1>2. CASE wire[1].kind = "refusal" /\ Over("failed")
  <2>1. Underway = wire /\ 1 \in 1..Len(wire)
    BY <1>1, Types DEF PlaceInv, Underway
  <2>2. handler.pc = "refused"
    BY <1>2, <2>1 DEF WordInv
  <2> QED
    BY <1>1, <1>2, <2>2, OverInv
<1>3. CASE /\ client' = [client EXCEPT !.pc = "reading"]
           /\ timers' = IF call.mode = "stream" /\ call.timeout # Never
                        THEN With(timers, "guard", call.timeout) ELSE timers
  <2>1. /\ DOMAIN timers' \subseteq DOMAIN timers \cup {"guard"}
        /\ \A t \in DOMAIN timers' : timers'[t] \in Nat
        /\ "guard" \in DOMAIN timers' => "guard" \in DOMAIN timers \/ call.timeout # Never
    BY <1>3, Numbers DEF With
  <2>2. call.mode = "run" => timers' = timers
    BY <1>3
  <2>3. /\ client'.pc = "reading" /\ client'.outcome = client.outcome /\ client'.exit = client.exit
        /\ client'.stdout = client.stdout /\ client'.stderr = client.stderr
        /\ client'.buffered = client.buffered
    BY <1>3 DEF TypeOK
  <2>4. TypeOK'
    <3>1. client' \in [pc: {"idle", "sent", "reading", "over"},
                   outcome: {"none", "result", "timedOut", "failed", "aborted", "closed",
                             "cancelled"},
                   stdout: Seq(Nat), stderr: Seq(Nat), exit: {"none", "own", "late"},
                   buffered: Seq(Piece)]
      BY <1>3 DEF TypeOK
    <3> QED
      BY <1>1, <2>1, <3>1 DEF TypeOK
  <2>5. /\ \A s \in Stream : Got(s)' = Got(s) /\ Sent(s)' = Sent(s)
        /\ Tracked' = Tracked /\ Underway' = Underway /\ Tracked \subseteq Stream
    BY <1>1, <2>3, Types DEF Got, Sent, Tracked, Underway
  <2>6. PipeInv' /\ GotInv' /\ WordInv' /\ LineInv'
    BY <1>1, <2>3, <2>5, LineFrame DEF PipeInv, GotInv, WordInv
  <2>7. PlaceInv' /\ OutcomeInv'
    BY <1>1, <2>1, <2>3, <2>5 DEF PlaceInv, OutcomeInv, FailsOnlyForCause
  <2>8. GuardInv'
    BY <1>1, <2>2, <2>3 DEF GuardInv
  <2> QED
    BY <2>4, <2>6, <2>7, <2>8
<1> QED
  BY <1>2, <1>3 DEF Headers

LEMMA ChunkInv == ASSUME Inv, NEW n \in 1..Len(wire), Chunk(n) PROVE Inv'
<1> USE DEF Inv
<1> DEFINE b == client.buffered \o SubSeq(wire, 1, n)
<1>1. /\ client.pc = "reading" /\ wire' = SubSeq(wire, n + 1, Len(wire))
      /\ client' = [client EXCEPT !.buffered = b]
      /\ UNCHANGED <<call, timers, conn, faulty, handler, command, pipes>>
  BY DEF Chunk, Reads
<1>2. wire \in Seq(Piece) /\ client.buffered \in Seq(Piece)
  BY Types
<1>3. b \in Seq(Piece) /\ wire' \in Seq(Piece) /\ b \o wire' = Underway
  BY <1>1, <1>2, ChunkSame DEF Underway
<1> HIDE DEF b
<1>4. /\ client'.pc = client.pc /\ client'.outcome = client.outcome /\ client'.exit = client.exit
      /\ client'.stdout = client.stdout /\ client'.stderr = client.stderr
      /\ client'.buffered = b
  BY <1>1 DEF TypeOK
<1>5. TypeOK'
  <2>1. client' \in [pc: {"idle", "sent", "reading", "over"},
                 outcome: {"none", "result", "timedOut", "failed", "aborted", "closed",
                           "cancelled"},
                 stdout: Seq(Nat), stderr: Seq(Nat), exit: {"none", "own", "late"},
                 buffered: Seq(Piece)]
    BY <1>1, <1>3 DEF TypeOK
  <2>2. UNCHANGED <<call, timers, conn, faulty, handler, command, pipes>>
    BY <1>1
  <2> QED
    BY <1>3, <2>1, <2>2 DEF TypeOK
<1>6. /\ \A s \in Stream : Got(s)' = Got(s) /\ Sent(s)' = Sent(s)
      /\ Tracked' = Tracked /\ Tracked \subseteq Stream
  BY <1>1, <1>4, Types DEF Got, Sent, Tracked
<1>7. Underway' = Underway
  BY <1>3, <1>4 DEF Underway
<1>8. PipeInv' /\ GotInv' /\ WordInv' /\ LineInv'
  BY <1>1, <1>4, <1>6, <1>7, LineFrame DEF PipeInv, GotInv, WordInv
<1>9. PlaceInv' /\ OutcomeInv' /\ GuardInv'
  BY <1>1, <1>4, <1>6 DEF PlaceInv, OutcomeInv, FailsOnlyForCause, GuardInv
<1> QED
  BY <1>5, <1>8, <1>9


(* A complete line is taken off: it is the next one of its stream. *)
LEMMA NextLineInv == ASSUME Inv, NextLine PROVE Inv'
<1> USE DEF Inv
<1> DEFINE piece == client.buffered[1]
           rest == SubSeq(client.buffered, 3, Len(client.buffered))
           out == IF piece.kind = "stdout" THEN Append(client.stdout, piece.n) ELSE client.stdout
           err == IF piece.kind = "stderr" /\ call.mode = "run"
                  THEN Append(client.stderr, piece.n) ELSE client.stderr
           exit == IF piece.kind # "exit" THEN client.exit
                   ELSE IF piece.n = 1 THEN "late" ELSE "own"
<1>1. /\ client.pc = "reading" /\ HasLine(client.buffered)
      /\ UNCHANGED <<call, conn, faulty, wire, handler, command, pipes>>
  BY DEF NextLine
<1>2. /\ client.buffered \in Seq(Piece) /\ wire \in Seq(Piece) /\ Underway \in Seq(Piece)
      /\ Len(client.buffered) \in Nat
      /\ Underway = client.buffered \o wire /\ Paired(Underway)
  BY <1>1, Types DEF Underway, LineInv
<1>3. /\ Len(client.buffered) >= 2 /\ 1 \in 1..Len(client.buffered) /\ Len(Underway) >= 2
      /\ Underway[1] = piece /\ piece.part = 1
  <2>1. PICK i \in 1..Len(client.buffered) : client.buffered[i].part = 2
    BY <1>1, <1>2 DEF HasLine
  <2>2. \A k \in 1..Len(client.buffered) : Underway[k] = client.buffered[k]
    BY <1>2
  <2>3. Len(Underway) >= Len(client.buffered) /\ 1 \in 1..Len(client.buffered)
    BY <1>2, <2>1
  <2>4. Underway[1].part = 1
    BY <1>2, <2>3 DEF Paired
  <2>5. i # 1
    BY <2>1, <2>2, <2>4
  <2> QED
    BY <1>2, <2>1, <2>2, <2>3, <2>4, <2>5
<1>4. piece \in Piece /\ piece.kind \in Kind /\ piece.n \in Nat
  BY <1>2, <1>3, PieceFacts
<1>5. CASE piece.kind = "error" /\ Over("failed")
  <2>1. handler.pc = "erred"
    BY <1>2, <1>3, <1>5 DEF WordInv
  <2> QED
    BY <1>1, <1>5, <2>1, OverInv
<1>6. CASE piece.kind # "error"
           /\ client' = [client EXCEPT !.buffered = rest, !.stdout = out, !.stderr = err,
                                       !.exit = exit]
           /\ UNCHANGED timers
  <2>1. rest \in Seq(Piece) /\ rest \o wire = SubSeq(Underway, 3, Len(Underway))
    BY <1>2, <1>3, DropFacts, DropSame
  <2>2. client.stdout \in Seq(Nat) /\ client.stderr \in Seq(Nat)
    BY Types
  <2>3. out \in Seq(Nat) /\ err \in Seq(Nat) /\ exit \in {"none", "own", "late"}
    BY <1>4, <2>2, Types
  <2> HIDE DEF rest, out, err, exit
  <2>4. /\ client'.pc = "reading" /\ client'.outcome = client.outcome /\ client'.exit = exit
        /\ client'.stdout = out /\ client'.stderr = err /\ client'.buffered = rest
    BY <1>1, <1>6 DEF TypeOK
  <2>5. TypeOK'
    <3>1. client' \in [pc: {"idle", "sent", "reading", "over"},
                   outcome: {"none", "result", "timedOut", "failed", "aborted", "closed",
                             "cancelled"},
                   stdout: Seq(Nat), stderr: Seq(Nat), exit: {"none", "own", "late"},
                   buffered: Seq(Piece)]
      BY <1>6, <2>1, <2>3 DEF TypeOK
    <3>2. UNCHANGED <<call, timers, conn, faulty, wire, handler, command, pipes>>
      BY <1>1, <1>6
    <3> QED
      BY <3>1, <3>2 DEF TypeOK
  <2>6. Tracked' = Tracked /\ Tracked \subseteq Stream /\ \A s \in Stream : Sent(s)' = Sent(s)
    BY <1>1, Types DEF Tracked, Sent
  <2>7. Underway' = SubSeq(Underway, 3, Len(Underway))
    BY <1>1, <2>1, <2>4 DEF Underway
  <2>8. Paired(Underway') /\ (conn = "open" => Closed(Underway'))
    BY <1>1, <1>2, <1>3, <2>7, DropPairs DEF LineInv
  <2>9. ASSUME NEW s \in Tracked
        PROVE  /\ InTurn(Underway', s, Len(Got(s)'), Sent(s))
               /\ conn = "open" => Complete(Underway', s, Len(Got(s)'), Sent(s))
               /\ Len(Got(s)') <= Sent(s)
               /\ \A i \in 1..Len(Got(s)') : Got(s)'[i] = i
    <3>1. /\ s \in Stream /\ Got(s) \in Seq(Nat) /\ Len(Got(s)) \in Nat /\ Sent(s) \in Nat
          /\ Len(Got(s)) <= Sent(s) /\ \A i \in 1..Len(Got(s)) : Got(s)[i] = i
          /\ InTurn(Underway, s, Len(Got(s)), Sent(s))
          /\ conn = "open" => Complete(Underway, s, Len(Got(s)), Sent(s))
      BY <1>1, Types, SentNat DEF GotInv, LineInv
    <3>2. CASE piece.kind # s
      <4>1. Got(s)' = Got(s)
        BY <2>4, <3>1, <3>2 DEF Got, out, err, Stream
      <4> QED
        BY <1>2, <1>3, <2>7, <3>1, <3>2, <4>1, DropOther
    <3>3. CASE piece.kind = s
      <4>1. Got(s)' = Append(Got(s), piece.n)
        BY <2>4, <3>1, <3>3 DEF Got, out, err, Stream, Tracked
      <4>2. /\ piece.n = Len(Got(s)) + 1 /\ Len(Got(s)) + 1 <= Sent(s)
            /\ InTurn(Underway', s, Len(Got(s)) + 1, Sent(s))
            /\ conn = "open" => Complete(Underway', s, Len(Got(s)) + 1, Sent(s))
        BY <1>2, <1>3, <2>7, <3>1, <3>3, DropOwn
      <4>3. /\ Len(Append(Got(s), piece.n)) = Len(Got(s)) + 1
            /\ \A i \in 1..Len(Got(s)) : Append(Got(s), piece.n)[i] = Got(s)[i]
            /\ Append(Got(s), piece.n)[Len(Got(s)) + 1] = piece.n
        BY <1>4, <3>1
      <4>4. \A i \in 1..(Len(Got(s)) + 1) : i \in 1..Len(Got(s)) \/ i = Len(Got(s)) + 1
        BY <3>1
      <4> QED
        BY <3>1, <4>1, <4>2, <4>3, <4>4
    <3> QED
      BY <3>2, <3>3
  <2>10. PipeInv' /\ GotInv' /\ LineInv'
    BY <1>1, <2>6, <2>8, <2>9 DEF PipeInv, GotInv, LineInv
  <2>11. WordInv'
    <3>1. /\ Len(Underway') = Len(Underway) - 2
          /\ \A i \in 1..(Len(Underway) - 2) : Underway'[i] = Underway[i + 2]
      BY <1>2, <1>3, <2>7, DropFacts
    <3>2. ASSUME NEW i \in 1..Len(Underway')
          PROVE  i + 2 \in 1..Len(Underway) /\ Underway'[i] = Underway[i + 2]
      <4> DEFINE N == Len(Underway)
      <4>1. N \in Nat /\ N >= 2 /\ Len(Underway') = N - 2
        BY <1>2, <1>3, <3>1
      <4>2. i \in 1..(N - 2) /\ i + 2 \in 1..N
        <5> HIDE DEF N
        <5> QED
          BY <3>2, <4>1
      <4> QED
        BY <3>1, <4>2
    <3>3. ASSUME handler.pc = "answered", conn = "open"
          PROVE  \/ exit # "none"
                 \/ \E i \in 1..Len(Underway') : Underway'[i].part = 1 /\ Underway'[i].kind = "exit"
      <4>1. CASE client.exit # "none"
        BY <4>1 DEF exit
      <4>2. CASE client.exit = "none"
        <5>1. PICK i \in 1..Len(Underway) : Underway[i].part = 1 /\ Underway[i].kind = "exit"
          BY <1>1, <3>3, <4>2 DEF WordInv
        <5>2. CASE i = 1
          BY <1>3, <5>1, <5>2 DEF exit
        <5>3. CASE i # 1
          <6>1. i # 2
            <7>1. Underway[2].part = 2
              BY <1>2, <1>3, DropPairs
            <7> QED
              BY <5>1, <7>1
          <6>2. i - 2 \in 1..(Len(Underway) - 2) /\ (i - 2) + 2 = i
            BY <1>2, <5>3, <6>1
          <6> QED
            BY <3>1, <5>1, <6>2
        <5> QED
          BY <5>2, <5>3
      <4> QED
        BY <4>1, <4>2
    <3> QED
      BY <1>1, <2>4, <3>2, <3>3 DEF WordInv
  <2>12. client.outcome = "none"
    BY <1>1 DEF OutcomeInv
  <2>13. PlaceInv' /\ GuardInv' /\ OutcomeInv'
    BY <1>1, <1>6, <2>4, <2>12 DEF PlaceInv, GuardInv, OutcomeInv, FailsOnlyForCause
  <2> QED
    BY <2>5, <2>10, <2>11, <2>13
<1> QED
  BY <1>3, <1>5, <1>6 DEF NextLine

(* The wire is cut short, and the connection is no longer open. *)
LEMMA CutLines ==
  ASSUME Inv, NEW n \in 0..Len(wire), wire' = SubSeq(wire, 1, n), conn' # "open",
         UNCHANGED <<call, client, handler, command, pipes>>
  PROVE  wire' \in Seq(Piece) /\ PipeInv' /\ GotInv' /\ LineInv' /\ WordInv'
<1> USE DEF Inv
<1> DEFINE k == Len(client.buffered) + n
<1>1. wire \in Seq(Piece) /\ client.buffered \in Seq(Piece) /\ Underway = client.buffered \o wire
      /\ Underway \in Seq(Piece)
  BY Types DEF Underway
<1>2. wire' \in Seq(Piece)
  BY <1>1, CutFacts
<1>3. Underway' = client.buffered \o SubSeq(wire, 1, n)
  BY DEF Underway
<1>4. k \in 0..Len(Underway) /\ Underway' = SubSeq(Underway, 1, k)
  BY <1>1, <1>3, CutSame
<1> HIDE DEF k
<1>5. Len(Underway') = k /\ \A i \in 1..k : i \in 1..Len(Underway) /\ Underway'[i] = Underway[i]
  <2>1. Len(SubSeq(Underway, 1, k)) = k /\ \A i \in 1..k : SubSeq(Underway, 1, k)[i] = Underway[i]
    BY <1>1, <1>4, CutFacts
  <2>2. \A i \in 1..k : i \in 1..Len(Underway)
    BY <1>1, <1>4
  <2> QED
    BY <1>4, <2>1, <2>2
<1>6. /\ \A s \in Stream : Got(s)' = Got(s) /\ Sent(s)' = Sent(s)
      /\ Tracked' = Tracked /\ Tracked \subseteq Stream
  BY Types DEF Got, Sent, Tracked
<1>7. PipeInv' /\ GotInv'
  BY <1>6 DEF PipeInv, GotInv
<1>8. LineInv'
  <2> SUFFICES ASSUME client.pc # "over" PROVE LineInv'
    BY DEF LineInv
  <2>1. Paired(Underway')
    BY <1>1, <1>4, CutPairs DEF LineInv
  <2>2. ASSUME NEW s \in Tracked PROVE InTurn(Underway', s, Len(Got(s)), Sent(s))
    <3>1. InTurn(Underway, s, Len(Got(s)), Sent(s))
      BY DEF LineInv
    <3> QED
      BY <1>1, <1>4, <3>1, CutInTurn
  <2> QED
    BY <1>6, <2>1, <2>2 DEF LineInv
<1>9. WordInv'
  BY <1>5 DEF WordInv
<1> QED
  BY <1>2, <1>7, <1>8, <1>9

LEMMA GuardFiresInv == ASSUME Inv, GuardFires PROVE Inv'
<1> USE DEF Inv
<1>1. /\ "guard" \in DOMAIN timers /\ timers["guard"] = 0 /\ conn' = "aborted" /\ wire' = << >>
      /\ DOMAIN timers' = DOMAIN timers \ {"guard", "request", "answer"}
      /\ \A t \in DOMAIN timers' : timers'[t] = timers[t]
      /\ UNCHANGED <<call, client, faulty, handler, command, pipes>>
  BY DEF GuardFires, Due, Abort, Without
<1>2. client.pc \in {"sent", "reading"} /\ call.timeout # Never
  BY <1>1 DEF PlaceInv
<1>3. wire' = SubSeq(wire, 1, 0) /\ 0 \in 0..Len(wire)
  BY <1>1, Types
<1>4. wire' \in Seq(Piece) /\ PipeInv' /\ GotInv' /\ LineInv' /\ WordInv'
  BY <1>1, <1>3, CutLines
<1>5. TypeOK'
  BY <1>1, <1>4 DEF TypeOK
<1>6. call.mode = "run" => faulty
  <2> SUFFICES ASSUME call.mode = "run" PROVE faulty
    OBVIOUS
  <2>1. conn # "idle"
    BY <1>2 DEF PlaceInv
  <2>2. conn # "open"
    BY <1>1, <1>2, GuardRuns
  <2> QED
    BY <2>1, <2>2 DEF PlaceInv, TypeOK
<1>7. PlaceInv' /\ GuardInv'
  BY <1>1, <1>2, <1>6 DEF PlaceInv, GuardInv
<1>8. OutcomeInv'
  BY <1>1, <1>2 DEF OutcomeInv, FailsOnlyForCause
<1> QED
  BY <1>4, <1>5, <1>7, <1>8

-----------------------------------------------------------------------------
(* The network and time. *)
LEMMA FailInv == ASSUME Inv, NEW fault \in Faults, Fail(fault) PROVE Inv'
<1> USE DEF Inv
<1>1. /\ conn = "open" /\ client.pc # "over" /\ conn' = fault /\ faulty' = TRUE
      /\ DOMAIN timers' = DOMAIN timers \ {"request", "answer"}
      /\ \A t \in DOMAIN timers' : timers'[t] = timers[t]
      /\ UNCHANGED <<call, client, handler, command, pipes>>
  BY DEF Fail, Without
<1>2. fault \in {"lost", "silent"}
  BY ExecAssumption
<1>3. PICK n \in 0..Len(wire) : wire' = SubSeq(wire, 1, n)
  BY DEF Fail
<1>4. wire' \in Seq(Piece) /\ PipeInv' /\ GotInv' /\ LineInv' /\ WordInv'
  BY <1>1, <1>2, <1>3, CutLines
<1>5. TypeOK'
  BY <1>1, <1>2, <1>4 DEF TypeOK
<1>6. PlaceInv' /\ GuardInv' /\ OutcomeInv'
  BY <1>1, <1>2 DEF PlaceInv, GuardInv, OutcomeInv, FailsOnlyForCause
<1> QED
  BY <1>4, <1>5, <1>6

LEMMA TickInv == ASSUME Inv, Tick PROVE Inv'
<1> USE DEF Inv
<1>1. /\ ~Overdue /\ DOMAIN timers' = DOMAIN timers
      /\ \A t \in DOMAIN timers : timers'[t] = IF timers[t] = 0 THEN 0 ELSE timers[t] - 1
      /\ UNCHANGED <<call, conn, faulty, wire, client, handler, command, pipes>>
  BY DEF Tick
<1>2. \A t \in DOMAIN timers : timers[t] \in Nat /\ timers'[t] \in Nat
  BY <1>1, Numbers
<1>3. \A t \in DOMAIN timers : timers[t] > 0 => timers'[t] = timers[t] - 1
  BY <1>1, <1>2
<1>4. TypeOK'
  BY <1>1, <1>2 DEF TypeOK
<1>5. PipeInv' /\ GotInv' /\ LineInv' /\ \A s \in Stream : Got(s)' = Got(s)
  BY <1>1, DataFrame
<1>6. WordInv'
  <2>1. Underway' = Underway
    BY <1>1 DEF Underway
  <2> QED
    BY <1>1, <2>1 DEF WordInv
<1>7. PlaceInv' /\ OutcomeInv'
  BY <1>1, <1>5 DEF PlaceInv, OutcomeInv, FailsOnlyForCause
<1>8. GuardInv'
  <2> SUFFICES ASSUME call.mode = "run", call.timeout # Never, client.pc \in {"sent", "reading"},
                      conn = "open"
               PROVE  GuardInv'
    BY <1>1 DEF GuardInv
  <2>1. /\ "guard" \in DOMAIN timers /\ timers["guard"] \in Nat /\ timers["guard"] > 0
        /\ timers'["guard"] = timers["guard"] - 1
    BY <1>3, GuardRuns
  <2>2. CASE handler.pc = "idle"
    <3>1. /\ "request" \in DOMAIN timers /\ timers["request"] > 0 /\ timers["request"] \in Nat
          /\ timers["guard"] + Latency = timers["request"] + call.timeout + Slack
      BY <1>1, <1>2, <2>2 DEF GuardInv, Overdue, Due
    <3>2. timers'["guard"] + Latency = timers'["request"] + call.timeout + Slack
      BY <1>3, <2>1, <3>1, Numbers
    <3> QED
      BY <1>1, <2>1, <2>2, <3>1, <3>2 DEF GuardInv
  <2>3. CASE handler.pc = "serving" /\ handler.ctx = "open"
    <3>1. /\ "deadline" \in DOMAIN timers /\ timers["deadline"] > 0 /\ timers["deadline"] \in Nat
          /\ timers["guard"] + Latency >= timers["deadline"] + Slack
      BY <1>1, <1>2, <2>3 DEF GuardInv, Overdue, Due
    <3>2. timers'["guard"] + Latency >= timers'["deadline"] + Slack
      BY <1>3, <2>1, <3>1, Numbers
    <3> QED
      BY <1>1, <2>1, <2>3, <3>1, <3>2 DEF GuardInv
  <2>4. CASE handler.pc = "serving" /\ handler.ctx = "expired"
    <3>1. command.state \in {"running", "ended"}
      BY <2>4, Types DEF PlaceInv
    <3>2. ~command.killed
      BY <1>1, <2>4, <3>1 DEF Overdue
    <3>3. /\ "grace" \in DOMAIN timers /\ timers["grace"] > 0 /\ timers["grace"] \in Nat
          /\ timers["guard"] + Latency + Grace >= timers["grace"] + Slack
      BY <1>1, <1>2, <2>4, <3>2 DEF GuardInv, Overdue, Due
    <3>4. timers'["guard"] + Latency + Grace >= timers'["grace"] + Slack
      BY <1>3, <2>1, <3>3, Numbers
    <3> QED
      BY <1>1, <2>1, <2>4, <3>3, <3>4 DEF GuardInv
  <2>5. CASE handler.pc \in {"answered", "erred", "refused"}
    <3>1. /\ "answer" \in DOMAIN timers /\ timers["answer"] > 0 /\ timers["answer"] \in Nat
          /\ timers["answer"] < timers["guard"]
      BY <1>1, <1>2, <2>5 DEF GuardInv, Overdue, Due
    <3>2. timers'["answer"] < timers'["guard"]
      BY <1>3, <2>1, <3>1
    <3> QED
      BY <1>1, <2>1, <2>5, <3>1, <3>2 DEF GuardInv
  <2> QED
    BY <2>2, <2>3, <2>4, <2>5, Types DEF PlaceInv
<1> QED
  BY <1>4, <1>5, <1>6, <1>7, <1>8

LEMMA StutterInv == ASSUME Inv, UNCHANGED vars PROVE Inv'
<1> USE DEF Inv, vars
<1>1. TypeOK'
  BY DEF TypeOK
<1>2. PipeInv' /\ GotInv' /\ LineInv' /\ \A s \in Stream : Got(s)' = Got(s)
  BY DataFrame
<1>3. WordInv' /\ PlaceInv' /\ GuardInv' /\ OutcomeInv'
  BY <1>2 DEF WordInv, Underway, PlaceInv, GuardInv, OutcomeInv, FailsOnlyForCause
<1> QED
  BY <1>1, <1>2, <1>3

LEMMA NextInv == Inv /\ [Next]_vars => Inv'
<1> SUFFICES ASSUME Inv, [Next]_vars PROVE Inv'
  OBVIOUS
<1>1. CASE Agent
  BY <1>1, ArriveInv, RefuseInv, KillGroupInv, AnswerInv, ContextEndsInv, ForwardInv DEF Agent
<1>2. CASE Client
  BY <1>2, HeadersInv, NextLineInv, EndOfBodyInv, ReadFailsInv, GuardFiresInv, ChunkInv
     DEF Client
<1>3. CASE Request \/ Cancel \/ Tick \/ CommandEnds \/ UNCHANGED vars
  BY <1>3, RequestInv, CancelInv, TickInv, CommandEndsInv, StutterInv
<1>4. CASE \E s \in Stream : Write(s)
  BY <1>4, WriteInv
<1>5. CASE \E fault \in Faults : Fail(fault)
  BY <1>5, FailInv
<1> QED
  BY <1>1, <1>2, <1>3, <1>4, <1>5 DEF Next

-----------------------------------------------------------------------------
(* The invariant holds of every reachable state: the pipes, the lines under     *)
(* way and the collected chunks of a stream are one sequence in three pieces,   *)
(* and the guard outlasts what the agent still has to do.                       *)
THEOREM ExecCallsInvariant == Spec => []Inv
  BY InitInv, NextInv, PTL DEF Spec

(* A sequence that counts up from 1 is what was written up to its length. *)
LEMMA CountedUp ==
  ASSUME NEW q \in Seq(Nat), NEW w \in Nat, Len(q) <= w, \A i \in 1..Len(q) : q[i] = i
  PROVE  /\ q = SubSeq([i \in 1..w |-> i], 1, Len(q))
         /\ Len(q) = w => q = [i \in 1..w |-> i]
<1> DEFINE all == [i \in 1..w |-> i]
           head == SubSeq(all, 1, Len(q))
<1>1. all \in Seq(Nat) /\ Len(all) = w /\ \A i \in 1..w : all[i] = i
  <2>1. \A i \in 1..w : i \in Nat
    OBVIOUS
  <2>2. all \in Seq(Nat)
    BY <2>1, IsASeq
  <2>3. DOMAIN all = 1..w
    OBVIOUS
  <2> QED
    BY <2>2, <2>3
<1> HIDE DEF all
<1>2. head \in Seq(Nat) /\ Len(head) = Len(q) /\ \A i \in 1..Len(q) : head[i] = all[i]
  <2>1. Len(q) \in 0..Len(all)
    BY <1>1
  <2> QED
    BY <1>1, <2>1
<1> HIDE DEF head
<1>3. \A i \in 1..Len(q) : head[i] = q[i]
  BY <1>1, <1>2
<1>4. head = q
  BY <1>2, <1>3, SeqEqual
<1>5. Len(q) = w => q = all
  BY <1>1, SeqEqual
<1> QED
  BY <1>4, <1>5 DEF head, all

LEMMA Collected ==
  ASSUME Inv, NEW s \in Tracked
  PROVE  /\ Got(s) = SubSeq(Written(s), 1, Len(Got(s)))
         /\ Len(Got(s)) = command.written[s] => Got(s) = Written(s)
<1>1. /\ s \in Stream /\ Got(s) \in Seq(Nat) /\ Len(Got(s)) \in Nat
      /\ command.written[s] \in Nat /\ Len(pipes[s]) \in Nat
  BY Types DEF Inv
<1>2. Len(Got(s)) <= Sent(s) /\ \A i \in 1..Len(Got(s)) : Got(s)[i] = i
  BY DEF Inv, GotInv
<1>3. Len(Got(s)) <= command.written[s]
  BY <1>1, <1>2 DEF Sent
<1> QED
  BY <1>1, <1>2, <1>3, CountedUp DEF Written

(* A run's result, on time or past the deadline, holds all the command wrote,   *)
(* on each stream in order, for every interleaving of the two readers and every *)
(* cut of the lines (channel.ts run, ndjson.ts readNdjson, server.go exec).     *)
THEOREM ResultIsWhole == Spec => []ResultWhole
<1>1. Inv => ResultWhole
  <2> SUFFICES ASSUME Inv, client.outcome \in {"result", "timedOut"}
               PROVE  /\ call.mode = "run" /\ command.state = "ended"
                      /\ client.stdout = Written("stdout") /\ client.stderr = Written("stderr")
    BY DEF ResultWhole
  <2>1. /\ call.mode = "run" /\ command.state = "ended"
        /\ \A s \in Stream : Len(Got(s)) = command.written[s]
    BY DEF Inv, OutcomeInv
  <2>2. "stdout" \in Tracked /\ "stderr" \in Tracked /\ Tracked = Stream
    BY <2>1 DEF Tracked, Stream
  <2>3. Got("stdout") = Written("stdout") /\ Got("stderr") = Written("stderr")
    BY <2>1, <2>2, Collected
  <2> QED
    BY <2>1, <2>3 DEF Got
<1> QED
  BY <1>1, ExecCallsInvariant, PTL

(* What a stream's reader has is a beginning of what the command wrote to       *)
(* stdout, and all of it when the stream closed and was not aborted             *)
(* (channel.ts stream).                                                         *)
THEOREM StreamIsHonest == Spec => []StreamHonest
<1>1. Inv => StreamHonest
  <2> SUFFICES ASSUME Inv
               PROVE  /\ client.stdout = SubSeq(Written("stdout"), 1, Len(client.stdout))
                      /\ (client.outcome = "closed" /\ conn # "aborted") =>
                           command.state = "ended" /\ client.stdout = Written("stdout")
    BY DEF StreamHonest
  <2>1. "stdout" \in Tracked /\ Got("stdout") = client.stdout
    BY Types DEF Inv, Got
  <2>2. /\ client.stdout = SubSeq(Written("stdout"), 1, Len(client.stdout))
        /\ Len(client.stdout) = command.written["stdout"] => client.stdout = Written("stdout")
    BY <2>1, Collected
  <2> QED
    BY <2>2 DEF Inv, OutcomeInv
<1> QED
  BY <1>1, ExecCallsInvariant, PTL

(* A call fails, or is aborted by its own guard, only when the network failed   *)
(* it, the agent refused it or the agent could not collect the command          *)
(* (channel.ts run, TIMEOUT_SLACK_MS against server.go killGrace).              *)
THEOREM FailureHasCause == Spec => []FailsOnlyForCause
<1>1. Inv => FailsOnlyForCause
  BY DEF Inv, OutcomeInv
<1> QED
  BY <1>1, ExecCallsInvariant, PTL

-----------------------------------------------------------------------------
(* Whether a command timed out: the client's verdict and the agent's context. *)

(* What lines of a response b say of the exit is what handler h knows. *)
Truthful(b, h) ==
  \A i \in 1..Len(b) : b[i].kind = "exit" =>
    h.pc = "answered" /\ (b[i].n = 1 <=> h.ctx = "expired")

VerdictInv ==
  /\ "deadline" \in DOMAIN timers \/ handler.ctx = "expired" =>
       call.mode = "run" /\ call.timeout # Never
  /\ Truthful(wire, handler) /\ Truthful(client.buffered, handler)
  /\ client.exit # "none" =>
       handler.pc = "answered" /\ (client.exit = "late" <=> handler.ctx = "expired")
  /\ client.outcome = "timedOut" => client.exit = "late"
  /\ client.outcome = "result" => client.exit = "own"

LEMMA TruthfulGrows ==
  ASSUME NEW b \in Seq(Piece), NEW kind \in Kind, NEW n \in Nat, NEW h, Truthful(b, h),
         kind = "exit" => h.pc = "answered" /\ (n = 1 <=> h.ctx = "expired")
  PROVE  Truthful(b \o Line(kind, n), h)
<1> DEFINE c == b \o Line(kind, n)
<1>1. /\ c \in Seq(Piece) /\ Len(c) = Len(b) + 2 /\ \A i \in 1..Len(b) : c[i] = b[i]
      /\ c[Len(b) + 1] = [kind |-> kind, n |-> n, part |-> 1]
      /\ c[Len(b) + 2] = [kind |-> kind, n |-> n, part |-> 2]
  BY LineFacts
<1> HIDE DEF c
<1>2. ASSUME NEW i \in 1..Len(c), c[i].kind = "exit"
      PROVE  h.pc = "answered" /\ (c[i].n = 1 <=> h.ctx = "expired")
  <2>1. i \in 1..Len(b) \/ i = Len(b) + 1 \/ i = Len(b) + 2
    BY <1>1
  <2>2. CASE i \in 1..Len(b)
    BY <1>1, <1>2, <2>2 DEF Truthful
  <2>3. CASE i = Len(b) + 1 \/ i = Len(b) + 2
    <3>1. c[i].kind = kind /\ c[i].n = n
      BY <1>1, <2>3
    <3> QED BY <1>2, <3>1
  <2> QED BY <2>1, <2>2, <2>3
<1> QED BY <1>2 DEF Truthful, c

LEMMA TruthfulParts ==
  ASSUME NEW b \in Seq(Piece), NEW c \in Seq(Piece), NEW h, Truthful(b, h), Truthful(c, h)
  PROVE  /\ Truthful(b \o c, h) /\ Truthful(<< >>, h)
         /\ \A m \in 1..(Len(b) + 1), n \in 0..Len(b) : Truthful(SubSeq(b, m, n), h)
<1>1. Truthful(b \o c, h)
  <2>1. /\ Len(b \o c) = Len(b) + Len(c) /\ Len(b) \in Nat /\ Len(c) \in Nat
        /\ \A i \in 1..Len(b) : (b \o c)[i] = b[i]
        /\ \A i \in 1..Len(b \o c) : ~(i \in 1..Len(b)) =>
             i - Len(b) \in 1..Len(c) /\ (b \o c)[i] = c[i - Len(b)]
    OBVIOUS
  <2> QED BY <2>1 DEF Truthful
<1>2. ASSUME NEW m \in 1..(Len(b) + 1), NEW n \in 0..Len(b)
      PROVE  Truthful(SubSeq(b, m, n), h)
  <2>1. \A i \in 1..Len(SubSeq(b, m, n)) :
          m + i - 1 \in 1..Len(b) /\ SubSeq(b, m, n)[i] = b[m + i - 1]
    OBVIOUS
  <2> QED BY <2>1 DEF Truthful
<1>3. Truthful(<< >>, h)
  BY DEF Truthful
<1> QED BY <1>1, <1>2, <1>3

(* Before the handler's last word no line says anything of the exit. *)
LEMMA Unanswered ==
  ASSUME NEW b, NEW h, NEW k, Truthful(b, h), h.pc # "answered"
  PROVE  Truthful(b, k)
  BY DEF Truthful

(* A line sent, or not sent any more. *)
LEMMA SendTruthful ==
  ASSUME TypeOK, NEW kind \in Kind, NEW n \in Nat, NEW h, Truthful(wire, h), Send(Line(kind, n)),
         kind = "exit" => h.pc = "answered" /\ (n = 1 <=> h.ctx = "expired")
  PROVE  Truthful(wire', h)
  BY Types, TruthfulGrows DEF Send

LEMMA VerdictFrame ==
  ASSUME VerdictInv, UNCHANGED <<call, handler>>,
         "deadline" \in DOMAIN timers' => "deadline" \in DOMAIN timers,
         Truthful(wire', handler), Truthful(client'.buffered, handler),
         client'.exit = client.exit, client'.outcome = client.outcome
  PROVE  VerdictInv'
  BY DEF VerdictInv, Truthful

(* The call is over, with a verdict that follows the exit it saw. *)
LEMMA VerdictOver ==
  ASSUME TypeOK, VerdictInv, NEW outcome, Over(outcome), UNCHANGED <<call, handler>>,
         wire' \in {wire, << >>},
         outcome = "timedOut" => client.exit = "late",
         outcome = "result" => client.exit = "own"
  PROVE  VerdictInv'
<1>1. DOMAIN timers' \subseteq DOMAIN timers
  BY DEF Over, Without
<1>2. /\ client'.outcome = outcome /\ client'.exit = client.exit
      /\ client'.buffered = << >>
  BY DEF Over, TypeOK
<1>3. Truthful(wire', handler) /\ Truthful(<< >>, handler)
  BY DEF VerdictInv, Truthful
<1> QED BY <1>1, <1>2, <1>3 DEF VerdictInv, Truthful

LEMMA VerdictInit == Init => VerdictInv
  BY DEF Init, VerdictInv, Truthful

LEMMA VerdictAgent == ASSUME Inv, VerdictInv, Agent PROVE VerdictInv'
<1>t. TypeOK /\ Truthful(wire, handler) /\ Truthful(client.buffered, handler)
  BY DEF Inv, VerdictInv
<1>k. {"pid", "refusal", "exit", "error"} \subseteq Kind /\ Stream \subseteq Kind
  BY DEF Kind
<1>1. CASE Arrive \/ Refuse
  <2>1. /\ handler.pc = "idle" /\ handler'.pc # "answered" /\ handler'.ctx = handler.ctx
        /\ UNCHANGED <<call, client>> /\ client.exit = "none"
    BY <1>1, <1>t DEF Arrive, Refuse, TypeOK, VerdictInv
  <2>2. Truthful(wire, handler') /\ Truthful(client.buffered, handler')
    BY <1>t, <2>1, Unanswered
  <2>3. Truthful(wire', handler')
    BY <1>1, <1>t, <1>k, <2>2, SendTruthful DEF Arrive, Refuse
  <2>4. "deadline" \in DOMAIN timers' =>
          "deadline" \in DOMAIN timers \/ (call.mode = "run" /\ call.timeout # Never)
    BY <1>1 DEF Arrive, Refuse, With, Without
  <2> QED BY <2>1, <2>2, <2>3, <2>4 DEF VerdictInv
<1>2. CASE Answer
  <2>1. /\ handler.pc = "serving" /\ handler'.ctx = handler.ctx
        /\ UNCHANGED <<call, client>> /\ client.exit = "none"
    BY <1>2, <1>t DEF Answer, TypeOK, VerdictInv
  <2>2. Truthful(wire, handler') /\ Truthful(client.buffered, handler')
    BY <1>t, <2>1, Unanswered
  <2>3. Truthful(wire', handler')
    <3>1. CASE /\ handler' = [handler EXCEPT !.pc = "answered"]
               /\ Send(Line("exit", IF handler.ctx = "expired" THEN 1 ELSE 0))
      <4>1. handler'.pc = "answered"
        BY <3>1, <1>t DEF TypeOK
      <4>2. CASE handler.ctx = "expired"
        BY <3>1, <4>1, <4>2, <1>t, <1>k, <2>1, <2>2, SendTruthful
      <4>3. CASE handler.ctx # "expired"
        <5>1. Send(Line("exit", 0)) /\ 0 \in Nat /\ 0 # 1 /\ handler'.ctx # "expired"
          BY <3>1, <4>3, <2>1
        <5> QED BY <4>1, <5>1, <1>t, <1>k, <2>2, SendTruthful
      <4> QED BY <4>2, <4>3
    <3>2. CASE Send(Line("error", 0))
      BY <3>2, <1>t, <1>k, <2>2, SendTruthful
    <3> QED BY <1>2, <3>1, <3>2 DEF Answer
  <2>4. "deadline" \notin DOMAIN timers'
    BY <1>2 DEF Answer, With, Without
  <2> QED BY <2>1, <2>2, <2>3, <2>4 DEF VerdictInv
<1>3. ASSUME NEW cause \in {"expired", "cancelled"}, ContextEnds(cause)
      PROVE  VerdictInv'
  <2>1. /\ handler.pc = "serving" /\ handler'.pc = "serving" /\ handler'.ctx = cause
        /\ UNCHANGED <<call, client, wire>> /\ client.exit = "none"
    BY <1>3, <1>t DEF ContextEnds, TypeOK, VerdictInv
  <2>2. Truthful(wire, handler') /\ Truthful(client.buffered, handler')
    BY <1>t, <2>1, Unanswered
  <2>3. /\ cause = "expired" => "deadline" \in DOMAIN timers
        /\ "deadline" \notin DOMAIN timers'
    BY <1>3 DEF ContextEnds, Due, With, Without
  <2> QED BY <2>1, <2>2, <2>3 DEF VerdictInv
<1>4. CASE KillGroup
  <2>1. UNCHANGED <<call, handler, client, wire>> /\ DOMAIN timers' \subseteq DOMAIN timers
    BY <1>4 DEF KillGroup, Without
  <2> QED BY <1>t, <2>1, VerdictFrame
<1>5. ASSUME NEW s \in Stream, Forward(s)
      PROVE  VerdictInv'
  <2>1. s \in Kind /\ s # "exit" /\ Head(pipes[s]) \in Nat
    <3>1. pipes[s] \in Seq(Nat) /\ pipes[s] # << >>
      BY <1>5, <1>t, Types DEF Forward
    <3>2. Head(pipes[s]) \in Nat
      BY <3>1
    <3> QED BY <3>2 DEF Kind, Stream
  <2>2. Truthful(wire', handler)
    BY <1>5, <1>t, <2>1, SendTruthful DEF Forward
  <2> QED BY <1>5, <1>t, <2>2, VerdictFrame DEF Forward
<1> QED BY <1>1, <1>2, <1>3, <1>4, <1>5 DEF Agent

LEMMA VerdictClient == ASSUME Inv, VerdictInv, Client \/ Cancel PROVE VerdictInv'
<1>t. /\ TypeOK /\ Truthful(wire, handler) /\ Truthful(client.buffered, handler)
      /\ wire \in Seq(Piece) /\ client.buffered \in Seq(Piece)
  BY Types DEF Inv, VerdictInv
<1>1. CASE Headers
  <2>1. CASE wire[1].kind = "refusal"
    BY <1>1, <1>t, <2>1, VerdictOver DEF Headers
  <2>2. CASE wire[1].kind # "refusal"
    <3>1. /\ "deadline" \in DOMAIN timers' => "deadline" \in DOMAIN timers
          /\ UNCHANGED <<call, handler, wire>>
      BY <1>1, <2>2 DEF Headers, With
    <3>2. /\ client'.exit = client.exit /\ client'.outcome = client.outcome
          /\ client'.buffered = client.buffered
      BY <1>1, <1>t, <2>2 DEF Headers, TypeOK
    <3> QED BY <1>t, <3>1, <3>2, VerdictFrame
  <2> QED BY <2>1, <2>2
<1>2. CASE NextLine
  <2> DEFINE piece == client.buffered[1]
             rest == SubSeq(client.buffered, 3, Len(client.buffered))
             exit == IF piece.kind # "exit" THEN client.exit
                     ELSE IF piece.n = 1 THEN "late" ELSE "own"
  <2>1. client.pc = "reading" /\ UNCHANGED <<call, handler, wire>>
    BY <1>2 DEF NextLine
  <2>2. CASE piece.part = 2 \/ piece.kind = "error"
    BY <1>2, <1>t, <2>1, <2>2, VerdictOver DEF NextLine
  <2>3. CASE ~(piece.part = 2 \/ piece.kind = "error")
    <3>1. UNCHANGED timers /\ client'.buffered = rest /\ client'.exit = exit
          /\ client'.outcome = client.outcome /\ client.outcome = "none"
      BY <1>2, <2>1, <2>3 DEF NextLine, Inv, TypeOK, OutcomeInv
    <3>2. PICK i \in 1..Len(client.buffered) : client.buffered[i].part = 2
      BY <1>2, <1>t DEF NextLine, HasLine
    <3>3. Len(client.buffered) >= 2 /\ 1 \in 1..Len(client.buffered)
      <4>1. i # 1
        BY <2>3, <3>2
      <4> QED BY <1>t, <4>1
    <3>4. Truthful(rest, handler)
      BY <1>t, <3>3, TruthfulParts
    <3>5. exit # "none" =>
            handler.pc = "answered" /\ (exit = "late" <=> handler.ctx = "expired")
      BY <1>t, <3>3 DEF VerdictInv, Truthful
    <3> HIDE DEF rest, exit
    <3> QED BY <1>t, <2>1, <3>1, <3>4, <3>5 DEF VerdictInv
  <2> QED BY <2>2, <2>3
<1>3. CASE EndOfBody
  <2> DEFINE outcome == IF call.mode = "run" THEN Judged ELSE "closed"
  <2>1. /\ outcome = "timedOut" => client.exit = "late"
        /\ outcome = "result" => client.exit = "own"
    BY <1>t, Types DEF Judged
  <2>2. Over(outcome) /\ UNCHANGED <<call, handler, wire>>
    BY <1>3 DEF EndOfBody
  <2> HIDE DEF outcome
  <2> QED BY <1>t, <2>1, <2>2, VerdictOver
<1>4. CASE ReadFails
  <2>1. PICK outcome \in {"failed", "aborted", "closed"} : Over(outcome)
    BY <1>4 DEF ReadFails
  <2>2. UNCHANGED <<call, handler, wire>>
    BY <1>4 DEF ReadFails
  <2> QED BY <1>t, <2>1, <2>2, VerdictOver
<1>5. CASE GuardFires
  <2>1. /\ UNCHANGED <<call, handler, client>> /\ wire' = << >>
        /\ DOMAIN timers' \subseteq DOMAIN timers
    BY <1>5 DEF GuardFires, Abort, Without
  <2>2. Truthful(<< >>, handler)
    BY DEF Truthful
  <2> QED BY <1>t, <2>1, <2>2, VerdictFrame
<1>6. CASE Cancel
  BY <1>6, <1>t, VerdictOver DEF Cancel, Abort
<1>7. ASSUME NEW n \in 1..Len(wire), Chunk(n)
      PROVE  VerdictInv'
  <2>1. /\ UNCHANGED <<call, timers, handler>> /\ wire' = SubSeq(wire, n + 1, Len(wire))
        /\ client'.buffered = client.buffered \o SubSeq(wire, 1, n)
        /\ client'.exit = client.exit /\ client'.outcome = client.outcome
    BY <1>7, <1>t DEF Chunk, TypeOK
  <2>2. /\ n + 1 \in 1..(Len(wire) + 1) /\ Len(wire) \in 0..Len(wire)
        /\ 1 \in 1..(Len(wire) + 1) /\ n \in 0..Len(wire)
    BY <1>t
  <2>3. Truthful(SubSeq(wire, n + 1, Len(wire)), handler) /\ Truthful(SubSeq(wire, 1, n), handler)
    BY <1>t, <2>2, TruthfulParts
  <2>4. SubSeq(wire, 1, n) \in Seq(Piece)
    BY <1>t, <2>2, CutFacts
  <2>5. Truthful(client.buffered \o SubSeq(wire, 1, n), handler)
    BY <1>t, <2>3, <2>4, TruthfulParts
  <2> QED BY <2>1, <2>3, <2>5, VerdictFrame
<1> QED BY <1>1, <1>2, <1>3, <1>4, <1>5, <1>6, <1>7 DEF Client

LEMMA VerdictNext == Inv /\ VerdictInv /\ [Next]_vars => VerdictInv'
<1> SUFFICES ASSUME Inv, VerdictInv, [Next]_vars PROVE VerdictInv'
  OBVIOUS
<1>t. /\ TypeOK /\ Truthful(wire, handler) /\ Truthful(client.buffered, handler)
      /\ wire \in Seq(Piece) /\ client.buffered \in Seq(Piece)
  BY Types DEF Inv, VerdictInv
<1>1. CASE Request
  <2>1. /\ "deadline" \in DOMAIN timers' => "deadline" \in DOMAIN timers
        /\ UNCHANGED <<call, handler, wire>>
    BY <1>1 DEF Request, With
  <2>2. /\ client'.exit = client.exit /\ client'.outcome = client.outcome
        /\ client'.buffered = client.buffered
    BY <1>1, <1>t DEF Request, TypeOK
  <2> QED BY <1>t, <2>1, <2>2, VerdictFrame
<1>2. CASE Tick \/ CommandEnds \/ (\E s \in Stream : Write(s)) \/ UNCHANGED vars
  <2>1. UNCHANGED <<call, handler, wire, client>> /\ DOMAIN timers' = DOMAIN timers
    BY <1>2 DEF Tick, CommandEnds, Write, vars
  <2> QED BY <1>t, <2>1, VerdictFrame
<1>3. ASSUME NEW fault \in Faults, Fail(fault)
      PROVE  VerdictInv'
  <2>1. /\ UNCHANGED <<call, handler, client>> /\ DOMAIN timers' \subseteq DOMAIN timers
        /\ \E n \in 0..Len(wire) : wire' = SubSeq(wire, 1, n)
    BY <1>3 DEF Fail, Without
  <2>2. Truthful(wire', handler)
    <3>1. 1 \in 1..(Len(wire) + 1)
      BY <1>t
    <3> QED BY <1>t, <2>1, <3>1, TruthfulParts
  <2> QED BY <1>t, <2>1, <2>2, VerdictFrame
<1> QED BY <1>1, <1>2, <1>3, VerdictAgent, VerdictClient DEF Next

(* A run says that the command timed out exactly when the agent's own deadline  *)
(* for this call had expired by the time the command was collected, never       *)
(* because a caller left, a line was lost or the client's guard fired           *)
(* (server.go exec, TimedOut; channel.ts run).                                  *)
VerdictTrue ==
  /\ client.outcome = "timedOut" => handler.ctx = "expired" /\ call.timeout # Never
  /\ client.outcome = "result" => handler.ctx # "expired"

(* The verdict a run returns on the deadline is the agent's, for all timeouts,  *)
(* latencies and graces and whatever the network does to the response           *)
(* (server.go exec, channel.ts run).                                            *)
THEOREM VerdictIsTrue == Spec => []VerdictTrue
<1>1. VerdictInv => VerdictTrue
  BY DEF VerdictInv, VerdictTrue
<1> QED
  BY <1>1, VerdictInit, VerdictNext, ExecCallsInvariant, PTL DEF Spec

=============================================================================
