--------------------------- MODULE SessionProofs ----------------------------
(***************************************************************************)
(* That the haggling stays in step and ends where the requests begin, for  *)
(* any options and any number of them, and that the requests that follow   *)
(* it stay in step too (ConnectionProofs).                                 *)
(***************************************************************************)
EXTENDS Session, ConnectionProofs

-----------------------------------------------------------------------------
(* The haggling.  n options have been sent, q[1] to q[n], by a client that *)
(* expects the zeros if p: what it has sent, and what it is owed for it.   *)

HUnits == [part : {"flags", "o1", "o2", "payload"}, id : Nat \cup DOMAIN Options]
Msgs   == [part : {"reply", "greeting", "export", "zeros"},
           opt  : {"", "ABORT", "LIST", "INFO", "GO", "OTHER"},
           type : {"", "INFO", "ACK", "SERVER", "ERR_UNSUP"}]

OptFrame(k) ==
  <<Part("o1", k), Part("o2", k)>> \o [j \in 1..Options[k].n |-> Part("payload", k)]

Said(n, p, q) ==
  [k \in 1..(n + 1) |-> IF k = 1 THEN <<Part("flags", IF p THEN 0 ELSE 1)>>
                                 ELSE OptFrame(q[k - 1])]

Answers(o, p) ==
  CASE o.opt = "EXPORT_NAME"    -> IF p THEN <<HS!Bare("export"), HS!Bare("zeros")>>
                                        ELSE <<HS!Bare("export")>>
    [] o.opt \in {"GO", "INFO"} -> <<HS!Reply(o.opt, "INFO"), HS!Reply(o.opt, "ACK")>>
    [] o.opt = "LIST"           -> <<HS!Reply(o.opt, "SERVER"), HS!Reply(o.opt, "ACK")>>
    [] o.opt = "ABORT"          -> <<HS!Reply(o.opt, "ACK")>>
    [] o.opt = "OTHER"          -> <<HS!Reply(o.opt, "ERR_UNSUP")>>

Owed(n, p, q) ==
  [k \in 1..(n + 1) |-> IF k = 1 THEN <<HS!Bare("greeting")>>
                        ELSE IF HS!Sound(Options[q[k - 1]]) THEN Answers(Options[q[k - 1]], p)
                        ELSE <<>>]

(* After it the client sends no other option.                              *)
Final(o) == ~HS!Sound(o) \/ HS!Begins(o) \/ o.opt = "ABORT"

(* How much of what the client said the server has answered, when it has   *)
(* begun to receive i of it.                                               *)
Done(i) ==
  IF hs = "greet" THEN 0 ELSE IF hs = "flags" THEN 1 ELSE IF hs = "option" THEN i ELSE i - 1

Heard == IF hs = "payload" THEN Options[opt].n ELSE 0

(* The client's last option is what it waits for.                          *)
Ends(q) ==
  /\ \A k \in 1..asks : Final(Options[q[k]]) =>
       /\ k = asks /\ cl # "haggle"
       /\ ~HS!Sound(Options[q[k]]) => cl = "left"
       /\ HS!Sound(Options[q[k]]) /\ Options[q[k]].opt = "ABORT" => cl \in {"leaving", "left"}
       /\ HS!Sound(Options[q[k]]) /\ HS!Begins(Options[q[k]]) => cl = "last"
  /\ cl = "last" => /\ asks > 0 /\ HS!Sound(Options[q[asks]]) /\ HS!Begins(Options[q[asks]])

Answered(q, i) ==
  /\ \A k \in 1..asks : Final(Options[q[k]]) => Done(i) <= k
  /\ Follows(due, asks + 1, Owed(asks, padded, q), Done(i), Len(back))

Place(q, i) ==
  /\ i \in 0..(asks + 1) /\ (i = 0 <=> hs \in {"greet", "flags"})
  /\ hs \in {"payload", "answer"} => i > 1 /\ opt = q[i - 1] /\ HS!Sound(Options[opt])
  /\ hs = "greet" => back = <<>> /\ cl = "greeting"
  /\ hs \in {"option", "payload", "answer"} => (padded <=> ~no_zeroes)

Streams(q, i) ==
  /\ wire \in Seq(HUnits) /\ pushing \in Seq(HUnits)
  /\ cl = "greeting" => asks = 0 /\ wire = <<>> /\ pushing = <<>> /\ hs \in {"greet", "flags"}
  /\ cl # "greeting" /\ ~(hs = "answer" /\ Options[opt].opt = "ABORT")
       => Follows(Stream, asks + 1, Said(asks, padded, q), i, Heard)

Talk(q, i) ==
  q \in [1..asks -> DOMAIN Options] /\ Ends(q) /\ Answered(q, i) /\ Place(q, i) /\ Streams(q, i)

Talking == {"greet", "flags", "option", "payload", "answer"}

(* Nothing has been asked for yet.                                         *)
Idle ==
  /\ sent = <<>> /\ pc = "top" /\ head = 0
  /\ reqs = <<>> /\ nops = 0 /\ trailer = 0 /\ errs = <<>> /\ left = 0 /\ err = "ok"
  /\ taken = <<>> /\ replies = <<>>

STyped ==
  /\ hs \in Talking \cup {"lost", "transmit"}
  /\ cl \in {"greeting", "haggle", "last", "leaving", "left", "transmit"}
  /\ padded \in BOOLEAN /\ no_zeroes \in BOOLEAN /\ asks \in Nat
  /\ back \in Seq(Msgs) /\ due \in Seq(Msgs)
  /\ Len(back) <= Len(due) /\ \A j \in 1..Len(back) : back[j] = due[j]

SInv ==
  /\ STyped
  /\ hs \in Talking => \E q, i : Talk(q, i)
  /\ hs # "transmit" => Idle /\ cl # "transmit"
  /\ hs = "lost" => closed \/ cl \in {"left", "leaving"}
  /\ hs = "transmit" => /\ ConnInv /\ Len(due) = Len(back) /\ cl \in {"last", "transmit"}
                        /\ cl = "transmit" => due = <<>>

LEMMA ConnStarts ==
  ASSUME Idle, wire = <<>>, pushing = <<>>
  PROVE  ConnInv
  <1>1. Typed
    BY ConnectionAssumption DEF Idle, Typed, Labels, Errors
  <1>2. Aligned
    <2>1. Stream = <<>> /\ Len(sent) = 0 /\ head = 0 /\ Rem = 0
      BY DEF Idle, Stream, Rem
    <2> QED
      BY <2>1, NothingFollows DEF Aligned, Within
  <1>3. Counted /\ Batched /\ RepliesFramed
    BY DEF Idle, Counted, Over, Batched, Gathering, nreq, RepliesFramed
  <1>4. Fits
    BY Sizes DEF Idle, Fits, WithinStaging, nreq
  <1> QED
    BY <1>1, <1>2, <1>3, <1>4, Zenon DEF ConnInv

-----------------------------------------------------------------------------
(* The haggling.                                                           *)

LEMMA OptionOf ==
  ASSUME NEW k \in DOMAIN Options
  PROVE  /\ Options[k] \in HS!Option /\ Options[k].n \in Nat
         /\ HS!Sound(Options[k]) \in BOOLEAN
  BY SessionAssumption, Zenon DEF HS!Option, HS!Sound

LEMMA AnswersType ==
  ASSUME NEW o \in HS!Option, NEW p \in BOOLEAN
  PROVE  Answers(o, p) \in Seq(Msgs) /\ Len(Answers(o, p)) \in Nat /\ Len(Answers(o, p)) > 0
  <1>1. \A a \in Msgs : <<a>> \in Seq(Msgs) /\ Len(<<a>>) = 1
    OBVIOUS
  <1>2. \A a, b \in Msgs : <<a, b>> \in Seq(Msgs) /\ Len(<<a, b>>) = 2
    OBVIOUS
  <1>3. /\ \A k \in {"export", "zeros"} : HS!Bare(k) \in Msgs
        /\ \A k \in {"GO", "INFO", "LIST", "ABORT", "OTHER"},
             l \in {"INFO", "ACK", "SERVER", "ERR_UNSUP"} : HS!Reply(k, l) \in Msgs
    BY Zenon DEF Msgs, HS!Bare, HS!Reply
  <1>4. o.opt \in {"EXPORT_NAME", "ABORT", "LIST", "INFO", "GO", "OTHER"}
    BY Zenon DEF HS!Option
  <1>5. \/ \E a \in Msgs : Answers(o, p) = <<a>>
        \/ \E a, b \in Msgs : Answers(o, p) = <<a, b>>
    <2>1. CASE o.opt = "EXPORT_NAME"
      BY <1>3, <2>1, Zenon DEF Answers
    <2>2. CASE o.opt = "ABORT"
      BY <1>3, <2>2, Zenon DEF Answers
    <2>3. CASE o.opt = "LIST"
      BY <1>3, <2>3, Zenon DEF Answers
    <2>4. CASE o.opt \in {"GO", "INFO"}
      BY <1>3, <2>4, Zenon DEF Answers
    <2>5. CASE o.opt = "OTHER"
      BY <1>3, <2>5, Zenon DEF Answers
    <2> QED
      BY <1>4, <2>1, <2>2, <2>3, <2>4, <2>5, Zenon
  <1>6. CASE \E a \in Msgs : Answers(o, p) = <<a>>
    BY <1>1, <1>6
  <1>7. CASE \E a, b \in Msgs : Answers(o, p) = <<a, b>>
    <2>1. PICK a \in Msgs, b \in Msgs : Answers(o, p) = <<a, b>>
      BY <1>7, Zenon
    <2> QED
      BY <1>2, <2>1
  <1> QED
    BY <1>5, <1>6, <1>7, Zenon

LEMMA DueIs ==
  ASSUME NEW o \in HS!Option
  PROVE  HS!Due(o) = Answers(o, padded)
  BY Zenon DEF HS!Option, HS!Due, Answers

LEMMA AnswerIs ==
  ASSUME NEW o \in HS!Option
  PROVE  HS!Answer(o) = Answers(o, ~no_zeroes)
  <1>1. CASE no_zeroes
    BY <1>1 DEF HS!Option, HS!Answer, HS!Zeros, HS!Parting, Answers
  <1>a. ASSUME NEW a, NEW b PROVE <<a>> \o <<b>> = <<a, b>>
    <2>1. <<a>> \o <<b>> = Append(<<a>>, b)
      OBVIOUS
    <2>2. <<a, b>> = Append(<<a>>, b)
      OBVIOUS
    <2> QED
      BY <2>1, <2>2, Zenon
  <1>2. CASE ~no_zeroes
    BY <1>2, <1>a, Zenon DEF HS!Option, HS!Answer, HS!Zeros, HS!Parting, Answers
  <1> QED
    BY <1>1, <1>2, Zenon

LEMMA OptFrameIs ==
  ASSUME NEW k \in DOMAIN Options, NEW f, f = OptFrame(k)
  PROVE  /\ f \in Seq(HUnits) /\ Len(f) = 2 + Options[k].n
         /\ f[1] = Part("o1", k) /\ f[2] = Part("o2", k)
         /\ \A j \in 3..(2 + Options[k].n) : f[j] = Part("payload", k)
  <1>1. PICK m \in Nat : m = Options[k].n
    BY OptionOf, Zenon
  <1> DEFINE h == <<Part("o1", k), Part("o2", k)>>
             d == [j \in 1..m |-> Part("payload", k)]
  <1>2. f = h \o d
    BY <1>1, Zenon DEF OptFrame
  <1>3. Part("o1", k) \in HUnits /\ Part("o2", k) \in HUnits /\ Part("payload", k) \in HUnits
    BY Zenon DEF Part, HUnits
  <1>4. h \in Seq(HUnits) /\ Len(h) = 2 /\ h[1] = Part("o1", k) /\ h[2] = Part("o2", k)
    BY <1>3
  <1>5. d \in Seq(HUnits) /\ Len(d) = m /\ \A j \in 1..m : d[j] = Part("payload", k)
    BY <1>1, <1>3
  <1> HIDE DEF h, d
  <1>6. /\ h \o d \in Seq(HUnits) /\ Len(h \o d) = Len(h) + Len(d)
        /\ \A j \in 1..Len(h) : (h \o d)[j] = h[j]
        /\ \A j \in 1..Len(d) : (h \o d)[Len(h) + j] = d[j]
    <2>1. h \in Seq(HUnits) /\ d \in Seq(HUnits)
      BY <1>4, <1>5, Zenon
    <2> QED
      BY <2>1, Concatenated
  <1>7. (h \o d)[1] = h[1] /\ (h \o d)[2] = h[2]
    <2>1. 1 \in 1..Len(h) /\ 2 \in 1..Len(h)
      BY <1>4
    <2> QED
      BY <1>6, <2>1, Zenon
  <1>8. ASSUME NEW j \in 3..(2 + m) PROVE (h \o d)[j] = Part("payload", k)
    <2>1. j - 2 \in 1..m /\ j = 2 + (j - 2)
      BY <1>1
    <2> QED
      BY <1>4, <1>5, <1>6, <2>1
  <1> QED
    BY <1>1, <1>2, <1>4, <1>5, <1>6, <1>7, <1>8, Zenon

LEMMA SaidIs ==
  ASSUME NEW n \in Nat, NEW p, NEW q \in [1..n -> DOMAIN Options], NEW g, g = Said(n, p, q)
  PROVE  /\ Sized(n + 1, g) /\ g[1] = <<Part("flags", IF p THEN 0 ELSE 1)>> /\ Len(g[1]) = 1
         /\ \A k \in 1..n : q[k] \in DOMAIN Options /\ g[k + 1] = OptFrame(q[k])
  <1>1. g[1] = <<Part("flags", IF p THEN 0 ELSE 1)>> /\ Len(g[1]) = 1
    BY DEF Said
  <1>2. ASSUME NEW k \in 1..n PROVE q[k] \in DOMAIN Options /\ g[k + 1] = OptFrame(q[k])
    <2>1. k + 1 \in 1..(n + 1) /\ k + 1 # 1 /\ (k + 1) - 1 = k
      OBVIOUS
    <2>2. g[k + 1] = OptFrame(q[(k + 1) - 1])
      BY <2>1, Zenon DEF Said
    <2> QED
      BY <2>1, <2>2, Zenon
  <1>3. ASSUME NEW k \in 1..(n + 1) PROVE Len(g[k]) \in Nat
    <2>1. CASE k = 1
      BY <1>1, <2>1, Zenon
    <2>2. CASE k # 1
      <3>1. PICK j \in 1..n : k = j + 1
        <4>1. k - 1 \in 1..n /\ k = (k - 1) + 1
          BY <2>2
        <4> QED
          BY <4>1, Zenon
      <3>2. q[j] \in DOMAIN Options /\ g[k] = OptFrame(q[j])
        BY <1>2, <3>1, Zenon
      <3> QED
        BY <3>2, OptFrameIs
    <2> QED
      BY <2>1, <2>2, Zenon
  <1> QED
    BY <1>1, <1>2, <1>3, Zenon DEF Sized

LEMMA OwedIs ==
  ASSUME NEW n \in Nat, NEW p \in BOOLEAN, NEW q \in [1..n -> DOMAIN Options],
         NEW g, g = Owed(n, p, q)
  PROVE  /\ Sized(n + 1, g) /\ g[1] = <<HS!Bare("greeting")>> /\ Len(g[1]) = 1
         /\ \A k \in 1..n :
              /\ HS!Sound(Options[q[k]]) => g[k + 1] = Answers(Options[q[k]], p) /\ Len(g[k + 1]) > 0
              /\ ~HS!Sound(Options[q[k]]) => g[k + 1] = <<>>
  <1>1. g[1] = <<HS!Bare("greeting")>> /\ Len(g[1]) = 1
    BY DEF Owed
  <1>2. ASSUME NEW k \in 1..n
        PROVE  /\ HS!Sound(Options[q[k]]) => g[k + 1] = Answers(Options[q[k]], p) /\ Len(g[k + 1]) > 0
               /\ ~HS!Sound(Options[q[k]]) => g[k + 1] = <<>>
               /\ Len(g[k + 1]) \in Nat
    <2>1. k + 1 \in 1..(n + 1) /\ k + 1 # 1 /\ (k + 1) - 1 = k
      OBVIOUS
    <2>2. PICK o \in HS!Option : o = Options[q[k]]
      BY OptionOf, Zenon
    <2>3. g[k + 1] = IF HS!Sound(o) THEN Answers(o, p) ELSE <<>>
      BY <2>1, <2>2, Zenon DEF Owed
    <2>4. Len(Answers(o, p)) \in Nat /\ Len(Answers(o, p)) > 0
      BY AnswersType, Zenon
    <2> QED
      BY <2>2, <2>3, <2>4
  <1>3. ASSUME NEW k \in 1..(n + 1) PROVE Len(g[k]) \in Nat
    <2>1. CASE k = 1
      BY <1>1, <2>1, Zenon
    <2>2. CASE k # 1
      <3>1. PICK j \in 1..n : k = j + 1
        <4>1. k - 1 \in 1..n /\ k = (k - 1) + 1
          BY <2>2
        <4> QED
          BY <4>1, Zenon
      <3> QED
        BY <1>2, <3>1, Zenon
    <2> QED
      BY <2>1, <2>2, Zenon
  <1> QED
    BY <1>1, <1>2, <1>3, Zenon DEF Sized

(* One more option.                                                        *)
(* r is q and one more, k.                                                 *)
Chosen(n, p, q, k, r) ==
  /\ r \in [1..(n + 1) -> DOMAIN Options]
  /\ r[n + 1] = k /\ \A j \in 1..n : r[j] = q[j]
  /\ OneMore(n + 1, Said(n, p, q), Said(n + 1, p, r))
  /\ Said(n + 1, p, r)[(n + 1) + 1] = OptFrame(k)
  /\ OneMore(n + 1, Owed(n, p, q), Owed(n + 1, p, r))
  /\ Owed(n + 1, p, r)[(n + 1) + 1] =
       IF HS!Sound(Options[k]) THEN Answers(Options[k], p) ELSE <<>>

LEMMA OptionAdded ==
  ASSUME NEW n \in Nat, NEW p \in BOOLEAN, NEW q \in [1..n -> DOMAIN Options],
         NEW k \in DOMAIN Options
  PROVE  \E r : Chosen(n, p, q, k, r)
  <1> DEFINE r == [j \in 1..(n + 1) |-> IF j = n + 1 THEN k ELSE q[j]]
  <1>1. r \in [1..(n + 1) -> DOMAIN Options]
    OBVIOUS
  <1>2. r[n + 1] = k /\ \A j \in 1..n : r[j] = q[j]
    OBVIOUS
  <1> HIDE DEF r
  <1>3. PICK g, h, u, v : /\ g = Said(n, p, q) /\ h = Said(n + 1, p, r)
                          /\ u = Owed(n, p, q) /\ v = Owed(n + 1, p, r)
    BY Zenon
  <1>4. /\ Sized(n + 1, g) /\ g[1] = <<Part("flags", IF p THEN 0 ELSE 1)>>
        /\ \A j \in 1..n : g[j + 1] = OptFrame(q[j])
    BY <1>3, SaidIs
  <1>5. /\ Sized((n + 1) + 1, h) /\ h[1] = <<Part("flags", IF p THEN 0 ELSE 1)>>
        /\ \A j \in 1..(n + 1) : h[j + 1] = OptFrame(r[j])
    BY <1>1, <1>3, SaidIs
  <1>6. /\ Sized(n + 1, u) /\ u[1] = <<HS!Bare("greeting")>>
        /\ \A j \in 1..n : u[j + 1] = IF HS!Sound(Options[q[j]]) THEN Answers(Options[q[j]], p) ELSE <<>>
    BY <1>3, OwedIs
  <1>7. /\ Sized((n + 1) + 1, v) /\ v[1] = <<HS!Bare("greeting")>>
        /\ \A j \in 1..(n + 1) : v[j + 1] = IF HS!Sound(Options[r[j]]) THEN Answers(Options[r[j]], p) ELSE <<>>
    BY <1>1, <1>3, OwedIs
  <1>8. ASSUME NEW i \in 1..(n + 1) PROVE h[i] = g[i] /\ v[i] = u[i]
    <2>1. CASE i = 1
      BY <1>4, <1>5, <1>6, <1>7, <2>1, Zenon
    <2>2. CASE i # 1
      <3>1. PICK j \in 1..n : i = j + 1
        <4>1. i - 1 \in 1..n /\ i = (i - 1) + 1
          BY <2>2
        <4> QED
          BY <4>1, Zenon
      <3>2. j \in 1..(n + 1) /\ r[j] = q[j]
        BY <1>2
      <3> QED
        BY <1>4, <1>5, <1>6, <1>7, <3>1, <3>2, Zenon
    <2> QED
      BY <2>1, <2>2, Zenon
  <1>9. OneMore(n + 1, g, h) /\ OneMore(n + 1, u, v)
    BY <1>4, <1>5, <1>6, <1>7, <1>8 DEF OneMore, Sized
  <1>10. h[(n + 1) + 1] = OptFrame(k) /\ v[(n + 1) + 1] = IF HS!Sound(Options[k]) THEN Answers(Options[k], p) ELSE <<>>
    BY <1>2, <1>5, <1>7
  <1>11. Chosen(n, p, q, k, r)
    BY <1>1, <1>2, <1>3, <1>9, <1>10, Zenon DEF Chosen
  <1> QED
    BY <1>11, Zenon

LEMMA AnyDropped ==
  ASSUME NEW U, wire \in Seq(U), pushing \in Seq(U), NEW k \in Nat, Len(wire) >= k,
         wire' = SubSeq(wire, k + 1, Len(wire)), pushing' = pushing
  PROVE  /\ wire' \in Seq(U) /\ Len(Stream') \in Nat /\ Len(Stream) \in Nat
         /\ Without(Stream, k, Stream')
         /\ Len(wire) <= Len(Stream) /\ \A j \in 1..k : wire[j] = Stream[j]
  <1>1. Len(wire) \in Nat /\ Len(pushing) \in Nat
    OBVIOUS
  <1>2. /\ wire' \in Seq(U) /\ Len(wire') = Len(wire) - k
        /\ \A j \in 1..(Len(wire) - k) : wire'[j] = wire[j + k]
    BY <1>1
  <1>3. Stream' = wire' \o pushing /\ Stream = wire \o pushing
    BY Zenon DEF Stream
  <1>4. Len(Stream) = Len(wire) + Len(pushing) /\ Len(Stream') = Len(wire') + Len(pushing)
    BY <1>2, <1>3, Concatenated, Zenon
  <1>5. /\ Len(Stream') = Len(Stream) - k /\ Len(Stream') \in Nat /\ Len(Stream) \in Nat
        /\ Len(wire) <= Len(Stream)
    BY <1>1, <1>2, <1>4
  <1>6. \A j \in 1..k : wire[j] = Stream[j]
    BY <1>1, <1>3
  <1>7. ASSUME NEW j \in 1..Len(Stream') PROVE Stream'[j] = Stream[j + k]
    <2>1. CASE j <= Len(wire')
      BY <1>1, <1>2, <1>3, <1>4, <1>5, <2>1
    <2>2. CASE j > Len(wire')
      <3>1. Stream'[j] = pushing[j - Len(wire')]
        BY <1>1, <1>2, <1>3, <1>4, <1>5, <2>2
      <3>a. /\ j + k \in 1..Len(Stream) /\ j + k > Len(wire) /\ j \in Int
            /\ (j + k) - Len(wire) = j - Len(wire')
        <4>1. PICK x \in Nat, y \in Nat : x = Len(wire) /\ y = Len(pushing)
          BY <1>1, Zenon
        <4>2. /\ Len(wire') = x - k /\ Len(Stream) = x + y /\ Len(Stream') = (x - k) + y /\ k <= x
          BY <1>2, <1>4, <4>1, Zenon
        <4>3. j \in 1..((x - k) + y) /\ j > x - k
          BY <2>2, <4>2, Zenon
        <4>4. j \in Int /\ j + k \in 1..(x + y) /\ j + k > x /\ (j + k) - x = j - (x - k)
          BY <4>2, <4>3
        <4> QED
          BY <4>1, <4>2, <4>4, Zenon
      <3>2. Stream[j + k] = pushing[(j + k) - Len(wire)]
        BY <1>1, <1>3, <1>4, <3>a
      <3>3. (j + k) - Len(wire) = j - Len(wire')
        BY <3>a, Zenon
      <3> QED
        BY <3>1, <3>2, <3>3, Zenon
    <2> QED
      BY <1>1, <1>2, <2>1, <2>2
  <1> QED
    BY <1>2, <1>5, <1>6, <1>7, Zenon DEF Without

LEMMA AnyPushed ==
  ASSUME NEW U, wire \in Seq(U), pushing \in Seq(U), Push
  PROVE  /\ wire' \in Seq(U) /\ pushing' \in Seq(U)
         /\ Len(Stream') \in Nat /\ Len(Stream) \in Nat /\ Without(Stream, 0, Stream')
  <1>1. pushing # <<>> /\ wire' = Append(wire, Head(pushing)) /\ pushing' = Tail(pushing)
    BY Zenon DEF Push
  <1>2. /\ wire' \in Seq(U) /\ Len(wire') = Len(wire) + 1
        /\ \A j \in 1..Len(wire) : wire'[j] = wire[j]
        /\ wire'[Len(wire) + 1] = pushing[1]
        /\ pushing' \in Seq(U) /\ Len(pushing') = Len(pushing) - 1
        /\ \A j \in 1..Len(pushing') : pushing'[j] = pushing[j + 1]
        /\ wire \in Seq(U) /\ pushing \in Seq(U) /\ Len(pushing) \in Nat
        /\ Len(wire) \in Nat /\ Len(pushing) > 0
    BY <1>1
  <1>3. Len(Stream) = Len(wire) + Len(pushing) /\ Len(Stream') = Len(wire') + Len(pushing')
    BY <1>2, Concatenated, Zenon DEF Stream
  <1>4. Len(Stream') = Len(Stream) - 0 /\ Len(Stream') \in Nat /\ Len(Stream) \in Nat
    BY <1>2, <1>3
  <1>5. ASSUME NEW j \in 1..Len(Stream') PROVE Stream'[j] = Stream[j + 0]
    <2>1. CASE j <= Len(wire)
      BY <1>2, <1>3, <2>1 DEF Stream
    <2>2. CASE j = Len(wire) + 1
      BY <1>2, <1>3, <2>2 DEF Stream
    <2>3. CASE j > Len(wire) + 1
      <3>1. Stream'[j] = pushing'[j - Len(wire')]
        BY <1>2, <1>3, <2>3 DEF Stream
      <3>2. Stream[j] = pushing[j - Len(wire)]
        BY <1>2, <1>3, <2>3 DEF Stream
      <3>3. j - Len(wire') \in 1..Len(pushing') /\ (j - Len(wire')) + 1 = j - Len(wire) /\ j + 0 = j
        BY <1>2, <1>3, <2>3
      <3> QED
        BY <1>2, <3>1, <3>2, <3>3, Zenon
    <2> QED
      BY <1>2, <1>4, <2>1, <2>2, <2>3
  <1> QED
    BY <1>2, <1>4, <1>5, Zenon DEF Without

(* The server is done with the client.                                     *)
LEMMA H_Fail ==
  ASSUME SInv, hs \in Talking, closed, HS!Fail, UNCHANGED <<closed, pushing, HS!customer>>,
         UNCHANGED requests
  PROVE  SInv'
  <1>1. hs' = "lost" /\ no_zeroes' = FALSE /\ UNCHANGED <<closed, back, cl, padded, due, asks>>
    BY Zenon DEF HS!Fail, HS!customer
  <1>2. Idle'
    BY Zenon DEF SInv, Idle, requests, Talking, batch, one
  <1>3. STyped'
    BY <1>1, Zenon DEF SInv, STyped
  <1>4. cl' # "transmit"
    BY <1>1, Zenon DEF SInv, Talking
  <1> QED
    BY <1>1, <1>2, <1>3, <1>4 DEF SInv, Talking

LEMMA TalkOf ==
  ASSUME SInv, NEW q, NEW i, Talk(q, i), hs \in Talking
  PROVE  /\ Idle /\ cl # "transmit"
         /\ asks \in Nat /\ padded \in BOOLEAN /\ q \in [1..asks -> DOMAIN Options]
         /\ back \in Seq(Msgs) /\ due \in Seq(Msgs) /\ Len(back) \in Nat /\ Len(due) \in Nat
         /\ Sized(asks + 1, Said(asks, padded, q)) /\ Sized(asks + 1, Owed(asks, padded, q))
         /\ asks + 1 \in Nat
         /\ Done(i) \in 0..(asks + 1) /\ (hs # "greet" => Done(i) > 0)
  <1>1. /\ asks \in Nat /\ padded \in BOOLEAN /\ q \in [1..asks -> DOMAIN Options]
        /\ back \in Seq(Msgs) /\ due \in Seq(Msgs) /\ Idle /\ cl # "transmit"
    BY Zenon DEF SInv, STyped, Talk, Talking
  <1>2. Sized(asks + 1, Said(asks, padded, q)) /\ Sized(asks + 1, Owed(asks, padded, q))
    BY <1>1, SaidIs, OwedIs, Zenon
  <1>3. Done(i) \in 0..(asks + 1) /\ (hs # "greet" => Done(i) > 0)
    BY <1>1 DEF Talk, Place, Done, Talking
  <1> QED
    BY <1>1, <1>2, <1>3

LEMMA TalkOn ==
  ASSUME SInv, hs # "transmit", UNCHANGED <<sent, pc, head, batch, one, taken, replies>>,
         STyped', hs' \in Talking, cl' # "transmit", NEW q, NEW i, Talk(q, i)'
  PROVE  SInv'
  <1>1. Idle'
    BY Zenon DEF SInv, Idle, batch, one
  <1> QED
    BY <1>1, Zenon DEF SInv, Talking

(* What the server sends is what the client is owed next.                  *)
LEMMA Answering ==
  ASSUME SInv, NEW q, NEW i, Talk(q, i), hs \in Talking, Done(i) < asks + 1,
         Joined(back, Owed(asks, padded, q)[Done(i) + 1], back'), back' \in Seq(Msgs)
  PROVE  /\ Len(back') <= Len(due) /\ \A j \in 1..Len(back') : back'[j] = due[j]
         /\ Follows(due, asks + 1, Owed(asks, padded, q), Done(i) + 1, Len(back'))
  <1>1. PICK g, d, b, n : /\ g = Owed(asks, padded, q) /\ d = Done(i) /\ b = Len(back)
                          /\ n = asks + 1
    BY Zenon
  <1>2. /\ b \in Nat /\ Len(due) \in Nat /\ n \in Nat /\ d \in 0..n /\ Sized(n, g) /\ d < n
    BY <1>1, TalkOf, Zenon
  <1>3. Follows(due, n, g, d, b)
    BY <1>1, Zenon DEF Talk, Answered
  <1>4. /\ Follows(due, n, g, d + 1, b + Len(g[d + 1]))
        /\ b + Len(g[d + 1]) <= Len(due)
        /\ \A m \in 1..Len(g[d + 1]) : due[b + m] = g[d + 1][m]
    <2>1. PICK s : s = due
      BY Zenon
    <2>2. Follows(s, n, g, d, b) /\ Len(s) \in Nat
      BY <1>2, <1>3, <2>1, Zenon
    <2>3. /\ Follows(s, n, g, d + 1, b + Len(g[d + 1]))
          /\ b + Len(g[d + 1]) <= Len(s)
          /\ \A m \in 1..Len(g[d + 1]) : s[b + m] = g[d + 1][m]
      BY <1>2, <2>2, MoreFollows
    <2> QED
      BY <2>1, <2>3, Zenon
  <1>5. PICK z \in Nat : z = Len(g[d + 1])
    <2>1. d + 1 \in 1..n
      BY <1>2
    <2> QED
      BY <1>2, <2>1, Zenon DEF Sized
  <1>6. /\ Len(back') = b + z
        /\ \A j \in 1..b : back'[j] = back[j]
        /\ \A j \in 1..z : back'[b + j] = g[d + 1][j]
    BY <1>1, <1>5, Zenon DEF Joined
  <1>7. \A j \in 1..b : back[j] = due[j]
    BY <1>1, Zenon DEF SInv, STyped
  <1>8. ASSUME NEW j \in 1..(b + z) PROVE back'[j] = due[j]
    <2>1. CASE j <= b
      BY <1>2, <1>6, <1>7, <2>1
    <2>2. CASE j > b
      <3>1. PICK m \in 1..z : j = b + m
        <4>1. j - b \in 1..z /\ j = b + (j - b)
          BY <1>2, <2>2
        <4> QED
          BY <4>1, Zenon
      <3> QED
        BY <1>4, <1>5, <1>6, <3>1, Zenon
    <2> QED
      BY <1>2, <2>1, <2>2
  <1> QED
    BY <1>1, <1>4, <1>5, <1>6, <1>8, Zenon

LEMMA H_Greet ==
  ASSUME SInv, HS!Greet, UNCHANGED requests
  PROVE  SInv'
  <1>1. hs = "greet" /\ hs \in Talking /\ UNCHANGED <<closed, pushing, HS!customer>>
    BY Zenon DEF HS!Greet, Talking
  <1>2. CASE closed /\ HS!Fail
    BY <1>1, <1>2, H_Fail, Zenon
  <1>3. CASE /\ hs' = "flags" /\ back' = Append(back, HS!Bare("greeting"))
             /\ UNCHANGED <<wire, no_zeroes, opt>>
    <2>1. PICK q, i : Talk(q, i)
      BY <1>1, Zenon DEF SInv
    <2>2. /\ UNCHANGED <<wire, pushing, cl, padded, due, asks, closed>>
          /\ UNCHANGED <<sent, pc, head, batch, one, taken, replies>>
      BY <1>1, <1>3, Zenon DEF HS!customer, requests
    <2>3. i = 0 /\ back = <<>> /\ cl = "greeting" /\ Done(i) = 0
      BY <1>1, <2>1, Zenon DEF Talk, Place, Done
    <2>4. /\ asks = 0 /\ wire = <<>> /\ pushing = <<>>
      BY <2>1, <2>3, Zenon DEF Talk, Streams
    <2>5. /\ q \in [1..asks -> DOMAIN Options] /\ padded \in BOOLEAN /\ asks \in Nat
      BY <1>1, <2>1, TalkOf, Zenon
    <2>6. HS!Bare("greeting") \in Msgs
      BY Zenon DEF HS!Bare, Msgs
    <2>7. Owed(asks, padded, q)[Done(i) + 1] = <<HS!Bare("greeting")>>
      BY <2>3, <2>5, OwedIs
    <2>8. back' = <<HS!Bare("greeting")>> /\ back' \in Seq(Msgs)
      BY <1>3, <2>3, <2>6
    <2>9. Joined(back, Owed(asks, padded, q)[Done(i) + 1], back')
      BY <2>3, <2>7, <2>8 DEF Joined
    <2>10. /\ Len(back') <= Len(due) /\ \A j \in 1..Len(back') : back'[j] = due[j]
           /\ Follows(due, asks + 1, Owed(asks, padded, q), Done(i) + 1, Len(back'))
      <3>1. Done(i) < asks + 1
        BY <2>3, <2>4
      <3> QED
        BY <1>1, <2>1, <2>8, <2>9, <3>1, Answering, Zenon
    <2>11. STyped'
      BY <1>3, <2>2, <2>8, <2>10, Zenon DEF SInv, STyped, Talking
    <2>12. Ends(q)' /\ Place(q, i)' /\ Streams(q, i)'
      BY <1>1, <1>3, <2>1, <2>2, <2>3, <2>4, Zenon DEF Talk, Ends, Place, Streams
    <2>13. Answered(q, i)'
      <3>1. Done(i)' = Done(i) + 1
        BY <1>3, <2>3 DEF Done
      <3> QED
        BY <2>2, <2>4, <2>10, <3>1 DEF Answered
    <2>14. Talk(q, i)'
      BY <2>2, <2>5, <2>12, <2>13, Zenon DEF Talk
    <2> QED
      BY <1>1, <1>3, <2>2, <2>3, <2>11, <2>14, TalkOn, Zenon DEF Talking
  <1> QED
    BY <1>2, <1>3, Zenon DEF HS!Greet

LEMMA H_TakeFlags ==
  ASSUME SInv, HS!TakeFlags, UNCHANGED requests
  PROVE  SInv'
  <1>1. hs = "flags" /\ hs \in Talking /\ UNCHANGED <<closed, pushing, HS!customer>>
    BY Zenon DEF HS!TakeFlags, Talking
  <1>2. CASE closed /\ HS!Fail
    BY <1>1, <1>2, H_Fail, Zenon
  <1>3. CASE /\ HS!Got(1) /\ HS!Take(1) /\ no_zeroes' = (wire[1].id = 1) /\ hs' = "option"
             /\ UNCHANGED <<back, opt>>
    <2>1. PICK q, i : Talk(q, i)
      BY <1>1, Zenon DEF SInv
    <2>2. /\ UNCHANGED <<pushing, cl, padded, due, asks, closed, back, opt>>
          /\ UNCHANGED <<sent, pc, head, batch, one, taken, replies>>
      BY <1>1, <1>3, Zenon DEF HS!customer, requests
    <2>3. i = 0 /\ Done(i) = 1 /\ Heard = 0
      BY <1>1, <2>1, Zenon DEF Talk, Place, Done, Heard
    <2>4. /\ wire \in Seq(HUnits) /\ pushing \in Seq(HUnits) /\ Len(wire) >= 1
          /\ wire' = SubSeq(wire, 1 + 1, Len(wire)) /\ 1 \in Nat
      BY <1>3, <2>1, Zenon DEF Talk, Streams, HS!Got, HS!Take
    <2>5. cl # "greeting"
      BY <2>1, <2>4 DEF Talk, Streams
    <2>6. PICK g, n : g = Said(asks, padded, q) /\ n = asks + 1
      BY Zenon
    <2>7. /\ q \in [1..asks -> DOMAIN Options] /\ padded \in BOOLEAN /\ asks \in Nat /\ cl # "transmit"
          /\ Sized(n, g) /\ n \in Nat
      BY <1>1, <2>1, <2>6, TalkOf, Zenon
    <2>8. g[0 + 1] = <<Part("flags", IF padded THEN 0 ELSE 1)>> /\ Len(g[0 + 1]) = 1
      BY <2>6, <2>7, SaidIs
    <2>9. Follows(Stream, n, g, 0, 0)
      BY <1>1, <2>1, <2>3, <2>5, <2>6, Zenon DEF Talk, Streams
    <2>10. /\ wire' \in Seq(HUnits) /\ Len(Stream') \in Nat /\ Len(Stream) \in Nat
           /\ Without(Stream, 1, Stream') /\ wire[1] = Stream[1]
      <3>1. PICK e \in Nat : e = 1
        BY Zenon
      <3>2. Len(wire) >= e /\ wire' = SubSeq(wire, e + 1, Len(wire)) /\ pushing' = pushing
        BY <2>2, <2>4, <3>1, Zenon
      <3>3. /\ wire' \in Seq(HUnits) /\ Len(Stream') \in Nat /\ Len(Stream) \in Nat
            /\ Without(Stream, e, Stream') /\ \A j \in 1..e : wire[j] = Stream[j]
        BY <2>4, <3>2, AnyDropped, Zenon
      <3> QED
        BY <3>1, <3>3
    <2>11. /\ \A m \in 1..Len(g[0 + 1]) : Stream[m] = g[0 + 1][m]
           /\ Follows(Stream', n, g, 0 + 1, Len(g[0 + 1]) - 1)
      <3>1. 0 \in 0..n /\ 0 < n /\ 1 <= Len(g[0 + 1])
        BY <2>6, <2>7, <2>8
      <3>2. PICK s, t, o, e : s = Stream /\ t = Stream' /\ o = 0 /\ e = 1
        BY Zenon
      <3>3. /\ Follows(s, n, g, o, 0) /\ Len(s) \in Nat /\ Len(t) \in Nat /\ Without(s, e, t)
            /\ e \in Nat /\ o \in 0..n /\ o < n /\ e <= Len(g[o + 1])
        BY <2>9, <2>10, <3>1, <3>2, Zenon
      <3>4. Starts(s, g[o + 1]) /\ Follows(t, n, g, o + 1, Len(g[o + 1]) - e)
        BY <2>7, <3>3, HeadFollows, Zenon
      <3> QED
        BY <3>2, <3>4, Zenon DEF Starts
    <2>12. no_zeroes' = ~padded
      BY <1>3, <2>7, <2>8, <2>10, <2>11 DEF Part
    <2>13. STyped'
      BY <1>3, <2>2, <2>7, <2>12, Zenon DEF SInv, STyped, Talking
    <2>14. Place(q, 1)'
      <3>1. 1 \in 0..(asks + 1)
        BY <2>7
      <3>2. padded' <=> ~no_zeroes'
        BY <2>2, <2>7, <2>12, Zenon
      <3> QED
        BY <1>3, <2>2, <3>1, <3>2 DEF Place
    <2>15. Streams(q, 1)'
      <3>1. Follows(Stream', n, g, 1, 0)
        BY <2>8, <2>11
      <3>2. Heard' = 0
        BY <1>3, Zenon DEF Heard
      <3> QED
        BY <1>3, <2>2, <2>4, <2>5, <2>6, <2>10, <3>1, <3>2, Zenon DEF Streams
    <2>16. Ends(q)' /\ Answered(q, 1)'
      <3>1. Done(1)' = 1
        BY <1>3, Zenon DEF Done
      <3> QED
        BY <2>1, <2>2, <2>3, <3>1, Zenon DEF Talk, Ends, Answered
    <2>17. Talk(q, 1)'
      BY <2>2, <2>7, <2>14, <2>15, <2>16, Zenon DEF Talk
    <2> QED
      BY <1>1, <1>3, <2>2, <2>7, <2>13, <2>17, TalkOn, Zenon DEF Talking
  <1> QED
    BY <1>2, <1>3, Zenon DEF HS!TakeFlags

LEMMA Lost ==
  ASSUME SInv, hs \in Talking, hs' = "lost", no_zeroes' \in BOOLEAN, back' \in Seq(Msgs),
         Len(back') <= Len(due), \A j \in 1..Len(back') : back'[j] = due[j],
         UNCHANGED <<closed, cl, padded, due, asks>>, closed \/ cl \in {"left", "leaving"},
         UNCHANGED requests
  PROVE  SInv'
  <1>1. Idle'
    BY Zenon DEF SInv, Idle, requests, Talking, batch, one
  <1>2. STyped'
    BY Zenon DEF SInv, STyped
  <1> QED
    BY <1>1, <1>2, Zenon DEF SInv, Talking

LEMMA H_TakeOption ==
  ASSUME SInv, HS!TakeOption, UNCHANGED requests
  PROVE  SInv'
  <1>1. hs = "option" /\ hs \in Talking /\ UNCHANGED <<closed, pushing, HS!customer>>
    BY Zenon DEF HS!TakeOption, Talking
  <1>2. CASE closed /\ HS!Fail
    BY <1>1, <1>2, H_Fail, Zenon
  <1>3. CASE /\ HS!Got(2) /\ HS!Take(2)
             /\ hs' = IF wire[1].part # "o1" \/ wire[2].part # "o2" THEN "misread"
                      ELSE IF ~HS!Sound(Options[wire[1].id]) THEN "lost" ELSE "payload"
             /\ opt' = IF hs' = "payload" THEN wire[1].id ELSE 0
             /\ no_zeroes' = (no_zeroes /\ hs' = "payload")
             /\ UNCHANGED back
    <2>1. PICK q, i : Talk(q, i)
      BY <1>1, Zenon DEF SInv
    <2>2. /\ UNCHANGED <<pushing, cl, padded, due, asks, closed, back>>
          /\ UNCHANGED <<sent, pc, head, batch, one, taken, replies>>
      BY <1>1, <1>3, Zenon DEF HS!customer, requests
    <2>3. PICK g, n : g = Said(asks, padded, q) /\ n = asks + 1
      BY Zenon
    <2>4. /\ q \in [1..asks -> DOMAIN Options] /\ padded \in BOOLEAN /\ asks \in Nat /\ cl # "transmit"
          /\ Sized(n, g) /\ n \in Nat /\ back \in Seq(Msgs)
      BY <1>1, <2>1, <2>3, TalkOf, Zenon
    <2>5. i \in 0..n /\ i > 0 /\ Done(i) = i /\ Heard = 0 /\ cl # "greeting"
      BY <1>1, <2>1, <2>3 DEF Talk, Place, Streams, Done, Heard
    <2>6. Follows(Stream, n, g, i, 0)
      BY <1>1, <2>1, <2>3, <2>5, Zenon DEF Talk, Streams
    <2>7. PICK e \in Nat : e = 2
      BY Zenon
    <2>8. /\ wire \in Seq(HUnits) /\ pushing \in Seq(HUnits) /\ Len(wire) >= e
          /\ wire' = SubSeq(wire, e + 1, Len(wire)) /\ pushing' = pushing
      BY <1>3, <2>1, <2>2, <2>7, ZenonT(40) DEF Talk, Streams, HS!Got, HS!Take
    <2>9. /\ wire' \in Seq(HUnits) /\ Len(Stream') \in Nat /\ Len(Stream) \in Nat
          /\ Without(Stream, e, Stream') /\ Len(wire) <= Len(Stream)
          /\ \A j \in 1..e : wire[j] = Stream[j]
      BY <2>8, AnyDropped, Zenon
    <2>10. Len(Stream) # 0
      BY <2>7, <2>8, <2>9
    <2>11. i < n
      BY <2>4, <2>5, <2>6, <2>9, <2>10, OthersFollow, Zenon
    <2>12. PICK k \in DOMAIN Options : k = q[i] /\ g[i + 1] = OptFrame(k)
      <3>1. i \in 1..asks
        BY <2>3, <2>4, <2>5, <2>11
      <3> QED
        BY <2>3, <2>4, <3>1, SaidIs
    <2>13. PICK m \in Nat : m = Options[k].n
      BY OptionOf, Zenon
    <2>14. /\ Len(g[i + 1]) = 2 + m
           /\ g[i + 1][1] = Part("o1", k) /\ g[i + 1][2] = Part("o2", k)
      BY <2>12, <2>13, OptFrameIs, Zenon
    <2>15. /\ \A l \in 1..Len(g[i + 1]) : Stream[l] = g[i + 1][l]
           /\ Follows(Stream', n, g, i + 1, Len(g[i + 1]) - e)
      <3>1. e <= Len(g[i + 1])
        BY <2>7, <2>14
      <3>2. PICK s, t : s = Stream /\ t = Stream'
        BY Zenon
      <3>3. Follows(s, n, g, i, 0) /\ Len(s) \in Nat /\ Len(t) \in Nat /\ Without(s, e, t)
        BY <2>6, <2>9, <3>2, Zenon
      <3>4. Starts(s, g[i + 1]) /\ Follows(t, n, g, i + 1, Len(g[i + 1]) - e)
        BY <2>4, <2>5, <2>11, <3>1, <3>3, HeadFollows, Zenon
      <3> QED
        BY <3>2, <3>4, Zenon DEF Starts
    <2>16. wire[1] = Part("o1", k) /\ wire[2] = Part("o2", k)
      <3>1. wire[1] = Stream[1] /\ wire[2] = Stream[2]
        BY <2>7, <2>9
      <3>2. 1 \in 1..(2 + m) /\ 2 \in 1..(2 + m)
        OBVIOUS
      <3> QED
        BY <2>14, <2>15, <3>1, <3>2, Zenon
    <2>17. wire[1].part = "o1" /\ wire[2].part = "o2" /\ wire[1].id = k
      BY <2>16 DEF Part
    <2>18. CASE ~HS!Sound(Options[k])
      <3>1. hs' = "lost" /\ no_zeroes' = FALSE
        BY <1>3, <2>17, <2>18, ZenonT(40)
      <3>2. cl = "left"
        <4>1. i \in 1..asks /\ Final(Options[q[i]])
          BY <2>3, <2>4, <2>5, <2>11, <2>12, <2>18 DEF Final
        <4> QED
          BY <2>1, <2>12, <2>18, <4>1, Zenon DEF Talk, Ends
      <3> QED
        BY <1>1, <2>2, <3>1, <3>2, Lost, Zenon DEF SInv, STyped
    <2>19. CASE HS!Sound(Options[k])
      <3>1. hs' = "payload" /\ opt' = k /\ no_zeroes' = (no_zeroes /\ TRUE)
        BY <1>3, <2>17, <2>19, Zenon
      <3>2. no_zeroes \in BOOLEAN /\ no_zeroes' = no_zeroes
        BY <3>1, Zenon DEF SInv, STyped
      <3>3. STyped'
        BY <2>2, <3>1, <3>2, Zenon DEF SInv, STyped, Talking
      <3>4. i + 1 \in 0..n /\ i + 1 # 0 /\ (i + 1) - 1 = i /\ i + 1 > 1
        BY <2>4, <2>5, <2>11
      <3>5. PICK x : x = i + 1
        BY Zenon
      <3>6. Place(q, x)'
        <4>1. padded' <=> ~no_zeroes'
          BY <1>1, <2>1, <2>2, <3>2, Zenon DEF Talk, Place
        <4> QED
          BY <2>2, <2>3, <2>12, <2>19, <3>1, <3>4, <3>5, <4>1, Zenon DEF Place
      <3>7. Streams(q, x)'
        <4>1. Heard' = m /\ Len(g[i + 1]) - e = m
          BY <2>7, <2>13, <2>14, <3>1 DEF Heard
        <4>2. Follows(Stream', n, g, x, m)
          BY <2>15, <3>5, <4>1, Zenon
        <4> QED
          BY <2>2, <2>3, <2>5, <2>8, <2>9, <3>1, <4>1, <4>2, Zenon DEF Streams
      <3>8. Ends(q)' /\ Answered(q, x)'
        <4>1. Done(x)' = Done(i)
          BY <2>5, <3>1, <3>4, <3>5, Zenon DEF Done
        <4> QED
          BY <2>1, <2>2, <4>1, Zenon DEF Talk, Ends, Answered
      <3>9. Talk(q, x)'
        BY <2>2, <2>4, <3>6, <3>7, <3>8, Zenon DEF Talk
      <3> QED
        BY <1>1, <2>2, <2>4, <3>1, <3>3, <3>9, TalkOn, Zenon DEF Talking
    <2> QED
      BY <2>18, <2>19, Zenon
  <1> QED
    BY <1>2, <1>3, Zenon DEF HS!TakeOption

LEMMA H_drain ==
  ASSUME SInv, HS!drain, UNCHANGED requests
  PROVE  SInv'
  <1>1. hs = "payload" /\ hs \in Talking /\ UNCHANGED <<closed, pushing, HS!customer>>
    BY Zenon DEF HS!drain, Talking
  <1>2. CASE closed /\ HS!Fail
    BY <1>1, <1>2, H_Fail, Zenon
  <1>3. ASSUME UNCHANGED <<back, no_zeroes, opt>>,
               \/ HS!Got(Options[opt].n) /\ HS!Take(Options[opt].n)
                  /\ hs' = IF \A j \in 1..Options[opt].n : wire[j] = HS!Unit("payload", opt)
                           THEN "answer" ELSE "misread"
               \/ Options[opt].opt = "ABORT" /\ wire' = <<>> /\ hs' = "answer"
        PROVE  SInv'
    <2>1. PICK q, i : Talk(q, i)
      BY <1>1, Zenon DEF SInv
    <2>2. /\ UNCHANGED <<pushing, cl, padded, due, asks, closed, back, no_zeroes, opt>>
          /\ UNCHANGED <<sent, pc, head, batch, one, taken, replies>>
      BY <1>1, <1>3, Zenon DEF HS!customer, requests
    <2>3. PICK g, n : g = Said(asks, padded, q) /\ n = asks + 1
      BY Zenon
    <2>4. /\ q \in [1..asks -> DOMAIN Options] /\ padded \in BOOLEAN /\ asks \in Nat /\ cl # "transmit"
          /\ Sized(n, g) /\ n \in Nat
      BY <1>1, <2>1, <2>3, TalkOf, Zenon
    <2>5. i \in 0..n /\ i > 1 /\ opt = q[i - 1] /\ Done(i) = i - 1 /\ cl # "greeting"
      BY <1>1, <2>1, <2>3, Zenon DEF Talk, Place, Streams, Done
    <2>6. opt \in DOMAIN Options /\ g[i] = OptFrame(opt)
      <3>1. i - 1 \in 1..asks /\ (i - 1) + 1 = i
        BY <2>3, <2>4, <2>5
      <3> QED
        BY <2>3, <2>4, <2>5, <3>1, SaidIs, SMTT(30)
    <2>7. PICK m \in Nat : m = Options[opt].n
      BY <2>6, OptionOf, Zenon
    <2>8. Heard = m /\ Follows(Stream, n, g, i, m)
      BY <1>1, <2>1, <2>3, <2>5, <2>7, Zenon DEF Talk, Streams, Heard
    <2>9. Len(g[i]) = 2 + m /\ \A j \in 3..(2 + m) : g[i][j] = Part("payload", opt)
      BY <2>6, <2>7, OptFrameIs, Zenon
    <2>10. wire \in Seq(HUnits) /\ pushing \in Seq(HUnits)
      BY <2>1, Zenon DEF Talk, Streams
    <2>11. /\ hs' = "answer" /\ wire' \in Seq(HUnits)
           /\ Options[opt].opt # "ABORT" => Follows(Stream', n, g, i, 0)
      <3>1. CASE Options[opt].opt = "ABORT" /\ wire' = <<>> /\ hs' = "answer"
        BY <3>1
      <3>2. CASE HS!Got(Options[opt].n) /\ HS!Take(Options[opt].n)
                 /\ hs' = IF \A j \in 1..Options[opt].n : wire[j] = HS!Unit("payload", opt)
                          THEN "answer" ELSE "misread"
        <4>1. Len(wire) >= m /\ wire' = SubSeq(wire, m + 1, Len(wire)) /\ pushing' = pushing
          BY <2>2, <2>7, <3>2, Zenon DEF HS!Got, HS!Take
        <4>2. /\ wire' \in Seq(HUnits) /\ Len(Stream') \in Nat /\ Len(Stream) \in Nat
              /\ Without(Stream, m, Stream') /\ Len(wire) <= Len(Stream)
              /\ \A j \in 1..m : wire[j] = Stream[j]
          BY <2>10, <4>1, AnyDropped, Zenon
        <4>3. ASSUME NEW j \in 1..m PROVE wire[j] = Part("payload", opt)
          <5>1. /\ j <= Len(Stream) /\ i > 0 /\ m <= Len(g[i]) /\ (Len(g[i]) - m) + j = j + 2
                /\ j + 2 \in 3..(2 + m)
            BY <2>4, <2>5, <2>9, <2>10, <4>1, <4>2
          <5>2. BeginsAs(Stream, g[i], m)
            <6>1. PICK s : s = Stream
              BY Zenon
            <6>2. /\ Follows(s, n, g, i, m) /\ Len(s) \in Nat
                  /\ i \in 0..n /\ i > 0 /\ m <= Len(g[i])
              BY <2>5, <2>8, <4>2, <5>1, <6>1, Zenon
            <6>3. BeginsAs(s, g[i], m)
              BY <2>4, <6>2, RestFollows, Zenon
            <6> QED
              BY <6>1, <6>3, Zenon
          <5>3. Stream[j] = g[i][(Len(g[i]) - m) + j]
            BY <5>1, <5>2, Zenon DEF BeginsAs
          <5> QED
            BY <2>9, <4>2, <5>1, <5>3, Zenon
        <4>4. hs' = "answer"
          BY <2>7, <3>2, <4>3, Zenon DEF Part, HS!Unit
        <4>5. Follows(Stream', n, g, i, m - m)
          BY <2>8, <4>2, LessFollows, ZenonT(40)
        <4> QED
          BY <4>2, <4>4, <4>5
      <3> QED
        BY <1>3, <3>1, <3>2, Zenon
    <2>12. STyped'
      BY <2>2, <2>11, Zenon DEF SInv, STyped, Talking
    <2>13. Place(q, i)'
      BY <1>1, <2>1, <2>2, <2>11, Zenon DEF Talk, Place
    <2>14. Streams(q, i)'
      <3>1. Heard' = 0
        BY <2>11, Zenon DEF Heard
      <3> QED
        BY <2>2, <2>3, <2>5, <2>10, <2>11, <3>1, Zenon DEF Streams
    <2>15. Ends(q)' /\ Answered(q, i)'
      <3>1. Done(i)' = Done(i)
        BY <2>5, <2>11, Zenon DEF Done
      <3> QED
        BY <2>1, <2>2, <3>1, ZenonT(40) DEF Talk, Ends, Answered
    <2>16. Talk(q, i)'
      BY <2>2, <2>4, <2>13, <2>14, <2>15, Zenon DEF Talk
    <2> QED
      BY <1>1, <2>2, <2>4, <2>11, <2>12, <2>16, TalkOn, Zenon DEF Talking
  <1> QED
    BY <1>2, <1>3, Zenon DEF HS!drain, HS!Drained

LEMMA H_Respond ==
  ASSUME SInv, HS!Respond, UNCHANGED requests
  PROVE  SInv'
  <1>1. hs = "answer" /\ hs \in Talking /\ UNCHANGED <<closed, pushing, HS!customer>>
    BY Zenon DEF HS!Respond, Talking
  <1>2. CASE closed /\ HS!Fail
    BY <1>1, <1>2, H_Fail, Zenon
  <1>3. CASE /\ back' = back \o HS!Answer(Options[opt])
             /\ hs' = IF HS!Begins(Options[opt]) THEN "transmit"
                      ELSE IF Options[opt].opt = "ABORT" THEN "lost" ELSE "option"
             /\ no_zeroes' = (no_zeroes /\ hs' = "option")
             /\ opt' = 0 /\ UNCHANGED wire
    <2>1. PICK q, i : Talk(q, i)
      BY <1>1, Zenon DEF SInv
    <2>2. /\ UNCHANGED <<wire, pushing, cl, padded, due, asks, closed>>
          /\ UNCHANGED <<sent, pc, head, batch, one, taken, replies>>
      BY <1>1, <1>3, Zenon DEF HS!customer, requests
    <2>3. PICK g, n, o : g = Said(asks, padded, q) /\ n = asks + 1 /\ o = Options[opt]
      BY Zenon
    <2>4. /\ q \in [1..asks -> DOMAIN Options] /\ padded \in BOOLEAN /\ asks \in Nat /\ cl # "transmit"
          /\ Sized(n, g) /\ n \in Nat /\ back \in Seq(Msgs) /\ due \in Seq(Msgs)
      BY <1>1, <2>1, <2>3, TalkOf, Zenon
    <2>5. /\ i \in 0..n /\ i > 1 /\ opt = q[i - 1] /\ HS!Sound(o) /\ Done(i) = i - 1
          /\ cl # "greeting" /\ (padded <=> ~no_zeroes)
      BY <1>1, <2>1, <2>3, Zenon DEF Talk, Place, Streams, Done
    <2>6. i - 1 \in 1..asks /\ Done(i) < asks + 1 /\ Done(i) + 1 = i /\ opt \in DOMAIN Options
      BY <2>3, <2>4, <2>5
    <2>7. o \in HS!Option /\ o = Options[q[i - 1]]
      BY <2>3, <2>5, <2>6, OptionOf, Zenon
    <2>8. PICK a : a = Owed(asks, padded, q)[Done(i) + 1]
      BY Zenon
    <2>9. a = Answers(o, padded)
      <3>1. PICK w, k : w = Owed(asks, padded, q) /\ k = i - 1
        BY Zenon
      <3>2. k \in 1..asks /\ HS!Sound(Options[q[k]]) /\ o = Options[q[k]]
        BY <2>5, <2>6, <2>7, <3>1, Zenon
      <3>3. w[k + 1] = Answers(Options[q[k]], padded)
        BY <2>4, <3>1, <3>2, OwedIs, ZenonT(40)
      <3> QED
        BY <2>5, <2>8, <3>1, <3>2, <3>3, Zenon
    <2>10. a \in Seq(Msgs) /\ back' = back \o a
      <3>1. no_zeroes \in BOOLEAN
        BY Zenon DEF SInv, STyped
      <3>2. padded = ~no_zeroes
        BY <2>4, <2>5, <3>1, Zenon
      <3> QED
        BY <1>3, <2>3, <2>4, <2>7, <2>9, <3>2, AnswerIs, AnswersType, Zenon
    <2>11. back' \in Seq(Msgs) /\ Joined(back, a, back')
      BY <2>4, <2>10, Concatenated, SMTT(30) DEF Joined
    <2>12. /\ Len(back') <= Len(due) /\ \A j \in 1..Len(back') : back'[j] = due[j]
           /\ Follows(due, asks + 1, Owed(asks, padded, q), Done(i) + 1, Len(back'))
      BY <1>1, <2>1, <2>6, <2>8, <2>11, Answering, Zenon
    <2>13. CASE HS!Begins(o)
      <3>1. hs' = "transmit" /\ no_zeroes' = FALSE
        BY <1>3, <2>3, <2>13, ZenonT(40)
      <3>2. Final(Options[q[i - 1]])
        BY <2>7, <2>13, Zenon DEF Final
      <3>3. i - 1 = asks /\ cl = "last"
        BY <2>1, <2>5, <2>6, <2>7, <2>13, <3>2, Zenon DEF Talk, Ends
      <3>4. i = n /\ o.opt # "ABORT"
        BY <2>3, <2>5, <2>13, <3>3 DEF HS!Begins
      <3>5. Follows(Stream, n, g, i, 0)
        BY <1>1, <2>1, <2>3, <2>5, <3>4, ZenonT(40) DEF Talk, Streams, Heard
      <3>6. wire \in Seq(HUnits) /\ pushing \in Seq(HUnits)
        BY <2>1, ZenonT(40) DEF Talk, Streams
      <3>7. Stream \in Seq(HUnits) /\ Len(Stream) = Len(wire) + Len(pushing)
        BY <3>6, Concatenated, Zenon DEF Stream
      <3>8. Len(Stream) \in Nat
        BY <3>7
      <3>9. Len(Stream) = 0
        BY <2>4, <2>5, <3>4, <3>5, <3>8, OthersFollow, Zenon
      <3>10. wire = <<>> /\ pushing = <<>>
        BY <3>6, <3>7, <3>9
      <3>11. Idle
        BY <1>1, Zenon DEF SInv
      <3>12. ConnInv
        BY <3>10, <3>11, ConnStarts, Zenon
      <3>13. UNCHANGED vars
        BY <2>2, Zenon DEF vars, client, requests
      <3>14. ConnInv'
        BY <3>12, <3>13, K_Still, Zenon
      <3>15. Len(due) = Len(back')
        <4>1. PICK w, d, b : /\ w = Owed(asks, padded, q) /\ d = Done(i) + 1 /\ b = Len(back')
          BY Zenon
        <4>2. Follows(due, n, w, d, b) /\ d = n /\ d \in 0..n /\ b \in Nat /\ Len(due) \in Nat
          <5>1. Follows(due, n, w, d, b)
            BY <2>3, <2>12, <4>1, Zenon
          <5>2. d = n /\ d \in 0..n
            BY <2>4, <2>6, <3>4, <4>1
          <5>3. b \in Nat /\ Len(due) \in Nat
            BY <2>4, <2>11, <4>1
          <5> QED
            BY <5>1, <5>2, <5>3, Zenon
        <4> QED
          BY <2>4, <4>1, <4>2, OthersFollow, Zenon
      <3>16. STyped'
        BY <2>2, <2>11, <2>12, <3>1, Zenon DEF SInv, STyped
      <3> QED
        BY <2>2, <3>1, <3>3, <3>14, <3>15, <3>16, Zenon DEF SInv, Talking
    <2>14. CASE ~HS!Begins(o) /\ o.opt = "ABORT"
      <3>1. hs' = "lost" /\ no_zeroes' = FALSE
        BY <1>3, <2>3, <2>14, ZenonT(40)
      <3>2. Final(Options[q[i - 1]])
        BY <2>7, <2>14, Zenon DEF Final
      <3>3. cl \in {"leaving", "left"}
        BY <2>1, <2>5, <2>6, <2>7, <2>14, <3>2, Zenon DEF Talk, Ends
      <3> QED
        BY <1>1, <2>2, <2>11, <2>12, <3>1, <3>3, Lost, Zenon
    <2>15. CASE ~HS!Begins(o) /\ o.opt # "ABORT"
      <3>1. hs' = "option" /\ no_zeroes' = (no_zeroes /\ TRUE)
        BY <1>3, <2>3, <2>15, Zenon
      <3>2. no_zeroes \in BOOLEAN /\ no_zeroes' = no_zeroes
        BY <3>1, Zenon DEF SInv, STyped
      <3>3. STyped'
        BY <2>2, <2>11, <2>12, <3>1, <3>2, Zenon DEF SInv, STyped, Talking
      <3>4. Place(q, i)'
        BY <2>2, <2>3, <2>5, <3>1, <3>2 DEF Place
      <3>5. Streams(q, i)'
        <4>1. Follows(Stream, n, g, i, 0)
          BY <1>1, <2>1, <2>3, <2>5, <2>15, ZenonT(40) DEF Talk, Streams, Heard
        <4>2. Heard' = 0 /\ Stream' = Stream
          BY <2>2, <3>1, Zenon DEF Heard, Stream
        <4> QED
          BY <2>1, <2>2, <2>3, <2>5, <3>1, <4>1, <4>2, ZenonT(40) DEF Talk, Streams
      <3>6. Done(i)' = i
        BY <3>1, Zenon DEF Done
      <3>7. ASSUME NEW k \in 1..asks, Final(Options[q[k]]) PROVE i <= k
        <4>1. i - 1 <= k
          BY <2>1, <2>5, <3>7, Zenon DEF Talk, Answered
        <4>2. ~Final(o)
          BY <2>5, <2>15, Zenon DEF Final
        <4>3. k # i - 1
          BY <2>7, <3>7, <4>2, Zenon
        <4> QED
          BY <2>4, <2>5, <4>1, <4>3
      <3>8. Answered(q, i)'
        BY <2>2, <2>6, <2>12, <3>6, <3>7, ZenonT(40) DEF Answered, Final, HS!Sound, HS!Begins
      <3>9. Ends(q)'
        BY <2>1, <2>2, Zenon DEF Talk, Ends
      <3>10. Talk(q, i)'
        BY <2>2, <2>4, <3>4, <3>5, <3>8, <3>9, Zenon DEF Talk
      <3> QED
        BY <1>1, <2>2, <2>4, <3>1, <3>3, <3>10, TalkOn, Zenon DEF Talking
    <2> QED
      BY <2>13, <2>14, <2>15, Zenon
  <1> QED
    BY <1>2, <1>3, Zenon DEF HS!Respond

LEMMA JoinedIs ==
  ASSUME NEW S, NEW a \in Seq(S), NEW b \in Seq(S)
  PROVE  a \o b \in Seq(S) /\ Joined(a, b, a \o b)
  BY Concatenated DEF Joined

LEMMA H_Choose ==
  ASSUME SInv, NEW k \in DOMAIN Options, HS!Choose(k), UNCHANGED requests
  PROVE  SInv'
  <1>1. /\ ~closed /\ pushing = <<>> /\ cl = "haggle" /\ asks' = asks + 1
        /\ due' = IF HS!Sound(Options[k]) THEN due \o HS!Due(Options[k]) ELSE due
        /\ cl' = IF ~HS!Sound(Options[k]) THEN "left"
                 ELSE CASE Options[k].opt \in {"EXPORT_NAME", "GO"} -> "last"
                        [] Options[k].opt = "ABORT"                 -> "leaving"
                        [] OTHER                                    -> "haggle"
        /\ UNCHANGED <<closed, wire, back, hs, no_zeroes, opt, padded>>
    BY Zenon DEF HS!Choose, HS!server
  <1>2. pushing' = OptFrame(k)
    BY Zenon DEF HS!Choose, OptFrame, HS!Unit, Part
  <1>3. hs \in Talking
    BY <1>1, Zenon DEF SInv, STyped
  <1>4. PICK q, i : Talk(q, i)
    BY <1>3, Zenon DEF SInv
  <1>5. PICK n : n = asks + 1
    BY Zenon
  <1>6. /\ q \in [1..asks -> DOMAIN Options] /\ padded \in BOOLEAN /\ asks \in Nat /\ n \in Nat
        /\ back \in Seq(Msgs) /\ due \in Seq(Msgs) /\ Len(back) \in Nat /\ Len(due) \in Nat
        /\ Done(i) \in 0..n
    BY <1>3, <1>4, <1>5, TalkOf, Zenon
  <1>7. PICK r \in [1..n -> DOMAIN Options] :
           /\ r[n] = k /\ \A j \in 1..asks : r[j] = q[j]
           /\ OneMore(n, Said(asks, padded, q), Said(n, padded, r))
           /\ Said(n, padded, r)[n + 1] = OptFrame(k)
           /\ OneMore(n, Owed(asks, padded, q), Owed(n, padded, r))
           /\ Owed(n, padded, r)[n + 1] =
                IF HS!Sound(Options[k]) THEN Answers(Options[k], padded) ELSE <<>>
    <2>1. PICK r : Chosen(asks, padded, q, k, r)
      BY <1>6, OptionAdded, Zenon
    <2> QED
      BY <1>5, <2>1, Zenon DEF Chosen
  <1>8. i \in 0..n /\ (hs \in {"payload", "answer"} => i > 1 /\ opt = q[i - 1]) /\ hs # "greet"
    BY <1>1, <1>4, <1>5, Zenon DEF Talk, Place
  <1>9. ASSUME hs \in {"payload", "answer"}
        PROVE  i - 1 \in 1..asks /\ r[i - 1] = q[i - 1] /\ opt \in DOMAIN Options
    <2>1. i - 1 \in 1..asks
      BY <1>5, <1>6, <1>8, <1>9
    <2>2. r[i - 1] = q[i - 1]
      BY <1>7, <2>1, Zenon
    <2>3. opt \in DOMAIN Options
      BY <1>6, <1>8, <1>9, <2>1, Zenon
    <2> QED
      BY <2>1, <2>2, <2>3, Zenon
  <1>10. ASSUME NEW j \in 1..asks PROVE ~Final(Options[q[j]])
    BY <1>1, <1>4, Zenon DEF Talk, Ends
  <1>11. ~(hs = "answer" /\ Options[opt].opt = "ABORT")
    BY <1>8, <1>9, <1>10, Zenon DEF Final
  <1>12. PICK a \in Seq(Msgs) : a = Owed(n, padded, r)[n + 1] /\ Joined(due, a, due') /\ due' \in Seq(Msgs)
    <2>1. Options[k] \in HS!Option
      BY OptionOf, Zenon
    <2>2. Answers(Options[k], padded) \in Seq(Msgs) /\ HS!Due(Options[k]) = Answers(Options[k], padded)
      BY <1>6, <2>1, AnswersType, DueIs, Zenon
    <2>3. CASE HS!Sound(Options[k])
      BY <1>1, <1>6, <1>7, <2>2, <2>3, JoinedIs, Zenon
    <2>4. CASE ~HS!Sound(Options[k])
      <3>1. due' = due /\ Owed(n, padded, r)[n + 1] = <<>> /\ <<>> \in Seq(Msgs) /\ Len(<<>>) = 0
        BY <1>1, <1>7, <2>4
      <3>2. Len(due) + Len(<<>>) = Len(due)
        BY <1>6, <3>1
      <3>3. Joined(due, <<>>, due)
        BY <3>1, <3>2 DEF Joined
      <3> QED
        BY <1>6, <3>1, <3>3, ZenonT(40)
    <2> QED
      BY <2>3, <2>4, Zenon
  <1>13. Len(due) <= Len(due') /\ \A j \in 1..Len(due) : due'[j] = due[j]
    <2>1. Len(a) \in Nat
      BY <1>12
    <2> QED
      BY <1>6, <1>12, <2>1 DEF Joined
  <1>14. STyped'
    <2>1. Len(back) <= Len(due) /\ \A j \in 1..Len(back) : back[j] = due[j]
      BY Zenon DEF SInv, STyped
    <2>2. Len(back) <= Len(due') /\ \A j \in 1..Len(back) : back[j] = due'[j]
      <3>1. PICK x \in Nat, y \in Nat, z \in Nat : x = Len(back) /\ y = Len(due) /\ z = Len(due')
        BY <1>6, <1>12
      <3> QED
        BY <1>13, <2>1, <3>1
    <2>3. cl' \in {"left", "last", "leaving", "haggle"} /\ asks' \in Nat
      BY <1>1, <1>6
    <2> QED
      BY <1>1, <1>12, <2>2, <2>3, Zenon DEF SInv, STyped
  <1>15. Ends(r)'
    <2>1. r[n] = k /\ asks' = n
      BY <1>1, <1>5, <1>7, Zenon
    <2>2. ASSUME NEW j \in 1..n, j # n PROVE ~Final(Options[r[j]])
      <3>1. j \in 1..asks
        BY <1>5, <1>6, <2>2
      <3> QED
        BY <1>7, <1>10, <3>1, Zenon
    <2>3. Final(Options[k]) =>
            /\ cl' # "haggle" /\ (~HS!Sound(Options[k]) => cl' = "left")
            /\ HS!Sound(Options[k]) /\ Options[k].opt = "ABORT" => cl' \in {"leaving", "left"}
            /\ HS!Sound(Options[k]) /\ HS!Begins(Options[k]) => cl' = "last"
      BY <1>1, OptionOf, Zenon DEF Final, HS!Begins
    <2>4. cl' = "last" => HS!Sound(Options[k]) /\ HS!Begins(Options[k])
      BY <1>1, OptionOf, Zenon DEF HS!Begins
    <2>5. n > 0
      BY <1>5, <1>6
    <2> QED
      BY <2>1, <2>2, <2>3, <2>4, <2>5, Zenon DEF Ends, Final, HS!Sound, HS!Begins
  <1>16. Done(i)' = Done(i) /\ Heard' = Heard
    BY <1>1, Zenon DEF Done, Heard
  <1>17. Answered(r, i)'
    <2>1. PICK s, t, g, h, d, b : /\ s = due /\ t = due' /\ g = Owed(asks, padded, q)
                                  /\ h = Owed(n, padded, r) /\ d = Done(i) /\ b = Len(back)
      BY ZenonT(40)
    <2>2. /\ Follows(s, n, g, d, b) /\ Joined(s, h[n + 1], t) /\ OneMore(n, g, h)
          /\ d \in 0..n /\ b \in Nat /\ Len(s) \in Nat
      BY <1>4, <1>5, <1>6, <1>7, <1>12, <2>1, Zenon DEF Talk, Answered
    <2>3. Follows(t, n + 1, h, d, b)
      BY <1>6, <2>2, OneMoreFollows, Zenon
    <2>4. ASSUME NEW j \in 1..n, Final(Options[r[j]]) PROVE Done(i) <= j
      <3>1. CASE j = n
        BY <1>6, <3>1
      <3>2. CASE j # n
        <4>1. j \in 1..asks
          BY <1>5, <1>6, <3>2
        <4> QED
          BY <1>7, <1>10, <2>4, <4>1, ZenonT(40)
      <3> QED
        BY <3>1, <3>2, Zenon
    <2> QED
      BY <1>1, <1>5, <1>16, <2>1, <2>3, <2>4, Zenon DEF Answered, Final, HS!Sound, HS!Begins
  <1>18. Place(r, i)'
    <2>1. asks' = n /\ i \in 0..(n + 1)
      BY <1>1, <1>5, <1>6, <1>8
    <2> QED
      BY <1>1, <1>4, <1>8, <1>9, <2>1, Zenon DEF Talk, Place
  <1>19. Streams(r, i)'
    <2>1. wire \in Seq(HUnits) /\ OptFrame(k) \in Seq(HUnits)
      BY <1>4, OptFrameIs, Zenon DEF Talk, Streams
    <2>2. PICK s, t, g, h, m : /\ s = Stream /\ t = Stream' /\ g = Said(asks, padded, q)
                               /\ h = Said(n, padded, r) /\ m = Heard
      BY Zenon
    <2>3. s = wire /\ t = wire \o OptFrame(k) /\ Len(s) \in Nat
      BY <1>1, <1>2, <2>1, <2>2 DEF Stream
    <2>4. Joined(s, h[n + 1], t) /\ OneMore(n, g, h)
      BY <1>7, <2>1, <2>2, <2>3, JoinedIs, ZenonT(40)
    <2>5. m \in Nat
      BY <1>9, <2>2, OptionOf, Zenon DEF Heard
    <2>6. Follows(s, n, g, i, m)
      BY <1>1, <1>4, <1>5, <1>11, <2>2, Zenon DEF Talk, Streams
    <2>7. Follows(t, n + 1, h, i, m)
      BY <1>6, <1>8, <2>3, <2>4, <2>5, <2>6, OneMoreFollows, Zenon
    <2>8. cl' # "greeting"
      BY <1>1, Zenon
    <2> QED
      BY <1>1, <1>2, <1>5, <1>16, <2>1, <2>2, <2>7, <2>8, Zenon DEF Streams
  <1>20. Talk(r, i)'
    BY <1>1, <1>5, <1>15, <1>17, <1>18, <1>19, Zenon DEF Talk
  <1>21. UNCHANGED <<sent, pc, head, batch, one, taken, replies>> /\ hs # "transmit" /\ cl' # "transmit"
    BY <1>1, <1>3, Zenon DEF requests, Talking
  <1> QED
    BY <1>1, <1>3, <1>14, <1>20, <1>21, TalkOn, Zenon

(* The client reads what it must.                                          *)
LEMMA ReadBoth ==
  ASSUME STyped, back # <<>>
  PROVE  /\ due # <<>> /\ Head(due) = Head(back)
         /\ Tail(back) \in Seq(Msgs) /\ Tail(due) \in Seq(Msgs)
         /\ Len(back) \in Nat /\ Len(back) > 0 /\ Len(due) \in Nat /\ Len(due) > 0
         /\ Len(Tail(back)) = Len(back) - 1 /\ Len(Tail(due)) = Len(due) - 1
         /\ Len(Tail(back)) <= Len(Tail(due))
         /\ \A j \in 1..Len(Tail(back)) : Tail(back)[j] = Tail(due)[j]
         /\ Without(due, 1, Tail(due))
  <1>1. /\ back \in Seq(Msgs) /\ due \in Seq(Msgs)
        /\ Len(back) <= Len(due) /\ \A j \in 1..Len(back) : back[j] = due[j]
    BY Zenon DEF STyped
  <1>2. Len(back) \in Nat /\ Len(back) > 0 /\ Len(due) \in Nat /\ Len(due) > 0 /\ due # <<>>
    BY <1>1
  <1>3. Head(due) = Head(back)
    BY <1>1, <1>2
  <1>4. /\ Tail(back) \in Seq(Msgs) /\ Tail(due) \in Seq(Msgs)
        /\ Len(Tail(back)) = Len(back) - 1 /\ Len(Tail(due)) = Len(due) - 1
        /\ \A j \in 1..Len(Tail(back)) : Tail(back)[j] = back[j + 1]
        /\ \A j \in 1..Len(Tail(due)) : Tail(due)[j] = due[j + 1]
    BY <1>1, <1>2
  <1>a. PICK x \in Nat, y \in Nat : x = Len(back) /\ y = Len(due)
    BY <1>2, Zenon
  <1>b. PICK v, w : v = Tail(back) /\ w = Tail(due)
    BY Zenon
  <1>5. x = Len(back) /\ y = Len(due) /\ v = Tail(back) /\ w = Tail(due)
    BY <1>a, <1>b, Zenon
  <1>6. /\ x <= y /\ x > 0 /\ Len(v) = x - 1 /\ Len(w) = y - 1
        /\ \A j \in 1..x : back[j] = due[j]
        /\ \A j \in 1..(x - 1) : v[j] = back[j + 1]
        /\ \A j \in 1..(y - 1) : w[j] = due[j + 1]
    BY <1>1, <1>2, <1>4, <1>5, Zenon
  <1>7. Len(v) <= Len(w) /\ \A j \in 1..Len(v) : v[j] = w[j]
    BY <1>6
  <1>8. Without(due, 1, w)
    BY <1>5, <1>6, Zenon DEF Without
  <1> QED
    BY <1>2, <1>3, <1>4, <1>5, <1>7, <1>8, Zenon

LEMMA ReadGreeting ==
  ASSUME SInv, HS!Read, UNCHANGED requests, cl = "greeting",
         padded' \in BOOLEAN, pushing' = <<HS!Unit("flags", IF padded' THEN 0 ELSE 1)>>,
         cl' = "haggle", due' = Tail(due), UNCHANGED asks
  PROVE  SInv'
  <1>1. ~closed /\ back # <<>> /\ back' = Tail(back) /\ UNCHANGED <<closed, wire, hs, no_zeroes, opt>>
    BY Zenon DEF HS!Read, HS!server
  <1>2. hs \in Talking
    BY <1>1, Zenon DEF SInv, STyped
  <1>3. PICK q, i : Talk(q, i)
    BY <1>2, Zenon DEF SInv
  <1>4. asks = 0 /\ wire = <<>> /\ hs \in {"greet", "flags"} /\ hs # "greet"
    BY <1>1, <1>3, ZenonT(40) DEF Talk, Streams, Place
  <1>5. hs = "flags" /\ i = 0 /\ Done(i) = 1 /\ Done(i)' = 1 /\ Heard' = 0
    BY <1>1, <1>3, <1>4, Zenon DEF Talk, Place, Done, Heard
  <1>6. /\ q \in [1..asks -> DOMAIN Options] /\ padded \in BOOLEAN /\ Len(back) \in Nat /\ Len(due) \in Nat
    BY <1>2, <1>3, TalkOf, Zenon
  <1>7. STyped
    BY Zenon DEF SInv
  <1>8. /\ back' \in Seq(Msgs) /\ due' \in Seq(Msgs)
        /\ Len(back') = Len(back) - 1 /\ Len(due') = Len(due) - 1
        /\ Len(back') <= Len(due') /\ \A j \in 1..Len(back') : back'[j] = due'[j]
        /\ Without(due, 1, due')
    BY <1>1, <1>7, ReadBoth, Zenon
  <1>9. STyped'
    BY <1>1, <1>7, <1>8, Zenon DEF STyped
  <1>10. Ends(q)' /\ Place(q, i)'
    BY <1>1, <1>4, <1>5 DEF Ends, Place
  <1>11. Answered(q, i)'
    <2>1. PICK g, n, b : g = Owed(asks, padded, q) /\ n = asks + 1 /\ b = Len(back)
      BY Zenon
    <2>2. g = Owed(asks, padded, q)'
      <3>1. Owed(asks, padded, q)' = Owed(asks, padded', q)
        BY Zenon DEF Owed, Answers, HS!Sound, HS!Bare, HS!Reply
      <3>2. Owed(asks, padded', q) = Owed(asks, padded, q)
        BY <1>4, SMTT(30) DEF Owed
      <3> QED
        BY <2>1, <3>1, <3>2, Zenon
    <2>3. Follows(due, n, g, 1, b)
      BY <1>3, <1>5, <2>1, Zenon DEF Talk, Answered
    <2>4. PICK e, d, s, t : e = 1 /\ d = 1 /\ s = due /\ t = due'
      BY Zenon
    <2>5. /\ Follows(s, n, g, e, b) /\ b \in Nat /\ d \in Nat
          /\ Len(s) \in Nat /\ Len(t) \in Nat /\ Without(s, d, t)
      <3>1. Follows(s, n, g, e, b)
        BY <2>3, <2>4, Zenon
      <3>2. Without(s, d, t)
        BY <1>8, <2>4, Zenon
      <3>3. b \in Nat /\ d \in Nat /\ Len(s) \in Nat /\ Len(t) \in Nat
        BY <1>6, <1>8, <2>1, <2>4
      <3> QED
        BY <3>1, <3>2, <3>3, Zenon
    <2>6. Follows(t, n, g, e, b - d)
      BY <2>5, LessFollows, Zenon
    <2>7. b - d = Len(back')
      BY <1>8, <2>1, <2>4, Zenon
    <2>8. Follows(due', n, Owed(asks, padded, q)', Done(i)', Len(back'))
      BY <1>5, <2>2, <2>4, <2>6, <2>7, Zenon
    <2>9. asks' = asks /\ n = asks + 1
      BY <2>1, Zenon
    <2>10. Follows(due', (asks + 1)', Owed(asks, padded, q)', Done(i)', Len(back'))
      BY <2>8, <2>9, Zenon
    <2>11. \A k \in 1..asks' : FALSE
      BY <1>4
    <2> QED
      BY <2>10, <2>11, Zenon DEF Answered
  <1>12. Streams(q, i)'
    <2>1. PICK u : u = Part("flags", IF padded' THEN 0 ELSE 1)
      BY Zenon
    <2>2. u \in HUnits /\ pushing' = <<u>>
      BY <2>1, Zenon DEF HUnits, Part, HS!Unit
    <2>3. pushing' \in Seq(HUnits) /\ wire' \in Seq(HUnits) /\ Stream' = <<u>>
      BY <1>1, <1>4, <2>2 DEF Stream
    <2>4. PICK h, o : h = Said(asks, padded', q) /\ o = 0
      BY Zenon
    <2>5. h[1] = <<u>>
      BY <1>4, <2>1, <2>4 DEF Said
    <2>6. /\ OneMore(o, h, h) /\ Joined(<<>>, h[o + 1], <<u>>) /\ o \in Nat /\ o \in 0..o
          /\ Len(<<>>) \in Nat
      <3>1. Len(<<u>>) = 1 /\ Len(<<>>) = 0 /\ <<u>>[1] = u
        BY Zenon
      <3>2. o + 1 = 1 /\ h[o + 1] = <<u>>
        BY <2>4, <2>5
      <3>3. OneMore(o, h, h)
        BY <2>4, <3>1, <3>2 DEF OneMore
      <3>4. Joined(<<>>, <<u>>, <<u>>)
        BY <3>1 DEF Joined
      <3> QED
        <4>1. Joined(<<>>, h[o + 1], <<u>>)
          BY <3>2, <3>4, Zenon
        <4>2. o \in Nat /\ o \in 0..o /\ Len(<<>>) \in Nat
          BY <2>4, <3>1
        <4> QED
          BY <3>3, <4>1, <4>2, Zenon
    <2>7. Follows(<<>>, o, h, o, o)
      BY <2>4, NothingFollows, Zenon
    <2>8. Follows(<<u>>, o + 1, h, o, o)
      BY <2>6, <2>7, OneMoreFollows, Zenon
    <2>9. Said(asks, padded, q)' = h /\ asks' + 1 = o + 1
      BY <1>4, <2>4, Zenon DEF Said, OptFrame
    <2> QED
      BY <1>1, <1>5, <2>3, <2>4, <2>8, <2>9, Zenon DEF Streams
  <1>13. Talk(q, i)'
    BY <1>6, <1>10, <1>11, <1>12, Zenon DEF Talk
  <1>14. UNCHANGED <<sent, pc, head, batch, one, taken, replies>> /\ hs # "transmit"
    BY <1>2, Zenon DEF requests, Talking
  <1> QED
    BY <1>1, <1>2, <1>9, <1>13, <1>14, TalkOn, Zenon

(* A client that waits for the transmission has more to read than the      *)
(* server has sent, as long as they haggle.                                *)
LEMMA MoreDue ==
  ASSUME SInv, NEW q, NEW i, Talk(q, i), hs \in Talking, cl = "last"
  PROVE  Len(due) > Len(back)
  <1>1. PICK g, n, d, b : g = Owed(asks, padded, q) /\ n = asks + 1 /\ d = Done(i) /\ b = Len(back)
    BY Zenon
  <1>2. /\ q \in [1..asks -> DOMAIN Options] /\ padded \in BOOLEAN /\ asks \in Nat
        /\ b \in Nat /\ Len(due) \in Nat /\ n \in Nat /\ d \in 0..n /\ Sized(n, g)
    BY <1>1, TalkOf, Zenon
  <1>3. asks > 0 /\ Final(Options[q[asks]])
    BY Zenon DEF Talk, Ends, Final
  <1>4. d <= asks
    BY <1>1, <1>2, <1>3 DEF Talk, Answered
  <1>5. Len(g[d + 1]) > 0
    <2>1. CASE d = 0
      <3>1. Len(g[1]) = 1
        <4>1. asks \in Nat /\ padded \in BOOLEAN /\ q \in [1..asks -> DOMAIN Options]
          BY <1>2, Zenon
        <4>2. g = Owed(asks, padded, q)
          BY <1>1, Zenon
        <4> QED
          BY <4>1, <4>2, OwedIs, ZenonT(40)
      <3> QED
        BY <2>1, <3>1
    <2>2. CASE d # 0
      <3>1. d \in 1..asks
        BY <1>2, <1>4, <2>2
      <3>2. HS!Sound(Options[q[d]])
        BY <3>1, Zenon DEF Talk, Ends, Final
      <3> QED
        BY <1>1, <1>2, <3>1, <3>2, OwedIs, Zenon
    <2> QED
      BY <2>1, <2>2, Zenon
  <1>6. d < n
    BY <1>1, <1>2, <1>4
  <1>7. PICK s : s = due /\ Follows(s, n, g, d, b) /\ Len(s) \in Nat
    BY <1>1, <1>2, Zenon DEF Talk, Answered
  <1>8. b + Len(g[d + 1]) <= Len(s)
    BY <1>2, <1>6, <1>7, MoreFollows, Zenon
  <1>9. Len(g[d + 1]) \in Nat
    BY <1>2, <1>6 DEF Sized
  <1> QED
    BY <1>1, <1>2, <1>5, <1>7, <1>8, <1>9

LEMMA H_Read ==
  ASSUME SInv, HS!Read, UNCHANGED requests
  PROVE  SInv'
  <1>1. /\ ~closed /\ back # <<>> /\ back' = Tail(back)
        /\ UNCHANGED <<closed, wire, hs, no_zeroes, opt>> /\ STyped
    BY Zenon DEF HS!Read, HS!server, SInv
  <1>2. /\ due # <<>> /\ Head(due) = Head(back)
        /\ Tail(back) \in Seq(Msgs) /\ Tail(due) \in Seq(Msgs)
        /\ Len(back) \in Nat /\ Len(back) > 0 /\ Len(due) \in Nat /\ Len(due) > 0
        /\ Len(Tail(back)) = Len(back) - 1 /\ Len(Tail(due)) = Len(due) - 1
        /\ Len(Tail(back)) <= Len(Tail(due))
        /\ \A j \in 1..Len(Tail(back)) : Tail(back)[j] = Tail(due)[j]
        /\ Without(due, 1, Tail(due))
    BY <1>1, ReadBoth, Zenon
  <1>3. CASE cl = "greeting"
    <2>1. /\ padded' \in BOOLEAN /\ pushing' = <<HS!Unit("flags", IF padded' THEN 0 ELSE 1)>>
          /\ cl' = "haggle" /\ due' = Tail(due) /\ UNCHANGED asks
      BY <1>2, <1>3, Zenon DEF HS!Read
    <2> QED
      BY <1>3, <2>1, ReadGreeting, Zenon
  <1>4. CASE cl # "greeting"
    <2>1. /\ due' = Tail(due)
          /\ cl' = CASE due' = <<>> /\ cl = "last"    -> "transmit"
                     [] due' = <<>> /\ cl = "leaving" -> "left"
                     [] OTHER                         -> cl
          /\ padded' = (padded /\ cl' # "transmit")
          /\ asks' = (IF cl' = "transmit" THEN 0 ELSE asks)
          /\ UNCHANGED pushing
      BY <1>2, <1>4, Zenon DEF HS!Read
    <2>2. /\ due' = <<>> /\ cl = "last" => cl' = "transmit"
          /\ due' = <<>> /\ cl = "leaving" => cl' = "left"
          /\ ~(due' = <<>> /\ cl \in {"last", "leaving"}) => cl' = cl
      BY <2>1, Zenon
    <2>3. /\ padded' \in BOOLEAN /\ asks' \in Nat
          /\ cl' # "transmit" => padded' = padded /\ asks' = asks
      BY <1>1, <2>1, Zenon DEF STyped
    <2>4. /\ back' \in Seq(Msgs) /\ due' \in Seq(Msgs) /\ Len(back') = Len(back) - 1
          /\ Len(due') = Len(due) - 1 /\ Len(due') \in Nat
          /\ Len(back') <= Len(due') /\ \A j \in 1..Len(back') : back'[j] = due'[j]
          /\ Without(due, 1, due')
      BY <1>1, <1>2, <2>1
    <2>5. STyped'
      BY <1>1, <2>2, <2>3, <2>4, Zenon DEF STyped
    <2>6. /\ UNCHANGED <<sent, pc, head, batch, one, taken, replies>>
          /\ UNCHANGED vars
      BY <1>1, <2>1, Zenon DEF requests, vars, client
    <2>7. CASE hs = "transmit"
      <3>1. ConnInv /\ Len(due) = Len(back) /\ cl = "last"
        BY <1>2, <2>7, Zenon DEF SInv
      <3>2. ConnInv'
        BY <2>6, <3>1, K_Still, Zenon
      <3>3. Len(due') = Len(back') /\ cl' \in {"last", "transmit"} /\ (cl' = "transmit" => due' = <<>>)
        BY <2>2, <2>4, <3>1, Zenon
      <3> QED
        BY <1>1, <2>5, <2>7, <3>2, <3>3, Zenon DEF SInv, Talking
    <2>8. CASE hs = "lost"
      <3>1. Idle' /\ cl' \in {"left", "leaving"}
        BY <1>1, <2>2, <2>6, <2>8, Zenon DEF SInv, Idle, batch, one
      <3> QED
        BY <1>1, <2>5, <2>8, <3>1, Zenon DEF SInv, Talking
    <2>9. CASE hs \in Talking
      <3>1. PICK q, i : Talk(q, i)
        BY <2>9, Zenon DEF SInv
      <3>2. cl = "last" => due' # <<>>
        <4>1. ASSUME cl = "last" PROVE Len(due) > Len(back)
          BY <2>9, <3>1, <4>1, MoreDue, Zenon
        <4>2. Len(<<>>) = 0
          BY Zenon
        <4>3. ASSUME cl = "last" PROVE Len(due') # 0
          BY <1>2, <2>4, <4>1, <4>3
        <4> QED
          BY <4>2, <4>3, Zenon
      <3>3. /\ cl # "transmit" /\ q \in [1..asks -> DOMAIN Options]
            /\ Done(i) \in 0..(asks + 1) /\ asks + 1 \in Nat
        BY <2>9, <3>1, TalkOf, Zenon
      <3>4. cl' # "transmit" /\ (cl' = cl \/ (cl = "leaving" /\ cl' = "left"))
        <4>1. CASE due' = <<>> /\ cl = "leaving"
          <5>1. cl' = "left"
            BY <2>2, <4>1, Zenon
          <5> QED
            BY <4>1, <5>1, Zenon
        <4>2. CASE ~(due' = <<>> /\ cl = "leaving")
          <5>1. ~(due' = <<>> /\ cl \in {"last", "leaving"})
            BY <3>2, <4>2, Zenon
          <5>2. cl' = cl
            BY <2>2, <5>1, Zenon
          <5>3. cl # "transmit"
            BY <3>3, Zenon
          <5> QED
            BY <5>2, <5>3, Zenon
        <4> QED
          BY <4>1, <4>2, Zenon
      <3>5. padded' = padded /\ asks' = asks
        BY <2>3, <3>4, Zenon
      <3>6. Ends(q)' /\ Place(q, i)'
        BY <1>1, <3>1, <3>4, <3>5, Zenon DEF Talk, Ends, Place
      <3>7. Streams(q, i)'
        BY <1>1, <1>4, <2>1, <3>1, <3>4, <3>5, Zenon DEF Talk, Streams, Stream, Heard
      <3>8. Answered(q, i)'
        <4>1. PICK g, n, d, b, e : /\ g = Owed(asks, padded, q) /\ n = asks + 1 /\ d = Done(i)
                                   /\ b = Len(back) /\ e = 1
          BY Zenon
        <4>2. /\ Follows(due, n, g, d, b) /\ b \in Nat /\ e \in Nat
              /\ Len(due) \in Nat /\ Len(due') \in Nat /\ Without(due, e, due')
          BY <1>2, <2>4, <3>1, <4>1, Zenon DEF Talk, Answered
        <4>3. Follows(due', n, g, d, b - e)
          BY <4>2, LessFollows, Zenon
        <4>4. Done(i)' = d /\ b - e = Len(back') /\ Owed(asks, padded, q)' = g
          BY <1>1, <2>4, <3>5, <4>1, SMTT(30) DEF Done, Owed, Answers
        <4> QED
          BY <3>1, <3>5, <4>1, <4>3, <4>4, Zenon DEF Talk, Answered
      <3>9. Talk(q, i)'
        BY <3>3, <3>5, <3>6, <3>7, <3>8, Zenon DEF Talk
      <3>10. hs # "transmit"
        BY <2>9, Zenon DEF Talking
      <3> QED
        BY <1>1, <2>5, <2>6, <2>9, <3>4, <3>9, <3>10, TalkOn, Zenon
    <2> QED
      BY <1>1, <2>7, <2>8, <2>9, Zenon DEF STyped
  <1> QED
    BY <1>3, <1>4, Zenon

LEMMA H_Push ==
  ASSUME SInv, Push, UNCHANGED haggling
  PROVE  SInv'
  <1>1. UNCHANGED <<sent, pc, head, batch, one, taken, replies, closed>> /\ UNCHANGED haggling
    BY Zenon DEF Push, client
  <1>2. UNCHANGED <<back, hs, no_zeroes, opt, cl, padded, due, asks>>
    BY <1>1, Zenon DEF haggling
  <1>3. STyped'
    BY <1>2, Zenon DEF SInv, STyped
  <1>4. CASE hs = "transmit"
    BY <1>2, <1>3, <1>4, K_Push, Zenon DEF SInv, Talking
  <1>5. CASE hs = "lost"
    BY <1>1, <1>2, <1>3, <1>5, Zenon DEF SInv, Talking, Idle, batch, one
  <1>6. CASE hs \in Talking
    <2>1. PICK q, i : Talk(q, i)
      BY <1>6, Zenon DEF SInv
    <2>2. Ends(q)' /\ Place(q, i)' /\ Answered(q, i)' /\ Heard' = Heard
      BY <1>2, <2>1, ZenonT(40) DEF Talk, Ends, Place, Answered, Done, Heard
    <2>3. wire \in Seq(HUnits) /\ pushing \in Seq(HUnits) /\ pushing # <<>>
      BY <2>1, Zenon DEF Talk, Streams, Push
    <2>4. PICK s, t, m, e : s = Stream /\ t = Stream' /\ m = Heard /\ e = 0
      BY Zenon
    <2>5. /\ wire' \in Seq(HUnits) /\ pushing' \in Seq(HUnits)
          /\ Len(t) \in Nat /\ Len(s) \in Nat /\ Without(s, e, t)
      BY <2>3, <2>4, AnyPushed, Zenon
    <2>6. m \in Nat
      <3>1. CASE hs = "payload"
        <4>1. opt = q[i - 1] /\ i - 1 \in 1..asks /\ q \in [1..asks -> DOMAIN Options]
          <5>1. asks \in Nat /\ i \in 0..(asks + 1) /\ i > 1 /\ opt = q[i - 1]
            BY <2>1, <3>1, Zenon DEF SInv, STyped, Talk, Place
          <5> QED
            BY <2>1, <5>1 DEF Talk
        <4> QED
          BY <2>4, <4>1, OptionOf, Zenon DEF Heard
      <3> QED
        BY <2>4, <3>1, Zenon DEF Heard
    <2>7. Streams(q, i)'
      <3>1. CASE hs = "answer" /\ Options[opt].opt = "ABORT"
        BY <1>2, <2>1, <2>3, <2>5, <3>1, ZenonT(40) DEF Talk, Streams
      <3>2. CASE ~(hs = "answer" /\ Options[opt].opt = "ABORT")
        <4>1. PICK g, n : g = Said(asks, padded, q) /\ n = asks + 1
          BY Zenon
        <4>2. Follows(s, n, g, i, m) /\ cl # "greeting"
          BY <2>1, <2>3, <2>4, <3>2, <4>1, Zenon DEF Talk, Streams
        <4>3. Follows(t, n, g, i, m - e)
          BY <2>4, <2>5, <2>6, <4>2, LessFollows, Zenon
        <4> QED
          <5>1. m - e = m
            BY <2>4, <2>6
          <5>2. Follows(Stream', n, g, i, Heard')
            BY <2>2, <2>4, <4>3, <5>1, Zenon
          <5>3. Follows(Stream', (asks + 1)', Said(asks, padded, q)', i, Heard')
            BY <1>2, <4>1, <5>2, Zenon DEF Said, OptFrame
          <5> QED
            BY <1>2, <2>5, <4>2, <5>3, Zenon DEF Streams
      <3> QED
        BY <3>1, <3>2, Zenon
    <2>8. Talk(q, i)'
      BY <1>2, <2>1, <2>2, <2>7, Zenon DEF Talk
    <2> QED
      BY <1>1, <1>2, <1>3, <1>6, <2>8, TalkOn, Zenon DEF Talking, SInv
  <1> QED
    BY <1>4, <1>5, <1>6, Zenon DEF SInv, STyped

LEMMA H_Hangup ==
  ASSUME SInv, Hangup \/ Stop, UNCHANGED haggling
  PROVE  SInv'
  <1>1. /\ UNCHANGED <<sent, pushing, wire, pc, head, batch, one, taken, replies>>
        /\ closed => closed'
    BY DEF Hangup, Stop, client
  <1>2. UNCHANGED <<back, hs, no_zeroes, opt, cl, padded, due, asks>>
    BY Zenon DEF haggling
  <1>3. STyped'
    BY <1>2, Zenon DEF SInv, STyped
  <1>4. CASE hs = "transmit"
    BY <1>2, <1>3, <1>4, K_Hangup, K_Stop, Zenon DEF SInv, Talking
  <1>5. CASE hs = "lost"
    BY <1>1, <1>2, <1>3, <1>5, Zenon DEF SInv, Talking, Idle, batch, one
  <1>6. CASE hs \in Talking
    <2>1. PICK q, i : Talk(q, i)
      BY <1>6, Zenon DEF SInv
    <2>2. Ends(q)' /\ Place(q, i)' /\ Answered(q, i)'
      BY <1>2, <2>1, ZenonT(40) DEF Talk, Ends, Place, Answered, Done
    <2>3. Streams(q, i)'
      BY <1>1, <1>2, <2>1, Zenon DEF Talk, Streams, Stream, Heard
    <2>4. Talk(q, i)'
      BY <1>2, <2>1, <2>2, <2>3, Zenon DEF Talk
    <2> QED
      BY <1>1, <1>2, <1>3, <1>6, <2>4, TalkOn, Zenon DEF Talking, SInv
  <1> QED
    BY <1>4, <1>5, <1>6, Zenon DEF SInv, STyped

-----------------------------------------------------------------------------
(* The invariant.                                                          *)

LEMMA SessionStarts == SessionInit => SInv
  <1> SUFFICES ASSUME SessionInit PROVE SInv
    BY Zenon
  <1>1. /\ wire = <<>> /\ pushing = <<>> /\ back = <<>> /\ hs = "greet" /\ no_zeroes = FALSE
        /\ cl = "greeting" /\ padded = FALSE /\ due = <<HS!Bare("greeting")>> /\ asks = 0
    BY Zenon DEF SessionInit, HS!Init
  <1>2. Idle
    BY Zenon DEF SessionInit, Init, Idle
  <1>3. HS!Bare("greeting") \in Msgs
    BY Zenon DEF HS!Bare, Msgs
  <1>4. back \in Seq(Msgs) /\ due \in Seq(Msgs) /\ Len(back) = 0 /\ Len(due) = 1
    BY <1>1, <1>3
  <1>5. STyped
    <2>1. asks \in Nat /\ padded \in BOOLEAN /\ no_zeroes \in BOOLEAN
      BY <1>1, Zenon
    <2>2. Len(back) <= Len(due) /\ \A j \in 1..Len(back) : back[j] = due[j]
      BY <1>4
    <2> QED
      BY <1>1, <1>4, <2>1, <2>2, Zenon DEF STyped, Talking
  <1>6. PICK q, o, m : /\ q = [k \in 1..0 |-> k] /\ o = 0 /\ m = HS!Bare("greeting")
    BY Zenon
  <1>7. q \in [1..asks -> DOMAIN Options]
    BY <1>1, <1>6
  <1>8. PICK g : g = Owed(asks, padded, q)
    BY Zenon
  <1>9. g[1] = <<m>>
    BY <1>1, <1>6, <1>8 DEF Owed
  <1>10. /\ OneMore(o, g, g) /\ Joined(<<>>, g[o + 1], <<m>>) /\ o \in Nat /\ o \in 0..o
         /\ Len(<<>>) \in Nat
    BY <1>6, <1>9 DEF OneMore, Joined
  <1>11. Follows(<<>>, o, g, o, o)
    BY <1>6, NothingFollows, Zenon
  <1>12. Follows(<<m>>, o + 1, g, o, o)
    BY <1>10, <1>11, OneMoreFollows, Zenon
  <1>13. Answered(q, 0)
    <2>1. Done(0) = o /\ Len(back) = o /\ due = <<m>> /\ o + 1 = asks + 1
      BY <1>1, <1>4, <1>6, Zenon DEF Done
    <2>2. Follows(due, asks + 1, Owed(asks, padded, q), Done(0), Len(back))
      BY <1>8, <1>12, <2>1, Zenon
    <2>3. \A k \in 1..asks : FALSE
      BY <1>1
    <2>4. \A k \in 1..asks : Final(Options[q[k]]) => Done(0) <= k
      BY <2>3, Zenon
    <2> QED
      BY <2>2, <2>4, Zenon DEF Answered
  <1>14. Ends(q) /\ Place(q, 0) /\ Streams(q, 0)
    <2>1. \A k \in 1..asks : FALSE
      BY <1>1
    <2>2. Ends(q)
      BY <1>1, <2>1, Zenon DEF Ends
    <2>3. Place(q, 0)
      BY <1>1 DEF Place
    <2>4. Streams(q, 0)
      BY <1>1 DEF Streams
    <2> QED
      BY <2>2, <2>3, <2>4, Zenon
  <1>15. Talk(q, 0)
    BY <1>7, <1>13, <1>14, Zenon DEF Talk
  <1> QED
    BY <1>1, <1>2, <1>5, <1>15, Zenon DEF SInv, Talking

LEMMA SessionKept ==
  ASSUME SInv, [SessionNext]_svars
  PROVE  SInv'
  <1>1. CASE Haggle
    BY <1>1, H_Choose, H_Read, H_Greet, H_TakeFlags, H_TakeOption, H_drain, H_Respond, Zenon
    DEF Haggle, HS!nbd_handshake
  <1>2. ASSUME hs = "transmit", UNCHANGED haggling, ConnInv' PROVE SInv'
    <2>1. UNCHANGED <<back, hs, no_zeroes, opt, cl, padded, due, asks>>
      BY <1>2, Zenon DEF haggling
    <2> QED
      BY <1>2, <2>1, Zenon DEF SInv, STyped, Talking
  <1>3. CASE Request
    <2>1. hs = "transmit" /\ ConnInv
      BY <1>3, Zenon DEF Request, SInv
    <2> QED
      BY <1>2, <1>3, <2>1, K_Ask, Zenon DEF Request
  <1>4. CASE Serve
    <2>1. ConnInv
      BY <1>4, Zenon DEF Serve, SInv
    <2> QED
      BY <1>2, <1>4, <2>1, ServeKeeps, Zenon DEF Serve
  <1>5. CASE Socket
    BY <1>5, H_Push, H_Hangup, Zenon DEF Socket
  <1>6. CASE UNCHANGED svars
    <2>1. UNCHANGED vars /\ UNCHANGED haggling
      BY <1>6, Zenon DEF svars
    <2>2. CASE hs = "transmit"
      BY <1>2, <2>1, <2>2, K_Still, Zenon DEF SInv
    <2>3. UNCHANGED <<back, hs, no_zeroes, opt, cl, padded, due, asks>>
      BY <2>1, Zenon DEF haggling
    <2>4. UNCHANGED <<closed, sent, pushing, wire, pc, head, batch, one, taken, replies>>
      BY <2>1, Zenon DEF vars, client
    <2>5. STyped'
      BY <2>3, Zenon DEF SInv, STyped
    <2>6. CASE hs = "lost"
      BY <2>3, <2>4, <2>5, <2>6, Zenon DEF SInv, Talking, Idle, batch, one
    <2>7. CASE hs \in Talking
      <3>1. PICK q, i : Talk(q, i)
        BY <2>7, Zenon DEF SInv
      <3>2. Ends(q)' /\ Place(q, i)' /\ Answered(q, i)'
        BY <2>3, <3>1, ZenonT(40) DEF Talk, Ends, Place, Answered, Done
      <3>3. Streams(q, i)'
        BY <2>3, <2>4, <3>1, Zenon DEF Talk, Streams, Stream, Heard
      <3>4. Talk(q, i)'
        BY <2>3, <3>1, <3>2, <3>3, Zenon DEF Talk
      <3> QED
        BY <2>3, <2>4, <2>5, <2>7, <3>4, TalkOn, Zenon DEF Talking, SInv
    <2> QED
      BY <2>2, <2>6, <2>7, Zenon DEF SInv, STyped
  <1> QED
    BY <1>1, <1>3, <1>4, <1>5, <1>6, Zenon DEF SessionNext, SessionOver

LEMMA SessionAlways == SessionSpec => []SInv
  <1>1. SInv /\ [SessionNext]_svars => SInv'
    BY SessionKept, Zenon
  <1> QED
    BY <1>1, SessionStarts, PTL DEF SessionSpec

LEMMA RequestsRight ==
  ASSUME SInv PROVE FrameAligned /\ InOrder /\ RepliesFramed /\ WithinStaging
  <1>1. CASE hs = "transmit"
    <2>1. ConnInv
      BY <1>1, Zenon DEF SInv
    <2>2. FrameAligned
      BY <2>1, Zenon DEF ConnInv, Typed, Labels, FrameAligned
    <2> QED
      BY <2>1, <2>2, Zenon DEF ConnInv, Batched, Fits, InOrder
  <1>2. CASE hs # "transmit"
    <2>1. Idle
      BY <1>2, Zenon DEF SInv
    <2>2. replies = <<>> /\ pc = "top" /\ nops = 0 /\ nreq = 0 /\ DOMAIN replies = {}
      BY <2>1 DEF Idle, nreq
    <2> QED
      <3>1. FrameAligned /\ InOrder /\ RepliesFramed
        BY <2>2, Zenon DEF FrameAligned, InOrder, RepliesFramed
      <3>2. WithinStaging
        BY <2>2, Sizes DEF WithinStaging
      <3> QED
        BY <3>1, <3>2, Zenon
  <1> QED
    BY <1>1, <1>2, Zenon

-----------------------------------------------------------------------------
(* Theorems.                                                               *)

(* The server never takes payload for a header or a header for payload:    *)
(* whatever the requests, however they are cut up on the socket, batched   *)
(* or refused, handle_client leaves the stream where the next request      *)
(* begins.                                                                 *)
THEOREM StaysAligned == SessionSpec => []FrameAligned
  <1>1. SInv => FrameAligned
    BY RequestsRight, Zenon
  <1> QED
    BY <1>1, SessionAlways, PTL

(* Requests are answered in the order they were sent, each once, and a     *)
(* connection is reset for a failed copy only once the failure and the     *)
(* rest of its batch are reported (handle_client, flush_batch, handle_one).*)
THEOREM AnswersInOrder == SessionSpec => []InOrder
  <1>1. SInv => InOrder
    BY RequestsRight, Zenon
  <1> QED
    BY <1>1, SessionAlways, PTL

(* A reply carries data if and only if it answers a successful read, and   *)
(* says EINVAL if and only if the request is out of bounds (flush_batch,   *)
(* handle_one).                                                            *)
THEOREM RepliesRight == SessionSpec => []RepliesFramed
  <1>1. SInv => RepliesFramed
    BY RequestsRight, Zenon
  <1> QED
    BY <1>1, SessionAlways, PTL

(* A batch never outgrows the arrays worker_init made for it, for any      *)
(* batch depth, request size and window.                                   *)
THEOREM BatchFits == SessionSpec => []WithinStaging
  <1>1. SInv => WithinStaging
    BY RequestsRight, Zenon
  <1> QED
    BY <1>1, SessionAlways, PTL

(* The two ends haggle in step and begin the transmission at the same      *)
(* place of both streams, for any options in any order, as many as the     *)
(* client likes, sent without waiting for answers (nbd_handshake).         *)
THEOREM HagglesInStep == SessionSpec => []HaggleInStep
  <1>1. ASSUME SInv PROVE HaggleInStep
    <2>1. hs # "misread" /\ cl # "confused"
      BY <1>1, Zenon DEF SInv, STyped, Talking
    <2>2. ASSUME cl = "transmit" PROVE hs = "transmit" /\ back = <<>> /\ due = <<>>
      <3>1. hs = "transmit" /\ due = <<>> /\ Len(due) = Len(back) /\ back \in Seq(Msgs)
        BY <1>1, <2>2, Zenon DEF SInv, STyped
      <3>2. Len(back) = 0
        BY <3>1, Zenon
      <3> QED
        BY <3>1, <3>2
    <2>3. ASSUME hs = "transmit"
          PROVE  /\ cl \in {"last", "transmit"}
                 /\ \A m \in {wire, pushing} : \A i \in DOMAIN m : m[i].part \in {"h1", "h2", "data"}
      <3>1. wire \in Seq(Units) /\ pushing \in Seq(Units) /\ cl \in {"last", "transmit"}
        BY <1>1, <2>3, Zenon DEF SInv, ConnInv, Typed
      <3>2. ASSUME NEW m \in Seq(Units), NEW i \in DOMAIN m PROVE m[i].part \in {"h1", "h2", "data"}
        <4>1. m[i] \in Units
          BY <3>2
        <4> QED
          BY <4>1, Zenon DEF Units
      <3> QED
        BY <3>1, <3>2, Zenon
    <2> QED
      BY <2>1, <2>2, <2>3, Zenon DEF HaggleInStep
  <1> QED
    BY <1>1, SessionAlways, PTL

=============================================================================
