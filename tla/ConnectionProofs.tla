-------------------------- MODULE ConnectionProofs --------------------------
(***************************************************************************)
(* That a connection stays in step, answers in order and keeps within its  *)
(* arrays, for any requests, any number of them, and any sizes of the      *)
(* batch and the window.                                                   *)
(***************************************************************************)
EXTENDS Connection, TLAPS

-----------------------------------------------------------------------------
(* The stream of requests.                                                 *)

Units == [part : {"h1", "h2", "data"}, id : Nat]

(* What the client has sent and the server not yet received, pushed or not.*)
Stream == wire \o pushing

Pay(i) == PayloadOf(of(i))
Frames == [k \in 1..Len(sent) |-> Frame(of(k), k)]

(* The sequences g[1], ..., g[n], one after the other: at[k] is where g[k] *)
(* begins.                                                                 *)
Laid(n, g, at) ==
  /\ at \in [1..(n + 1) -> Int]
  /\ \A k \in 1..n : at[k + 1] = at[k] + Len(g[k])
  /\ \A k \in 1..n, l \in 1..(n + 1) : k < l => at[k] + Len(g[k]) <= at[l]

Sized(n, g) == \A k \in 1..n : Len(g[k]) \in Nat

(* u is what is at place p of them.                                        *)
Unit(n, g, at, p, u) ==
  \A k \in 1..n : \A m \in 1..Len(g[k]) : p + 1 = at[k] + m => u = g[k][m]

(* s is what comes after place b.                                          *)
Reads(s, n, g, at, b) ==
  /\ at[n + 1] = b + Len(s) + 1
  /\ \A j \in 1..Len(s) : Unit(n, g, at, b + j, s[j])

(* s is the end of them; r of its elements come before g[i + 1].           *)
Follows(s, n, g, i, r) ==
  \E at, b : /\ b \in Int /\ Laid(n, g, at) /\ Reads(s, n, g, at, b)
             /\ at[i + 1] = b + r + 1

(* r is no more than the payload of request i.                             *)
Within(i, r) == r > 0 => i > 0 /\ r <= Pay(i)

(* What is still to come of the request whose header was read last.        *)
Rem ==
  IF pc \in {"judge", "payload", "another"} \/ (pc \in {"run", "reply"} /\ trailer = 1)
  THEN Pay(head)
  ELSE IF pc = "one" /\ of(head).cmd = "WRITE" THEN left ELSE 0

Aligned ==
  ~Over => Follows(Stream, Len(sent), Frames, head, Rem) /\ Within(head, Rem)

-----------------------------------------------------------------------------
(* The batch and the replies.                                              *)

Labels == {"top", "first", "judge", "one", "payload", "gather", "more", "another", "run",
           "reply", "bye", "lost", "reset", "stopped"}

Gathering == {"payload", "gather", "more", "another", "run", "reply"}

Errors == {"ok", "EINVAL", "ENOSPC", "EIO"}

Typed ==
  /\ sent \in Seq(Kinds)
  /\ wire \in Seq(Units) /\ pushing \in Seq(Units)
  /\ pc \in Labels /\ head \in 0..Len(sent)
  /\ reqs \in Seq(Nat) /\ nops \in Nat /\ trailer \in 0..2 /\ errs \in Seq(Errors)
  /\ left \in Nat /\ err \in Errors
  /\ taken \in Seq(Nat) /\ replies \in Seq([id : Nat, err : Errors, data : BOOLEAN])

(* The requests taken are those sent, in order; the header read last is    *)
(* that of the last one taken, or of the one after it.                     *)
Counted ==
  /\ \A i \in DOMAIN taken : taken[i] = i
  /\ ~Over => head = IF pc \in {"judge", "another"} \/ (pc \in {"run", "reply"} /\ trailer # 0)
                     THEN Len(taken) + 1 ELSE Len(taken)
  /\ Len(taken) <= Len(sent)
  /\ pc \in {"judge", "another", "payload", "one"} => head > 0
  /\ ~Over /\ pc \notin {"run", "reply"} => trailer = 0
  /\ trailer # 0 => head > 0 /\ (trailer = 1 <=> of(head).cmd # "DISC")

(* The batch is the end of what was taken, and the replies come before it. *)
Batched ==
  /\ \A i \in DOMAIN replies : replies[i].id = i
  /\ Len(errs) = nreq /\ nreq <= Len(taken) /\ Len(replies) <= Len(taken)
  /\ \A i \in DOMAIN reqs : reqs[i] = Len(taken) - nreq + i
  /\ pc \in {"top", "first", "judge", "one"} => nreq = 0 /\ nops = 0
  /\ pc \in {"top", "first", "judge"} => Len(replies) = Len(taken)
  /\ pc = "one" => Len(replies) + 1 = Len(taken)
  /\ pc \in Gathering => Len(replies) = (Len(taken) - nreq) + (IF pc = "reply" THEN left ELSE 0)
  /\ pc = "reply" =>
       /\ left <= nreq
       /\ \A i \in 1..nreq : errs[i] \in Outcomes(i)
       /\ \A i \in 1..left : replies[(Len(taken) - nreq) + i].err = errs[i]
  /\ pc = "one" => (err = "EINVAL" <=> of(head).oob)
  /\ pc = "reset" => /\ Len(replies) = Len(taken)
                     /\ \E i \in DOMAIN replies : replies[i].err = "EIO"

Fits ==
  /\ WithinStaging
  /\ pc \in {"more", "another"} => Room

ConnInv == Typed /\ Aligned /\ Counted /\ Batched /\ Fits /\ RepliesFramed

-----------------------------------------------------------------------------
(* Streams.                                                                *)

(* t is s without its first d elements.                                    *)
Without(s, d, t) == Len(t) = Len(s) - d /\ \A j \in 1..Len(t) : t[j] = s[j + d]

LEMMA NothingFollows ==
  ASSUME NEW g
  PROVE  Follows(<<>>, 0, g, 0, 0)
  <1> DEFINE at == [k \in 1..(0 + 1) |-> 1]
  <1>1. at \in [1..(0 + 1) -> Int] /\ at[0 + 1] = 1
    OBVIOUS
  <1> HIDE DEF at
  <1>2. Laid(0, g, at) /\ Reads(<<>>, 0, g, at, 0)
    BY <1>1 DEF Laid, Reads
  <1>3. at[0 + 1] = 0 + 0 + 1 /\ 0 \in Int
    BY <1>1
  <1> QED
    BY <1>2, <1>3, Zenon DEF Follows

LEMMA ReadsWithout ==
  ASSUME NEW s, NEW n, NEW g, NEW at, NEW b \in Int, NEW d \in Nat, NEW t,
         Len(s) \in Nat, Len(t) \in Nat, Reads(s, n, g, at, b), Without(s, d, t)
  PROVE  Reads(t, n, g, at, b + d)
  <1>1. at[n + 1] = (b + d) + Len(t) + 1
    BY DEF Reads, Without
  <1>2. ASSUME NEW j \in 1..Len(t) PROVE Unit(n, g, at, (b + d) + j, t[j])
    <2>1. j + d \in 1..Len(s) /\ t[j] = s[j + d] /\ b + (j + d) = (b + d) + j
      BY DEF Without
    <2>2. Unit(n, g, at, b + (j + d), s[j + d])
      BY <2>1, Zenon DEF Reads
    <2> QED
      BY <2>1, <2>2, Zenon
  <1> QED
    BY <1>1, <1>2, Zenon DEF Reads

(* Some of what comes before g[i + 1] goes.                                *)
LEMMA LessFollows ==
  ASSUME NEW s, NEW n, NEW g, NEW i, NEW r \in Nat, NEW d \in Nat, NEW t,
         Follows(s, n, g, i, r), Len(s) \in Nat, Len(t) \in Nat, Without(s, d, t)
  PROVE  Follows(t, n, g, i, r - d)
  <1>1. PICK at, b : /\ b \in Int /\ Laid(n, g, at) /\ Reads(s, n, g, at, b)
                     /\ at[i + 1] = b + r + 1
    BY Zenon DEF Follows
  <1>2. Reads(t, n, g, at, b + d)
    BY <1>1, ReadsWithout, Zenon
  <1>3. b + d \in Int /\ at[i + 1] = (b + d) + (r - d) + 1
    BY <1>1
  <1> QED
    BY <1>1, <1>2, <1>3, Zenon DEF Follows

(* One more of them is taken to come before.                               *)
LEMMA MoreFollows ==
  ASSUME NEW s, NEW n \in Nat, NEW g, Sized(n, g), NEW i \in 0..n, NEW r \in Nat,
         i < n, Follows(s, n, g, i, r), Len(s) \in Nat
  PROVE  /\ Follows(s, n, g, i + 1, r + Len(g[i + 1]))
         /\ r + Len(g[i + 1]) <= Len(s)
         /\ \A m \in 1..Len(g[i + 1]) : s[r + m] = g[i + 1][m]
  <1>1. PICK at, b : /\ b \in Int /\ Laid(n, g, at) /\ Reads(s, n, g, at, b)
                     /\ at[i + 1] = b + r + 1
    BY Zenon DEF Follows
  <1>2. at[n + 1] = b + Len(s) + 1
    BY <1>1, Zenon DEF Reads
  <1>3. i + 1 \in 1..n /\ Len(g[i + 1]) \in Nat /\ at[i + 1] \in Int
    BY <1>1 DEF Laid, Sized
  <1>4. at[(i + 1) + 1] = at[i + 1] + Len(g[i + 1]) /\ at[i + 1] + Len(g[i + 1]) <= at[n + 1]
    <2>1. n + 1 \in 1..(n + 1) /\ i + 1 < n + 1
      OBVIOUS
    <2> QED
      BY <1>1, <1>3, <2>1, Zenon DEF Laid
  <1>5. PICK z \in Nat : z = Len(g[i + 1])
    BY <1>3, Zenon
  <1>6. r + z <= Len(s) /\ at[(i + 1) + 1] = b + (r + z) + 1
    <2>1. at[(i + 1) + 1] = (b + r + 1) + z /\ (b + r + 1) + z <= b + Len(s) + 1
      BY <1>1, <1>2, <1>4, <1>5, Zenon
    <2>2. b \in Int
      BY <1>1, Zenon
    <2> QED
      BY <2>1, <2>2
  <1>7. ASSUME NEW m \in 1..z PROVE s[r + m] = g[i + 1][m]
    <2>1. r + m \in 1..Len(s) /\ (b + (r + m)) + 1 = at[i + 1] + m
      BY <1>1, <1>6
    <2>2. Unit(n, g, at, b + (r + m), s[r + m])
      BY <1>1, <2>1, Zenon DEF Reads
    <2> QED
      BY <1>3, <1>5, <2>1, <2>2, Zenon DEF Unit
  <1>8. Follows(s, n, g, i + 1, r + z)
    BY <1>1, <1>6, Zenon DEF Follows
  <1> QED
    BY <1>5, <1>6, <1>7, <1>8, Zenon

(* There is another, if there is anything.                                 *)
LEMMA OthersFollow ==
  ASSUME NEW s, NEW n \in Nat, NEW g, NEW i \in 0..n, NEW r \in Nat, Follows(s, n, g, i, r),
         Len(s) \in Nat
  PROVE  (Len(s) # r => i < n) /\ (i = n => Len(s) = r)
  <1>1. PICK at, b : /\ b \in Int /\ Laid(n, g, at) /\ Reads(s, n, g, at, b)
                     /\ at[i + 1] = b + r + 1
    BY Zenon DEF Follows
  <1>2. at[n + 1] = b + Len(s) + 1
    BY <1>1, Zenon DEF Reads
  <1> QED
    BY <1>1, <1>2

(* Of the next one, d elements go.                                         *)
(* s begins with f.                                                        *)
Starts(s, f) == Len(f) <= Len(s) /\ \A m \in 1..Len(f) : s[m] = f[m]

LEMMA HeadFollows ==
  ASSUME NEW s, NEW n \in Nat, NEW g, Sized(n, g), NEW i \in 0..n,
         i < n, Follows(s, n, g, i, 0), Len(s) \in Nat,
         NEW d \in Nat, d <= Len(g[i + 1]), NEW t, Len(t) \in Nat, Without(s, d, t)
  PROVE  Starts(s, g[i + 1]) /\ Follows(t, n, g, i + 1, Len(g[i + 1]) - d)
  <1>1. PICK z \in Nat : z = Len(g[i + 1])
    <2>1. i + 1 \in 1..n
      OBVIOUS
    <2> QED
      BY <2>1, Zenon DEF Sized
  <1>2. PICK o \in Nat : o = 0
    BY Zenon
  <1>3. /\ Follows(s, n, g, i + 1, o + Len(g[i + 1])) /\ o + Len(g[i + 1]) <= Len(s)
        /\ \A m \in 1..Len(g[i + 1]) : s[o + m] = g[i + 1][m]
    <2>1. Follows(s, n, g, i, o)
      BY <1>2, Zenon
    <2> QED
      BY <2>1, MoreFollows
  <1>4. o + Len(g[i + 1]) = z /\ \A m \in 1..z : o + m = m
    BY <1>1, <1>2
  <1>5. Follows(s, n, g, i + 1, z) /\ z <= Len(s) /\ \A m \in 1..z : s[m] = g[i + 1][m]
    BY <1>1, <1>3, <1>4, Zenon
  <1>6. Follows(t, n, g, i + 1, z - d)
    BY <1>5, LessFollows, Zenon
  <1> QED
    BY <1>1, <1>5, <1>6, Zenon DEF Starts

(* s begins with the last r elements of f.                                 *)
BeginsAs(s, f, r) == \A j \in 1..r : j <= Len(s) => s[j] = f[(Len(f) - r) + j]

(* What comes before g[i + 1] is the end of g[i].                          *)
LEMMA RestFollows ==
  ASSUME NEW s, NEW n \in Nat, NEW g, Sized(n, g), NEW i \in 0..n, NEW r \in Nat,
         Follows(s, n, g, i, r), i > 0, r <= Len(g[i]), Len(s) \in Nat
  PROVE  BeginsAs(s, g[i], r)
  <1> SUFFICES ASSUME NEW j \in 1..r, j <= Len(s) PROVE s[j] = g[i][(Len(g[i]) - r) + j]
    BY Zenon DEF BeginsAs
  <1>1. PICK at, b : /\ b \in Int /\ Laid(n, g, at) /\ Reads(s, n, g, at, b)
                     /\ at[i + 1] = b + r + 1
    BY Zenon DEF Follows
  <1>2. i \in 1..n /\ r <= Len(g[i])
    OBVIOUS
  <1>3. PICK z \in Nat : z = Len(g[i])
    BY <1>2, Zenon DEF Sized
  <1>4. PICK x \in Int : x = at[i]
    BY <1>1, <1>2 DEF Laid
  <1>5. at[i + 1] = x + z
    BY <1>1, <1>2, <1>3, <1>4, Zenon DEF Laid
  <1>6. (b + j) + 1 = x + ((z - r) + j) /\ (z - r) + j \in 1..z
    <2>1. x + z = b + r + 1 /\ b \in Int /\ r <= z
      BY <1>1, <1>2, <1>3, <1>5, Zenon
    <2> QED
      BY <2>1
  <1>7. Unit(n, g, at, b + j, s[j])
    BY <1>1 DEF Reads
  <1> QED
    BY <1>2, <1>3, <1>4, <1>6, <1>7, Zenon DEF Unit

(* t is s and then f.                                                      *)
Joined(s, f, t) ==
  /\ Len(t) = Len(s) + Len(f)
  /\ \A j \in 1..Len(s) : t[j] = s[j]
  /\ \A j \in 1..Len(f) : t[Len(s) + j] = f[j]

(* h is g and one more.                                                    *)
OneMore(n, g, h) ==
  /\ \A k \in 1..n : h[k] = g[k] /\ Len(g[k]) \in Nat
  /\ Len(h[n + 1]) \in Nat

LEMMA LaidMore ==
  ASSUME NEW n \in Nat, NEW g, NEW h, OneMore(n, g, h), NEW at, Laid(n, g, at)
  PROVE  \E to : /\ Laid(n + 1, h, to)
                 /\ \A k \in 1..(n + 1) : to[k] = at[k]
                 /\ to[(n + 1) + 1] = at[n + 1] + Len(h[n + 1])
  <1>a. \A k \in 1..n : h[k] = g[k] /\ Len(g[k]) \in Nat
    BY Zenon DEF OneMore
  <1>0. PICK z \in Nat : z = Len(h[n + 1])
    BY Zenon DEF OneMore
  <1> DEFINE to == [k \in 1..((n + 1) + 1) |-> IF k = (n + 1) + 1 THEN at[n + 1] + z ELSE at[k]]
  <1>1. /\ \A k \in 1..(n + 1) : at[k] \in Int
        /\ \A k \in 1..n : at[k + 1] = at[k] + Len(g[k])
        /\ \A k \in 1..n, l \in 1..(n + 1) : k < l => at[k] + Len(g[k]) <= at[l]
    BY Zenon DEF Laid
  <1>2. at[n + 1] \in Int
    BY <1>1
  <1>3. to \in [1..((n + 1) + 1) -> Int]
    BY <1>1, <1>2
  <1>4. to[(n + 1) + 1] = at[n + 1] + z /\ \A k \in 1..(n + 1) : to[k] = at[k]
    OBVIOUS
  <1> HIDE DEF to
  <1>5. ASSUME NEW k \in 1..(n + 1) PROVE to[k + 1] = to[k] + Len(h[k])
    <2>1. CASE k = n + 1
      BY <1>0, <1>4, <2>1, Zenon
    <2>2. CASE k # n + 1
      <3>1. k \in 1..n /\ k + 1 \in 1..(n + 1) /\ h[k] = g[k]
        BY <1>a, <2>2
      <3> QED
        BY <1>1, <1>4, <3>1, Zenon
    <2> QED
      BY <2>1, <2>2, Zenon
  <1>6. ASSUME NEW k \in 1..(n + 1), NEW l \in 1..((n + 1) + 1), k < l
        PROVE  to[k] + Len(h[k]) <= to[l]
    <2>1. CASE k = n + 1
      <3>1. l = (n + 1) + 1
        BY <1>6, <2>1
      <3> QED
        BY <1>0, <1>2, <1>4, <2>1, <3>1
    <2>2. CASE k # n + 1 /\ l # (n + 1) + 1
      <3>1. k \in 1..n /\ l \in 1..(n + 1) /\ h[k] = g[k]
        BY <1>a, <2>2
      <3> QED
        BY <1>1, <1>4, <1>6, <3>1, Zenon
    <2>3. CASE k # n + 1 /\ l = (n + 1) + 1
      <3>1. k \in 1..n /\ h[k] = g[k] /\ n + 1 \in 1..(n + 1) /\ k < n + 1 /\ k \in 1..(n + 1)
        BY <1>a, <2>3
      <3>2. PICK x \in Int, y \in Nat : x = at[k] /\ y = Len(g[k])
        BY <1>1, <1>a, <3>1, Zenon
      <3>3. x + y <= at[n + 1]
        BY <1>1, <3>1, <3>2, Zenon
      <3>4. to[k] = x /\ to[l] = at[n + 1] + z /\ Len(h[k]) = y
        BY <1>4, <2>3, <3>1, <3>2, Zenon
      <3> QED
        BY <1>2, <3>3, <3>4
    <2> QED
      BY <2>1, <2>2, <2>3, Zenon
  <1>7. Laid(n + 1, h, to)
    BY <1>3, <1>5, <1>6, Zenon DEF Laid
  <1> QED
    BY <1>0, <1>4, <1>7, Zenon

LEMMA UnitBefore ==
  ASSUME NEW n \in Nat, NEW g, NEW h, NEW at, NEW to, NEW p \in Int, NEW u,
         Unit(n, g, at, p, u),
         \A k \in 1..n : h[k] = g[k] /\ to[k] = at[k],
         to[n + 1] \in Int, p < to[n + 1]
  PROVE  Unit(n + 1, h, to, p, u)
  <1> SUFFICES ASSUME NEW k \in 1..(n + 1), NEW m \in 1..Len(h[k]), p + 1 = to[k] + m
               PROVE  u = h[k][m]
    BY Zenon DEF Unit
  <1>1. CASE k = n + 1
    BY <1>1
  <1>2. CASE k # n + 1
    <2>1. k \in 1..n /\ h[k] = g[k] /\ to[k] = at[k]
      BY <1>2
    <2> QED
      BY <2>1, Zenon DEF Unit
  <1> QED
    BY <1>1, <1>2, Zenon

LEMMA UnitAfter ==
  ASSUME NEW n \in Nat, NEW h, NEW to, Laid(n + 1, h, to),
         \A k \in 1..(n + 1) : Len(h[k]) \in Nat,
         NEW j \in 1..Len(h[n + 1]), NEW p \in Int, p + 1 = to[n + 1] + j
  PROVE  Unit(n + 1, h, to, p, h[n + 1][j])
  <1> SUFFICES ASSUME NEW k \in 1..(n + 1), NEW m \in 1..Len(h[k]), p + 1 = to[k] + m
               PROVE  h[n + 1][j] = h[k][m]
    BY Zenon DEF Unit
  <1>1. to[n + 1] \in Int /\ to[k] \in Int /\ Len(h[k]) \in Nat /\ Len(h[n + 1]) \in Nat
    BY DEF Laid
  <1>2. CASE k = n + 1
    <2>1. m = j
      BY <1>1, <1>2
    <2> QED
      BY <1>2, <2>1, Zenon
  <1>3. CASE k # n + 1
    <2>1. k < n + 1 /\ n + 1 \in 1..((n + 1) + 1)
      BY <1>3
    <2>2. to[k] + Len(h[k]) <= to[n + 1]
      BY <2>1, Zenon DEF Laid
    <2> QED
      BY <1>1, <2>2, SMTT(30)
  <1> QED
    BY <1>2, <1>3, Zenon

(* There is one more at the end.                                           *)
LEMMA OneMoreFollows ==
  ASSUME NEW s, NEW n \in Nat, NEW g, NEW h,
         OneMore(n, g, h), NEW i \in 0..n, NEW r \in Nat, Follows(s, n, g, i, r), Len(s) \in Nat,
         NEW t, Joined(s, h[n + 1], t)
  PROVE  Follows(t, n + 1, h, i, r)
  <1>1. PICK at, b : /\ b \in Int /\ Laid(n, g, at) /\ Reads(s, n, g, at, b)
                     /\ at[i + 1] = b + r + 1
    BY Zenon DEF Follows
  <1>2. PICK to : /\ Laid(n + 1, h, to)
                  /\ \A k \in 1..(n + 1) : to[k] = at[k]
                  /\ to[(n + 1) + 1] = at[n + 1] + Len(h[n + 1])
    BY <1>1, LaidMore
  <1>3. at[n + 1] = b + Len(s) + 1 /\ to[n + 1] = at[n + 1]
    BY <1>1, <1>2 DEF Reads
  <1>a. (\A k \in 1..n : h[k] = g[k]) /\ \A k \in 1..(n + 1) : Len(h[k]) \in Nat
    BY DEF OneMore
  <1>4. PICK f : f = h[n + 1]
    BY Zenon
  <1>5. PICK z \in Nat : z = Len(f)
    BY <1>4, <1>a
  <1>6. Len(t) = Len(s) + z /\ Len(t) \in Nat
    BY <1>4, <1>5 DEF Joined
  <1>7. to[(n + 1) + 1] = b + Len(t) + 1
    <2>1. to[(n + 1) + 1] = (b + Len(s) + 1) + z
      BY <1>2, <1>3, <1>4, <1>5, Zenon
    <2> QED
      BY <1>1, <1>6, <2>1
  <1>8. ASSUME NEW j \in 1..Len(t) PROVE Unit(n + 1, h, to, b + j, t[j])
    <2>1. CASE j <= Len(s)
      <3>1. j \in 1..Len(s) /\ t[j] = s[j] /\ Unit(n, g, at, b + j, s[j])
        <4>1. j \in 1..Len(s)
          BY <1>6, <2>1
        <4>2. t[j] = s[j]
          BY <4>1, Zenon DEF Joined
        <4>3. Unit(n, g, at, b + j, s[j])
          BY <1>1, <4>1, Zenon DEF Reads
        <4> QED
          BY <4>1, <4>2, <4>3, Zenon
      <3>2. b + j \in Int /\ to[n + 1] \in Int /\ b + j < to[n + 1]
        BY <1>1, <1>3, <2>1
      <3>3. \A k \in 1..n : h[k] = g[k] /\ to[k] = at[k]
        BY <1>2, <1>a
      <3>4. Unit(n + 1, h, to, b + j, s[j])
        <4>1. PICK p, u : p = b + j /\ u = s[j]
          BY Zenon
        <4>2. p \in Int /\ Unit(n, g, at, p, u) /\ p < to[n + 1]
          BY <3>1, <3>2, <4>1, Zenon
        <4>3. Unit(n + 1, h, to, p, u)
          BY <3>2, <3>3, <4>2, UnitBefore, Zenon
        <4> QED
          BY <4>1, <4>3, Zenon
      <3> QED
        BY <3>1, <3>4, Zenon
    <2>2. CASE j > Len(s)
      <3>1. PICK m \in 1..z : j = Len(s) + m
        <4>1. j - Len(s) \in 1..z /\ j = Len(s) + (j - Len(s))
          BY <1>6, <2>2
        <4> QED
          BY <4>1, Zenon
      <3>2. t[j] = h[n + 1][m]
        BY <1>4, <1>5, <3>1, Zenon DEF Joined
      <3>3. b + j \in Int /\ (b + j) + 1 = to[n + 1] + m
        BY <1>1, <1>3, <3>1
      <3>4. \A k \in 1..(n + 1) : Len(h[k]) \in Nat
        BY <1>a, Zenon
      <3>5. Unit(n + 1, h, to, b + j, h[n + 1][m])
        BY <1>2, <1>4, <1>5, <3>3, <3>4, UnitAfter, Zenon
      <3> QED
        BY <3>2, <3>5, Zenon
    <2> QED
      BY <2>1, <2>2
  <1>9. Reads(t, n + 1, h, to, b)
    BY <1>7, <1>8, Zenon DEF Reads
  <1>10. to[i + 1] = b + r + 1
    BY <1>1, <1>2
  <1> QED
    BY <1>1, <1>2, <1>9, <1>10, Zenon DEF Follows

-----------------------------------------------------------------------------
(* Steps that leave the streams alone.                                     *)

(* f is the frame of request i, with a payload of m units.                 *)
Framed(f, i, m) ==
  /\ Len(f) = 2 + m
  /\ f[1] = Part("h1", i) /\ f[2] = Part("h2", i)
  /\ \A j \in 3..Len(f) : f[j] = Part("data", i)

LEMMA Concatenated ==
  ASSUME NEW S, NEW a \in Seq(S), NEW b \in Seq(S)
  PROVE  /\ a \o b \in Seq(S) /\ Len(a \o b) = Len(a) + Len(b)
         /\ \A j \in 1..Len(a) : (a \o b)[j] = a[j]
         /\ \A j \in 1..Len(b) : (a \o b)[Len(a) + j] = b[j]
  OBVIOUS

LEMMA FrameIs ==
  ASSUME NEW kind \in Kinds, NEW i \in Nat
  PROVE  Frame(kind, i) \in Seq(Units) /\ Framed(Frame(kind, i), i, PayloadOf(kind))
  <1> DEFINE m == IF kind.cmd = "WRITE" THEN kind.n ELSE 0
             h == <<Part("h1", i), Part("h2", i)>>
             d == [j \in 1..m |-> Part("data", i)]
  <1>1. m \in Nat /\ m = PayloadOf(kind)
    BY ConnectionAssumption, Zenon DEF Kind, PayloadOf
  <1>2. Frame(kind, i) = h \o d
    BY Zenon DEF Frame
  <1> HIDE DEF m
  <1>3. Part("h1", i) \in Units /\ Part("h2", i) \in Units /\ Part("data", i) \in Units
    BY Zenon DEF Part, Units
  <1>4. h \in Seq(Units) /\ Len(h) = 2 /\ h[1] = Part("h1", i) /\ h[2] = Part("h2", i)
    BY <1>3
  <1>5. d \in Seq(Units) /\ Len(d) = m /\ \A j \in 1..m : d[j] = Part("data", i)
    BY <1>1, <1>3
  <1> HIDE DEF h, d
  <1>c. /\ h \o d \in Seq(Units) /\ Len(h \o d) = Len(h) + Len(d)
        /\ \A j \in 1..Len(h) : (h \o d)[j] = h[j]
        /\ \A j \in 1..Len(d) : (h \o d)[Len(h) + j] = d[j]
    <2>1. h \in Seq(Units) /\ d \in Seq(Units)
      BY <1>4, <1>5, Zenon
    <2> QED
      BY <2>1, Concatenated
  <1>6. h \o d \in Seq(Units) /\ Len(h \o d) = 2 + m
    BY <1>c, <1>4, <1>5, Zenon
  <1>7. (h \o d)[1] = h[1] /\ (h \o d)[2] = h[2]
    <2>1. 1 \in 1..Len(h) /\ 2 \in 1..Len(h)
      BY <1>4
    <2> QED
      BY <1>c, <2>1, Zenon
  <1>8. ASSUME NEW j \in 3..(2 + m) PROVE (h \o d)[j] = Part("data", i)
    <2>0. j - 2 \in 1..m /\ j = 2 + (j - 2)
      BY <1>1
    <2>1. (h \o d)[j] = d[j - 2] /\ j - 2 \in 1..m
      <3>1. PICK x \in 1..m : x = j - 2 /\ j = 2 + x
        BY <2>0, Zenon
      <3>2. Len(h) = 2 /\ Len(d) = m
        BY <1>4, <1>5, Zenon
      <3>3. (h \o d)[2 + x] = d[x]
        BY <1>c, <3>2, Zenon
      <3> QED
        BY <3>1, <3>3, Zenon
    <2> QED
      BY <1>5, <2>1, Zenon
  <1> QED
    BY <1>1, <1>2, <1>4, <1>6, <1>7, <1>8, Zenon DEF Framed

LEMMA KindOf ==
  ASSUME Typed, NEW i \in 1..Len(sent)
  PROVE  of(i) \in Kinds /\ of(i) \in Kind
  BY ConnectionAssumption DEF Typed, of

LEMMA FrameOf ==
  ASSUME Typed, NEW i \in 1..Len(sent)
  PROVE  Pay(i) \in Nat /\ Framed(Frames[i], i, Pay(i)) /\ Len(Frames[i]) = 2 + Pay(i)
  <1>1. i \in Nat /\ of(i) \in Kinds /\ of(i) \in Kind
    BY KindOf DEF Typed
  <1>2. Frames[i] = Frame(of(i), i)
    BY Zenon DEF Frames
  <1>3. Framed(Frames[i], i, Pay(i))
    BY <1>1, <1>2, FrameIs, Zenon DEF Pay
  <1> QED
    BY <1>1, <1>3, Zenon DEF Framed, Pay, PayloadOf, Kind

LEMMA FramesSized == ASSUME Typed PROVE Sized(Len(sent), Frames) /\ Len(sent) \in Nat
  <1>1. ASSUME NEW i \in 1..Len(sent) PROVE Len(Frames[i]) \in Nat
    BY FrameOf
  <1>2. Len(sent) \in Nat
    BY DEF Typed
  <1> QED
    BY <1>1, <1>2, Zenon DEF Sized

(* The streams, the requests and the header are as they were.              *)
Untouched == UNCHANGED <<wire, pushing, sent, head>>

LEMMA StillAligned ==
  ASSUME Aligned, Untouched, ~Over' => ~Over /\ Rem' = Rem
  PROVE  Aligned'
  BY Zenon DEF Aligned, Untouched, Stream, Frames, of, Within, Pay

(* The counters of a connection are numbers.                               *)
LEMMA Counters ==
  ASSUME Typed
  PROVE  nreq \in Nat /\ Len(taken) \in Nat /\ Len(replies) \in Nat /\ Len(sent) \in Nat
  <1>1. reqs \in Seq(Nat) /\ taken \in Seq(Nat) /\ sent \in Seq(Kinds)
    BY Zenon DEF Typed
  <1>2. PICK S : replies \in Seq(S)
    BY Zenon DEF Typed
  <1> QED
    BY <1>1, <1>2 DEF nreq

(* The header read last is of a request sent.                              *)
LEMMA HeadSent ==
  ASSUME ConnInv, head > 0
  PROVE  head \in 1..Len(sent)
  <1>1. head \in 0..Len(sent) /\ Len(sent) \in Nat
    BY Counters, Zenon DEF ConnInv, Typed
  <1> QED
    BY <1>1

LEMMA K_Hangup ==
  ASSUME ConnInv, Hangup
  PROVE  ConnInv'
  <1>1. Typed'
    BY ConnectionAssumption, Zenon
    DEF ConnInv, Typed, Counted, Labels, Errors, nreq, of, Kind, Hangup, vars, client, batch, one
  <1>2. Untouched /\ (~Over' => ~Over /\ Rem' = Rem)
    BY SMTT(30)
   
    DEF ConnInv, Typed, Counted, Labels, Over, Rem, Pay, of, Untouched, Hangup, vars, client,
        batch, one
  <1>3. Aligned'
    BY <1>2, StillAligned, Zenon DEF ConnInv
  <1>4. Counted'
    BY ConnectionAssumption, Zenon
    DEF ConnInv, Typed, Counted, Labels, Over, of, Hangup, vars, client, batch, one
  <1>5. Batched'
    BY ConnectionAssumption, Zenon
    DEF ConnInv, Typed, Counted, Batched, Gathering, Labels, Over, nreq, of, Outcomes, Hangup,
        vars, client, batch, one
  <1>6. Fits'
    BY ConnectionAssumption, Zenon
    DEF ConnInv, Typed, Batched, Fits, WithinStaging, Room, maxops, copy_cap, Larger, Smaller,
        nreq, of, Batchable, Kind, Hangup, vars, client, batch, one
  <1>7. RepliesFramed'
    BY ConnectionAssumption, Zenon
    DEF ConnInv, Typed, Counted, Batched, RepliesFramed, Carries, Outcomes, nreq, of, Hangup, vars,
        client, batch, one
  <1> QED
    BY <1>1, <1>3, <1>4, <1>5, <1>6, <1>7, Zenon DEF ConnInv

LEMMA K_Stop ==
  ASSUME ConnInv, Stop
  PROVE  ConnInv'
  <1>1. Typed'
    BY ConnectionAssumption, Zenon
    DEF ConnInv, Typed, Counted, Labels, Errors, nreq, of, Kind, Stop, vars, client, batch, one
  <1>2. Untouched /\ (~Over' => ~Over /\ Rem' = Rem)
    BY SMTT(30)
   
    DEF ConnInv, Typed, Counted, Labels, Over, Rem, Pay, of, Untouched, Stop, vars, client, batch,
        one
  <1>3. Aligned'
    BY <1>2, StillAligned, Zenon DEF ConnInv
  <1>4. Counted'
    BY ConnectionAssumption, Zenon
    DEF ConnInv, Typed, Counted, Labels, Over, of, Stop, vars, client, batch, one
  <1>5. Batched'
    BY ConnectionAssumption, Zenon
    DEF ConnInv, Typed, Counted, Batched, Gathering, Labels, Over, nreq, of, Outcomes, Stop, vars,
        client, batch, one
  <1>6. Fits'
    BY ConnectionAssumption, Zenon
    DEF ConnInv, Typed, Batched, Fits, WithinStaging, Room, maxops, copy_cap, Larger, Smaller,
        nreq, of, Batchable, Kind, Stop, vars, client, batch, one
  <1>7. RepliesFramed'
    BY ConnectionAssumption, Zenon
    DEF ConnInv, Typed, Counted, Batched, RepliesFramed, Carries, Outcomes, nreq, of, Stop, vars,
        client, batch, one
  <1> QED
    BY <1>1, <1>3, <1>4, <1>5, <1>6, <1>7, Zenon DEF ConnInv

LEMMA K_Top ==
  ASSUME ConnInv, Top
  PROVE  ConnInv'
  <1>1. Typed'
    BY ConnectionAssumption, Zenon
    DEF ConnInv, Typed, Counted, Labels, Errors, nreq, of, Kind, Top, Goto, vars, client, batch, one
  <1>2. Untouched /\ (~Over' => ~Over /\ Rem' = Rem)
    BY SMTT(30)
   
    DEF ConnInv, Typed, Counted, Labels, Over, Rem, Pay, of, Untouched, Top, Goto, vars, client,
        batch, one
  <1>3. Aligned'
    BY <1>2, StillAligned, Zenon DEF ConnInv
  <1>4. Counted'
    BY ConnectionAssumption, Zenon
    DEF ConnInv, Typed, Counted, Labels, Over, of, Top, Goto, vars, client, batch, one
  <1>5. Batched'
    BY ConnectionAssumption, Zenon
    DEF ConnInv, Typed, Counted, Batched, Gathering, Labels, Over, nreq, of, Outcomes, Top, Goto,
        vars, client, batch, one
  <1>6. Fits'
    BY ConnectionAssumption, Zenon
    DEF ConnInv, Typed, Batched, Fits, WithinStaging, Room, maxops, copy_cap, Larger, Smaller,
        nreq, of, Batchable, Kind, Top, Goto, vars, client, batch, one
  <1>7. RepliesFramed'
    BY ConnectionAssumption, Zenon
    DEF ConnInv, Typed, Counted, Batched, RepliesFramed, Carries, Outcomes, nreq, of, Top, Goto,
        vars, client, batch, one
  <1> QED
    BY <1>1, <1>3, <1>4, <1>5, <1>6, <1>7, Zenon DEF ConnInv

LEMMA K_LoseFirst ==
  ASSUME ConnInv, Lose("first", 2)
  PROVE  ConnInv'
  <1>1. Typed'
    BY ConnectionAssumption, Zenon
    DEF ConnInv, Typed, Counted, Labels, Errors, nreq, of, Kind, Lose, Goto, vars, client, batch,
        one
  <1>2. Untouched /\ (~Over' => ~Over /\ Rem' = Rem)
    BY SMTT(30)
   
    DEF ConnInv, Typed, Counted, Labels, Over, Rem, Pay, of, Untouched, Lose, Goto, vars, client,
        batch, one
  <1>3. Aligned'
    BY <1>2, StillAligned, Zenon DEF ConnInv
  <1>4. Counted'
    BY ConnectionAssumption, Zenon
    DEF ConnInv, Typed, Counted, Labels, Over, of, Lose, Goto, vars, client, batch, one
  <1>5. Batched'
    BY ConnectionAssumption, Zenon
    DEF ConnInv, Typed, Counted, Batched, Gathering, Labels, Over, nreq, of, Outcomes, Lose, Goto,
        vars, client, batch, one
  <1>6. Fits'
    BY ConnectionAssumption, Zenon
    DEF ConnInv, Typed, Batched, Fits, WithinStaging, Room, maxops, copy_cap, Larger, Smaller,
        nreq, of, Batchable, Kind, Lose, Goto, vars, client, batch, one
  <1>7. RepliesFramed'
    BY ConnectionAssumption, Zenon
    DEF ConnInv, Typed, Counted, Batched, RepliesFramed, Carries, Outcomes, nreq, of, Lose, Goto,
        vars, client, batch, one
  <1> QED
    BY <1>1, <1>3, <1>4, <1>5, <1>6, <1>7, Zenon DEF ConnInv

LEMMA K_LosePayload ==
  ASSUME ConnInv, Lose("payload", PayloadOf(of(head)))
  PROVE  ConnInv'
  <1>1. Typed'
    BY ConnectionAssumption, Zenon
    DEF ConnInv, Typed, Counted, Labels, Errors, nreq, of, Kind, Lose, Goto, vars, client, batch,
        one
  <1>2. Untouched /\ (~Over' => ~Over /\ Rem' = Rem)
    BY SMTT(30)
   
    DEF ConnInv, Typed, Counted, Labels, Over, Rem, Pay, of, Untouched, Lose, Goto, vars, client,
        batch, one
  <1>3. Aligned'
    BY <1>2, StillAligned, Zenon DEF ConnInv
  <1>4. Counted'
    BY ConnectionAssumption, Zenon
    DEF ConnInv, Typed, Counted, Labels, Over, of, Lose, Goto, vars, client, batch, one
  <1>5. Batched'
    BY ConnectionAssumption, Zenon
    DEF ConnInv, Typed, Counted, Batched, Gathering, Labels, Over, nreq, of, Outcomes, Lose, Goto,
        vars, client, batch, one
  <1>6. Fits'
    BY ConnectionAssumption, Zenon
    DEF ConnInv, Typed, Batched, Fits, WithinStaging, Room, maxops, copy_cap, Larger, Smaller,
        nreq, of, Batchable, Kind, Lose, Goto, vars, client, batch, one
  <1>7. RepliesFramed'
    BY ConnectionAssumption, Zenon
    DEF ConnInv, Typed, Counted, Batched, RepliesFramed, Carries, Outcomes, nreq, of, Lose, Goto,
        vars, client, batch, one
  <1> QED
    BY <1>1, <1>3, <1>4, <1>5, <1>6, <1>7, Zenon DEF ConnInv

LEMMA K_LoseMore ==
  ASSUME ConnInv, Lose("more", 2)
  PROVE  ConnInv'
  <1>1. Typed'
    BY ConnectionAssumption, Zenon
    DEF ConnInv, Typed, Counted, Labels, Errors, nreq, of, Kind, Lose, Goto, vars, client, batch,
        one
  <1>2. Untouched /\ (~Over' => ~Over /\ Rem' = Rem)
    BY SMTT(30)
   
    DEF ConnInv, Typed, Counted, Labels, Over, Rem, Pay, of, Untouched, Lose, Goto, vars, client,
        batch, one
  <1>3. Aligned'
    BY <1>2, StillAligned, Zenon DEF ConnInv
  <1>4. Counted'
    BY ConnectionAssumption, Zenon
    DEF ConnInv, Typed, Counted, Labels, Over, of, Lose, Goto, vars, client, batch, one
  <1>5. Batched'
    BY ConnectionAssumption, Zenon
    DEF ConnInv, Typed, Counted, Batched, Gathering, Labels, Over, nreq, of, Outcomes, Lose, Goto,
        vars, client, batch, one
  <1>6. Fits'
    BY ConnectionAssumption, Zenon
    DEF ConnInv, Typed, Batched, Fits, WithinStaging, Room, maxops, copy_cap, Larger, Smaller,
        nreq, of, Batchable, Kind, Lose, Goto, vars, client, batch, one
  <1>7. RepliesFramed'
    BY ConnectionAssumption, Zenon
    DEF ConnInv, Typed, Counted, Batched, RepliesFramed, Carries, Outcomes, nreq, of, Lose, Goto,
        vars, client, batch, one
  <1> QED
    BY <1>1, <1>3, <1>4, <1>5, <1>6, <1>7, Zenon DEF ConnInv

LEMMA K_LoseOne ==
  ASSUME ConnInv, Lose("one", Chunk)
  PROVE  ConnInv'
  <1>1. Typed'
    BY ConnectionAssumption, Zenon
    DEF ConnInv, Typed, Counted, Labels, Errors, nreq, of, Kind, Lose, Goto, vars, client, batch,
        one
  <1>2. Untouched /\ (~Over' => ~Over /\ Rem' = Rem)
    BY SMTT(30)
   
    DEF ConnInv, Typed, Counted, Labels, Over, Rem, Pay, of, Untouched, Lose, Goto, vars, client,
        batch, one
  <1>3. Aligned'
    BY <1>2, StillAligned, Zenon DEF ConnInv
  <1>4. Counted'
    BY ConnectionAssumption, Zenon
    DEF ConnInv, Typed, Counted, Labels, Over, of, Lose, Goto, vars, client, batch, one
  <1>5. Batched'
    BY ConnectionAssumption, Zenon
    DEF ConnInv, Typed, Counted, Batched, Gathering, Labels, Over, nreq, of, Outcomes, Lose, Goto,
        vars, client, batch, one
  <1>6. Fits'
    BY ConnectionAssumption, Zenon
    DEF ConnInv, Typed, Batched, Fits, WithinStaging, Room, maxops, copy_cap, Larger, Smaller,
        nreq, of, Batchable, Kind, Lose, Goto, vars, client, batch, one
  <1>7. RepliesFramed'
    BY ConnectionAssumption, Zenon
    DEF ConnInv, Typed, Counted, Batched, RepliesFramed, Carries, Outcomes, nreq, of, Lose, Goto,
        vars, client, batch, one
  <1> QED
    BY <1>1, <1>3, <1>4, <1>5, <1>6, <1>7, Zenon DEF ConnInv

LEMMA K_Gather ==
  ASSUME ConnInv, Gather
  PROVE  ConnInv'
  <1>1. Typed'
    BY ConnectionAssumption, Zenon
    DEF ConnInv, Typed, Counted, Labels, Errors, nreq, of, Kind, Gather, Goto, vars, client, batch,
        one
  <1>2. Untouched /\ (~Over' => ~Over /\ Rem' = Rem)
    BY SMTT(30)
   
    DEF ConnInv, Typed, Counted, Labels, Over, Rem, Pay, of, Untouched, Gather, Goto, vars, client,
        batch, one
  <1>3. Aligned'
    BY <1>2, StillAligned, Zenon DEF ConnInv
  <1>4. Counted'
    BY ConnectionAssumption, Zenon
    DEF ConnInv, Typed, Counted, Labels, Over, of, Gather, Goto, vars, client, batch, one
  <1>5. Batched'
    BY ConnectionAssumption, Zenon
    DEF ConnInv, Typed, Counted, Batched, Gathering, Labels, Over, nreq, of, Outcomes, Gather,
        Goto, vars, client, batch, one
  <1>6. Fits'
    BY ConnectionAssumption, Zenon
    DEF ConnInv, Typed, Batched, Fits, WithinStaging, Room, maxops, copy_cap, Larger, Smaller,
        nreq, of, Batchable, Kind, Gather, Goto, vars, client, batch, one
  <1>7. RepliesFramed'
    BY ConnectionAssumption, Zenon
    DEF ConnInv, Typed, Counted, Batched, RepliesFramed, Carries, Outcomes, nreq, of, Gather, Goto,
        vars, client, batch, one
  <1> QED
    BY <1>1, <1>3, <1>4, <1>5, <1>6, <1>7, Zenon DEF ConnInv

LEMMA Appended ==
  ASSUME NEW S, NEW q \in Seq(S), NEW e \in S, NEW p, p = Append(q, e)
  PROVE  /\ p \in Seq(S) /\ Len(p) = Len(q) + 1 /\ DOMAIN p = 1..(Len(q) + 1)
         /\ \A i \in 1..Len(q) : p[i] = q[i]
         /\ p[Len(q) + 1] = e
  OBVIOUS

LEMMA Sizes ==
  /\ maxops \in Nat /\ copy_cap \in Int /\ BATCH_BLOCKS \in Nat /\ Depth \in Nat /\ Depth > 0
  /\ BATCH_BLOCKS <= maxops /\ copy_cap <= maxops - BATCH_BLOCKS
  <1>1. /\ BATCH_BLOCKS \in Nat /\ WINDOW \in Nat /\ Depth \in Nat /\ BATCH_BLOCKS <= WINDOW
        /\ MAX_BATCH_COPIES \in Nat /\ Depth > 0
    BY ConnectionAssumption
  <1>2. PICK m \in Nat : m = Depth * BATCH_BLOCKS
    BY <1>1
  <1>3. maxops \in Nat /\ BATCH_BLOCKS <= maxops
    BY <1>1, <1>2 DEF maxops, Larger
  <1> QED
    BY <1>1, <1>3 DEF copy_cap, Smaller

(* The next request is in the batch.                                       *)
Admitted ==
  /\ reqs' \in Seq(Nat) /\ errs' \in Seq(Errors) /\ nops' \in Nat /\ taken' \in Seq(Nat)
  /\ Len(taken') = Len(taken) + 1 /\ \A i \in DOMAIN taken' : taken'[i] = i
  /\ nreq' = nreq + 1 /\ Len(errs') = nreq' /\ nreq' <= Len(taken')
  /\ \A i \in DOMAIN reqs' : reqs'[i] = Len(taken') - nreq' + i
  /\ nops' <= nops + BATCH_BLOCKS

LEMMA AdmitAdmits ==
  ASSUME ConnInv, Admit, head = Len(taken) + 1, Batchable(of(head))
  PROVE  Admitted
  <1>1. head \in Nat /\ head \in 1..Len(sent) /\ Len(taken) \in Nat /\ Len(reqs) \in Nat
    BY DEF ConnInv, Typed
  <1>2. of(head).n \in Nat /\ of(head).n <= BATCH_BLOCKS /\ of(head).oob \in BOOLEAN
    BY <1>1, KindOf, Zenon DEF ConnInv, Kind, Batchable
  <1>3. /\ taken' \in Seq(Nat) /\ Len(taken') = Len(taken) + 1 /\ DOMAIN taken' = 1..(Len(taken) + 1)
        /\ \A i \in 1..Len(taken) : taken'[i] = taken[i]
        /\ taken'[Len(taken) + 1] = head
    BY <1>1, Appended DEF ConnInv, Typed, Admit
  <1>4. /\ reqs' \in Seq(Nat) /\ Len(reqs') = Len(reqs) + 1 /\ DOMAIN reqs' = 1..(Len(reqs) + 1)
        /\ \A i \in 1..Len(reqs) : reqs'[i] = reqs[i]
        /\ reqs'[Len(reqs) + 1] = head
    BY <1>1, Appended DEF ConnInv, Typed, Admit
  <1>5. errs' \in Seq(Errors) /\ Len(errs') = Len(errs) + 1
    BY Appended DEF ConnInv, Typed, Admit, Errors
  <1>6. nops' \in Nat /\ nops' <= nops + BATCH_BLOCKS
    <2>1. nops \in Nat /\ BATCH_BLOCKS \in Nat
      BY Sizes, Zenon DEF ConnInv, Typed
    <2>2. nops' = nops + (IF of(head).oob THEN 0 ELSE of(head).n)
      BY Zenon DEF Admit
    <2> QED
      BY <1>2, <2>1, <2>2
  <1>7. \A i \in DOMAIN taken' : taken'[i] = i
    <2>1. DOMAIN taken = 1..Len(taken)
      BY DEF ConnInv, Typed
    <2>2. \A i \in 1..Len(taken) : taken[i] = i
      BY <2>1, Zenon DEF ConnInv, Counted
    <2> QED
      BY <1>1, <1>3, <2>2
  <1>8. nreq' = nreq + 1 /\ Len(errs') = nreq' /\ nreq' <= Len(taken')
    BY <1>1, <1>3, <1>4, <1>5 DEF ConnInv, Batched, nreq
  <1>9. \A i \in DOMAIN reqs' : reqs'[i] = Len(taken') - nreq' + i
    <2>1. \A i \in 1..Len(reqs) : reqs[i] = Len(taken) - Len(reqs) + i
      <3>1. DOMAIN reqs = 1..Len(reqs)
        BY DEF ConnInv, Typed
      <3> QED
        BY <3>1, Zenon DEF ConnInv, Batched, nreq
    <2>2. Len(taken') - nreq' = Len(taken) - Len(reqs)
      BY <1>1, <1>3, <1>8 DEF nreq
    <2>3. ASSUME NEW i \in 1..(Len(reqs) + 1) PROVE reqs'[i] = Len(taken) - Len(reqs) + i
      <3>1. CASE i \in 1..Len(reqs)
        BY <1>4, <2>1, <3>1, Zenon
      <3>2. CASE i = Len(reqs) + 1
        BY <1>1, <1>4, <3>2
      <3> QED
        BY <1>1, <3>1, <3>2
    <2>4. nreq' \in Nat /\ Len(taken') \in Nat
      BY <1>1, <1>3, <1>8 DEF nreq
    <2> QED
      BY <1>1, <1>4, <2>2, <2>3, <2>4, Zenon
  <1> QED
    BY <1>3, <1>4, <1>5, <1>6, <1>7, <1>8, <1>9, Zenon DEF Admitted

LEMMA OneTaken ==
  ASSUME ConnInv, taken' = Append(taken, head), head = Len(taken) + 1
  PROVE  /\ taken' \in Seq(Nat) /\ Len(taken') = Len(taken) + 1
         /\ \A i \in DOMAIN taken' : taken'[i] = i
  <1>1. head \in Nat /\ Len(taken) \in Nat /\ taken \in Seq(Nat) /\ DOMAIN taken = 1..Len(taken)
    BY DEF ConnInv, Typed
  <1>2. \A i \in 1..Len(taken) : taken[i] = i
    BY <1>1, Zenon DEF ConnInv, Counted
  <1>3. /\ taken' \in Seq(Nat) /\ Len(taken') = Len(taken) + 1 /\ DOMAIN taken' = 1..(Len(taken) + 1)
        /\ \A i \in 1..Len(taken) : taken'[i] = taken[i]
        /\ taken'[Len(taken) + 1] = head
    BY <1>1, Appended
  <1> QED
    BY <1>1, <1>2, <1>3

(* What holds of the header in hand.                                       *)
LEMMA InHand ==
  ASSUME ConnInv, ~Over, pc \in {"judge", "another"} \/ (pc = "reply" /\ trailer # 0)
  PROVE  /\ head = Len(taken) + 1 /\ head \in 1..Len(sent) /\ of(head) \in Kind
         /\ of(head).n \in Nat /\ of(head).oob \in BOOLEAN
  <1>1. head = Len(taken) + 1 /\ head \in 1..Len(sent)
    BY DEF ConnInv, Typed, Counted
  <1> QED
    BY <1>1, KindOf, Zenon DEF ConnInv, Kind

LEMMA K_First ==
  ASSUME ConnInv, First
  PROVE  ConnInv'
  <1> DEFINE r == of(head)
  <1>1. /\ pc = "judge" /\ ~Over /\ UNCHANGED <<running, client, wire, head, replies>>
        /\ \/ r.cmd = "DISC" /\ pc' = "bye" /\ UNCHANGED <<batch, one, taken>>
           \/ Batchable(r) /\ Admit /\ pc' = "payload" /\ UNCHANGED <<trailer, one>>
           \/ /\ pc' = "one" /\ left' = r.n /\ err' = IF r.oob THEN "EINVAL" ELSE "ok"
              /\ taken' = Append(taken, head) /\ UNCHANGED batch
    BY Zenon DEF First, Goto, Over
  <1>2. /\ head = Len(taken) + 1 /\ head \in 1..Len(sent) /\ r \in Kind
        /\ r.n \in Nat /\ r.oob \in BOOLEAN
    BY <1>1, InHand, Zenon
  <1>3. nreq = 0 /\ nops = 0 /\ trailer = 0 /\ Len(replies) = Len(taken)
    BY <1>1, Zenon DEF ConnInv, Counted, Batched
  <1>4. Aligned'
    <2>1. Untouched /\ (~Over' => ~Over /\ Rem' = Rem)
      BY <1>1, <1>2, <1>3, Zenon
      DEF ConnInv, Over, Rem, Pay, PayloadOf, of, Kind, Untouched, First, Goto, Admit, client,
          batch, one
    <2> QED
      BY <2>1, StillAligned, Zenon DEF ConnInv
  <1>5. RepliesFramed'
    BY <1>1, Zenon DEF ConnInv, Typed, RepliesFramed, of, client
  <1>6. CASE r.cmd = "DISC" /\ pc' = "bye" /\ UNCHANGED <<batch, one, taken>>
    <2>1. Typed'
      BY <1>1, <1>6, Zenon DEF ConnInv, Typed, Labels, client, batch, one
    <2>2. Counted'
      BY <1>1, <1>3, <1>6, Zenon DEF ConnInv, Counted, Over, of, client, batch, one
    <2>3. Batched'
      BY <1>1, <1>6, Zenon DEF ConnInv, Batched, Gathering, nreq, of, Outcomes, client, batch, one
    <2>4. Fits'
      BY <1>1, <1>6, Zenon DEF ConnInv, Fits, WithinStaging, nreq, batch
    <2> QED
      BY <1>4, <1>5, <2>1, <2>2, <2>3, <2>4, Zenon DEF ConnInv
  <1>7. CASE Batchable(r) /\ Admit /\ pc' = "payload" /\ UNCHANGED <<trailer, one>>
    <2>a. Admitted
      BY <1>2, <1>7, AdmitAdmits, Zenon
    <2>1. Typed'
      BY <1>1, <1>7, <2>a, Zenon DEF ConnInv, Typed, Labels, client, one, Admitted
    <2>2. Counted'
      <3>1. /\ head' = head /\ sent' = sent /\ trailer' = 0 /\ head \in 1..Len(sent)
            /\ Len(sent) \in Nat /\ Len(taken') = head /\ \A i \in DOMAIN taken' : taken'[i] = i
        BY <1>1, <1>2, <1>3, <1>7, <2>a, Counters, Zenon DEF ConnInv, client, Admitted
      <3>2. Len(taken') <= Len(sent') /\ head' > 0
        BY <3>1
      <3> QED
        BY <1>7, <3>1, <3>2, Zenon DEF Counted
    <2>3. Batched'
      <3>1. Len(taken) \in Nat /\ replies' = replies
        BY <1>1, Counters, Zenon DEF ConnInv
      <3>2. /\ Len(taken') = Len(taken) + 1 /\ nreq' = nreq + 1
            /\ Len(errs') = nreq' /\ nreq' <= Len(taken')
            /\ \A i \in DOMAIN reqs' : reqs'[i] = Len(taken') - nreq' + i
        BY <2>a, Zenon DEF Admitted
      <3>3. Len(replies') = (Len(taken') - nreq') + 0 /\ Len(replies') <= Len(taken')
        BY <1>3, <3>1, <3>2
      <3>4. \A i \in DOMAIN replies' : replies'[i].id = i
        BY <3>1, Zenon DEF ConnInv, Batched
      <3> QED
        BY <1>7, <3>2, <3>3, <3>4, Zenon DEF Batched, Gathering
    <2>4. Fits'
      <3>1. nreq' = nreq + 1 /\ nops' \in Nat /\ nops' <= nops + BATCH_BLOCKS
        BY <2>a, Zenon DEF Admitted
      <3>2. nreq' <= Depth /\ nops' <= maxops
        BY <1>3, <3>1, Sizes
      <3> QED
        BY <1>7, <3>2, Zenon DEF Fits, WithinStaging
    <2> QED
      BY <1>4, <1>5, <2>1, <2>2, <2>3, <2>4, Zenon DEF ConnInv
  <1>8. CASE /\ pc' = "one" /\ left' = r.n /\ err' = IF r.oob THEN "EINVAL" ELSE "ok"
             /\ taken' = Append(taken, head) /\ UNCHANGED batch
    <2>a. /\ taken' \in Seq(Nat) /\ Len(taken') = Len(taken) + 1
          /\ \A i \in DOMAIN taken' : taken'[i] = i
      BY <1>2, <1>8, OneTaken, Zenon
    <2>1. Typed'
      BY <1>1, <1>2, <1>8, <2>a, Zenon DEF ConnInv, Typed, Labels, Errors, client, batch
    <2>2. Counted'
      <3>1. /\ head' = head /\ sent' = sent /\ trailer' = 0 /\ head \in 1..Len(sent)
            /\ Len(sent) \in Nat /\ Len(taken') = head /\ \A i \in DOMAIN taken' : taken'[i] = i
        BY <1>1, <1>2, <1>3, <1>8, <2>a, Counters, Zenon DEF ConnInv, client, batch
      <3>2. Len(taken') <= Len(sent') /\ head' > 0
        BY <3>1
      <3> QED
        BY <1>8, <3>1, <3>2, Zenon DEF Counted
    <2>3. Batched'
      <3>1. /\ Len(taken) \in Nat /\ replies' = replies /\ reqs' = reqs /\ reqs \in Seq(Nat)
            /\ nops' = 0 /\ nreq' = 0 /\ nreq = Len(reqs) /\ Len(errs') = nreq' /\ of(head)' = of(head)
        BY <1>1, <1>3, <1>8, Counters, Zenon
        DEF ConnInv, Typed, Batched, nreq, of, client, batch
      <3>2. /\ nreq' <= Len(taken') /\ Len(replies') <= Len(taken') /\ DOMAIN reqs' = {}
            /\ Len(replies') + 1 = Len(taken')
        BY <1>3, <2>a, <3>1
      <3>3. \A i \in DOMAIN replies' : replies'[i].id = i
        BY <3>1, Zenon DEF ConnInv, Batched
      <3>4. err' = "EINVAL" <=> of(head)'.oob
        BY <1>2, <1>8, <3>1, Zenon
      <3>5. head' = head /\ \A i \in DOMAIN reqs' : reqs'[i] = Len(taken') - nreq' + i
        BY <1>1, <3>2, Zenon
      <3> QED
        BY <1>8, <3>1, <3>2, <3>3, <3>4, <3>5, Zenon DEF Batched, Gathering, of
    <2>4. Fits'
      BY <1>1, <1>8, Zenon DEF ConnInv, Fits, WithinStaging, nreq, batch
    <2> QED
      BY <1>4, <1>5, <2>1, <2>2, <2>3, <2>4, Zenon DEF ConnInv
  <1> QED
    BY <1>1, <1>6, <1>7, <1>8, Zenon

LEMMA K_Another ==
  ASSUME ConnInv, Another
  PROVE  ConnInv'
  <1> DEFINE r == of(head)
  <1>1. /\ pc = "another" /\ ~Over /\ UNCHANGED <<running, client, wire, head, one, replies>>
        /\ \/ /\ trailer' \in {1, 2} /\ (trailer' = 1 <=> r.cmd # "DISC") /\ pc' = "run"
              /\ UNCHANGED <<reqs, nops, errs, taken>>
           \/ Batchable(r) /\ Admit /\ pc' = "payload" /\ UNCHANGED trailer
    BY DEF Another, Goto, Over
  <1>2. /\ head = Len(taken) + 1 /\ head \in 1..Len(sent) /\ r \in Kind
        /\ r.n \in Nat /\ r.oob \in BOOLEAN
    BY <1>1, InHand, Zenon
  <1>3. trailer = 0 /\ Room
    BY <1>1, Zenon DEF ConnInv, Counted, Fits
  <1>4. Aligned'
    <2>1. Untouched /\ (~Over' => ~Over /\ Rem' = Rem)
      BY <1>1, <1>2, <1>3, Zenon
      DEF ConnInv, Over, Rem, Pay, PayloadOf, of, Kind, Untouched, Another, Goto, Admit, client,
          batch, one
    <2> QED
      BY <2>1, StillAligned, Zenon DEF ConnInv
  <1>5. RepliesFramed'
    BY <1>1, Zenon DEF ConnInv, Typed, RepliesFramed, of, client
  <1>6. CASE /\ trailer' \in {1, 2} /\ (trailer' = 1 <=> r.cmd # "DISC") /\ pc' = "run"
             /\ UNCHANGED <<reqs, nops, errs, taken>>
    <2>1. Typed'
      BY <1>1, <1>6 DEF ConnInv, Typed, Labels, client, one
    <2>2. Counted'
      BY <1>1, <1>2, <1>3, <1>6 DEF ConnInv, Typed, Counted, Over, of, client
    <2>3. Batched'
      BY <1>1, <1>6, Zenon DEF ConnInv, Batched, Gathering, nreq, of, Outcomes, client, one
    <2>4. Fits'
      BY <1>1, <1>6, Zenon DEF ConnInv, Fits, WithinStaging, nreq
    <2> QED
      BY <1>4, <1>5, <2>1, <2>2, <2>3, <2>4, Zenon DEF ConnInv
  <1>7. CASE Batchable(r) /\ Admit /\ pc' = "payload" /\ UNCHANGED trailer
    <2>a. Admitted
      BY <1>2, <1>7, AdmitAdmits, Zenon
    <2>1. Typed'
      BY <1>1, <1>7, <2>a, Zenon DEF ConnInv, Typed, Labels, client, one, Admitted
    <2>2. Counted'
      <3>1. /\ head' = head /\ sent' = sent /\ trailer' = 0 /\ head \in 1..Len(sent)
            /\ Len(sent) \in Nat /\ Len(taken') = head /\ \A i \in DOMAIN taken' : taken'[i] = i
        BY <1>1, <1>2, <1>3, <1>7, <2>a, Counters, Zenon DEF ConnInv, client, Admitted
      <3>2. Len(taken') <= Len(sent') /\ head' > 0
        BY <3>1
      <3> QED
        BY <1>7, <3>1, <3>2, Zenon DEF Counted
    <2>3. Batched'
      <3>1. /\ nreq \in Nat /\ Len(taken) \in Nat /\ replies' = replies
            /\ Len(replies) = (Len(taken) - nreq) + 0
        BY <1>1, Counters, Zenon DEF ConnInv, Batched, Gathering
      <3>2. /\ Len(taken') = Len(taken) + 1 /\ nreq' = nreq + 1
            /\ Len(errs') = nreq' /\ nreq' <= Len(taken')
            /\ \A i \in DOMAIN reqs' : reqs'[i] = Len(taken') - nreq' + i
        BY <2>a, Zenon DEF Admitted
      <3>3. Len(replies') = (Len(taken') - nreq') + 0 /\ Len(replies') <= Len(taken')
        BY <3>1, <3>2
      <3>4. \A i \in DOMAIN replies' : replies'[i].id = i
        BY <3>1, Zenon DEF ConnInv, Batched
      <3> QED
        BY <1>7, <3>2, <3>3, <3>4, Zenon DEF Batched, Gathering
    <2>4. Fits'
      <3>1. /\ nreq \in Nat /\ nreq < Depth /\ nops \in Nat /\ nops < copy_cap
            /\ nreq' = nreq + 1 /\ nops' \in Nat /\ nops' <= nops + BATCH_BLOCKS
        BY <1>3, <2>a, Counters, Zenon DEF ConnInv, Typed, Room, Admitted
      <3>2. nreq' <= Depth /\ nops' <= maxops
        BY <3>1, Sizes
      <3> QED
        BY <1>7, <3>2, Zenon DEF Fits, WithinStaging
    <2> QED
      BY <1>4, <1>5, <2>1, <2>2, <2>3, <2>4, Zenon DEF ConnInv
  <1> QED
    BY <1>1, <1>6, <1>7, Zenon

LEMMA K_Run ==
  ASSUME ConnInv, Run
  PROVE  ConnInv'
  <1>1. /\ pc = "run" /\ pc' = "reply" /\ left' = 0
        /\ UNCHANGED <<running, client, wire, head, reqs, nops, trailer, err, taken, replies>>
        /\ errs' \in [1..nreq -> Errors] /\ \A i \in 1..nreq : errs'[i] \in Outcomes(i)
    BY Zenon DEF Run, Goto, Errors
  <1>2. errs' \in Seq(Errors) /\ Len(errs') = nreq
    <2>1. nreq \in Nat
      BY DEF ConnInv, Typed, nreq
    <2> QED
      BY <1>1, <2>1
  <1>3. Typed'
    BY <1>1, <1>2, Zenon DEF ConnInv, Typed, Labels, client
  <1>4. Aligned'
    <2>1. Untouched /\ (~Over' => ~Over /\ Rem' = Rem)
      BY <1>1, Zenon DEF Over, Rem, Pay, of, Untouched, client
    <2> QED
      BY <2>1, StillAligned, Zenon DEF ConnInv
  <1>5. Counted'
    BY <1>1, Zenon DEF ConnInv, Counted, Over, of, client
  <1>6. Batched'
    <2>1. Len(replies) = (Len(taken) - nreq) + 0 /\ nreq \in Nat
      BY <1>1, Counters, Zenon DEF ConnInv, Batched, Gathering
    <2>2. /\ \A i \in DOMAIN replies' : replies'[i].id = i
          /\ nreq' <= Len(taken')
          /\ \A i \in DOMAIN reqs' : reqs'[i] = Len(taken') - nreq' + i
      BY <1>1, Zenon DEF ConnInv, Batched, nreq
    <2>3. nreq' = nreq /\ \A i \in 1..nreq' : errs'[i] \in Outcomes(i)'
      BY <1>1, Zenon DEF nreq, Outcomes, of, client
    <2>4. \A i \in 1..left' : replies'[(Len(taken') - nreq') + i].err = errs'[i]
      BY <1>1
    <2> QED
      BY <1>1, <1>2, <2>1, <2>2, <2>3, <2>4 DEF Batched, Gathering
  <1>7. Fits'
    BY <1>1, Zenon DEF ConnInv, Fits, WithinStaging, nreq
  <1>8. RepliesFramed'
    BY <1>1, Zenon DEF ConnInv, Typed, RepliesFramed, of, client
  <1> QED
    BY <1>3, <1>4, <1>5, <1>6, <1>7, <1>8, Zenon DEF ConnInv

(* One more reply, to the request after the last one answered.             *)
LEMMA ReplyAdded ==
  ASSUME ConnInv, NEW e \in Errors, NEW d \in BOOLEAN, replies' = Answer(Len(replies) + 1, e, d),
         UNCHANGED sent, pc # "lost",
         Len(replies) + 1 \in 1..Len(sent),
         d => Carries(Len(replies) + 1, e),
         Carries(Len(replies) + 1, e) => d \/ pc' = "lost",
         e = "EINVAL" <=> of(Len(replies) + 1).oob
  PROVE  /\ replies' \in Seq([id : Nat, err : Errors, data : BOOLEAN])
         /\ Len(replies') = Len(replies) + 1
         /\ \A i \in DOMAIN replies' : replies'[i].id = i
         /\ \A i \in 1..Len(replies) : replies'[i] = replies[i]
         /\ replies'[Len(replies) + 1].err = e
         /\ RepliesFramed'
  <1> DEFINE m == Len(replies)
             R == [id : Nat, err : Errors, data : BOOLEAN]
             a == [id |-> m + 1, err |-> e, data |-> d]
  <1>1. m \in Nat /\ replies \in Seq(R) /\ DOMAIN replies = 1..m
    BY DEF ConnInv, Typed
  <1>2. a \in R /\ replies' = Append(replies, a)
    BY <1>1 DEF Answer
  <1>4. a.id = m + 1 /\ a.err = e /\ a.data = d
    BY Zenon
  <1> HIDE DEF a, R
  <1>3. /\ replies' \in Seq(R) /\ Len(replies') = m + 1 /\ DOMAIN replies' = 1..(m + 1)
        /\ \A i \in 1..m : replies'[i] = replies[i]
        /\ replies'[m + 1] = a
    BY <1>1, <1>2, Appended
  <1>5. \A i \in 1..m : replies[i].id = i
    BY <1>1, Zenon DEF ConnInv, Batched
  <1>6. \A i \in DOMAIN replies' : replies'[i].id = i
    BY <1>1, <1>3, <1>4, <1>5
  <1>7. ASSUME NEW i \in 1..(m + 1)
        PROVE  LET r == of(i)  x == replies'[i].err IN
               /\ replies'[i].data => r.cmd = "READ" /\ x = "ok"
               /\ r.cmd = "READ" /\ x = "ok" => replies'[i].data \/ (i = m + 1 /\ pc' = "lost")
               /\ x = "EINVAL" <=> r.oob
    <2>1. CASE i = m + 1
      BY <1>3, <1>4, <2>1, Zenon DEF Carries
    <2>2. CASE i # m + 1
      <3>1. i \in 1..m /\ replies'[i] = replies[i] /\ replies[i].id = i
        BY <1>1, <1>3, <1>5, <2>2
      <3> QED
        BY <1>1, <3>1, ZenonT(40) DEF ConnInv, RepliesFramed
    <2> QED
      BY <2>1, <2>2, Zenon
  <1>8. RepliesFramed'
    <2>1. Len(replies') = m + 1 /\ \A i \in 1..(m + 1) : of(i)' = of(i)
      BY <1>3, Zenon DEF of
    <2> SUFFICES ASSUME NEW i \in DOMAIN replies'
                 PROVE  LET r == of(replies[i].id)'  x == replies'[i].err IN
                        /\ replies'[i].data => r.cmd = "READ" /\ x = "ok"
                        /\ r.cmd = "READ" /\ x = "ok"
                           => replies'[i].data \/ (i = Len(replies') /\ pc' = "lost")
                        /\ x = "EINVAL" <=> r.oob
      BY Zenon DEF RepliesFramed
    <2>2. i \in 1..(m + 1) /\ of(replies[i].id)' = of(i)
      BY <1>3, <1>6, <2>1, Zenon DEF of
    <2> QED
      BY <1>7, <2>1, <2>2, Zenon
  <1> QED
    BY <1>3, <1>4, <1>6, <1>8, Zenon DEF R

LEMMA K_SendReply ==
  ASSUME ConnInv, SendReply
  PROVE  ConnInv'
  <1> DEFINE i == reqs[left + 1]
             e == errs[left + 1]
  <1>1. /\ pc = "reply" /\ left < nreq
        /\ UNCHANGED <<running, client, wire, head, batch, err, taken>>
        /\ \/ replies' = Answer(i, e, Carries(i, e)) /\ left' = left + 1 /\ pc' = pc
           \/ pc' = "lost" /\ UNCHANGED <<replies, left>>
    BY Zenon DEF SendReply, Goto
  <1>2. left \in Nat /\ nreq \in Nat /\ Len(taken) \in Nat /\ Len(replies) \in Nat /\ Len(sent) \in Nat
    BY DEF ConnInv, Typed, nreq
  <1>3. /\ Len(replies) = (Len(taken) - nreq) + left /\ nreq <= Len(taken) /\ Len(errs) = nreq
        /\ \A j \in 1..nreq : errs[j] \in Outcomes(j)
        /\ \A j \in 1..left : replies[(Len(taken) - nreq) + j].err = errs[j]
    BY <1>1, Zenon DEF ConnInv, Batched, Gathering
  <1>4. left + 1 \in 1..nreq /\ i = Len(replies) + 1
    <2>1. left + 1 \in 1..nreq /\ left + 1 \in DOMAIN reqs
      BY <1>1, <1>2 DEF ConnInv, Typed, nreq
    <2>2. i = Len(taken) - nreq + (left + 1)
      BY <2>1, Zenon DEF ConnInv, Batched
    <2> QED
      BY <1>2, <1>3, <2>1, <2>2
  <1>5. i \in 1..Len(sent)
    <2>1. Len(taken) <= Len(sent)
      BY <1>1, Zenon DEF ConnInv, Counted, Over
    <2> QED
      BY <1>2, <1>3, <1>4, <2>1
  <1>6. e \in Errors /\ (e = "EINVAL" <=> of(i).oob)
    BY <1>3, <1>4, Zenon DEF Outcomes, Errors
  <1>7. Aligned'
    <2>1. Untouched /\ (~Over' => ~Over /\ Rem' = Rem)
      BY <1>1, Zenon DEF Over, Rem, Pay, of, Untouched, client, batch
    <2> QED
      BY <2>1, StillAligned, Zenon DEF ConnInv
  <1>8. Counted'
    BY <1>1, Zenon DEF ConnInv, Counted, Over, of, client, batch
  <1>9. Fits'
    BY <1>1, Zenon DEF ConnInv, Fits, WithinStaging, nreq, batch
  <1> HIDE DEF i, e
  <1>10. CASE replies' = Answer(i, e, Carries(i, e)) /\ left' = left + 1 /\ pc' = pc
    <2>1. Carries(i, e) \in BOOLEAN
      BY Zenon DEF Carries
    <2>2. /\ replies' \in Seq([id : Nat, err : Errors, data : BOOLEAN])
          /\ Len(replies') = Len(replies) + 1
          /\ \A j \in DOMAIN replies' : replies'[j].id = j
          /\ \A j \in 1..Len(replies) : replies'[j] = replies[j]
          /\ replies'[Len(replies) + 1].err = e
          /\ RepliesFramed'
      BY <1>1, <1>4, <1>5, <1>6, <1>10, <2>1, ReplyAdded, Zenon DEF client
    <2>3. Typed'
      <3>1. left' \in Nat
        BY <1>2, <1>10
      <3> QED
        BY <1>1, <1>10, <2>2, <3>1, Zenon DEF ConnInv, Typed, client, batch
    <2>4. Batched'
      <3>1. UNCHANGED <<reqs, errs, taken, sent>> /\ pc' = "reply" /\ left' = left + 1 /\ nreq' = nreq
        BY <1>1, <1>10, Zenon DEF batch, client, nreq
      <3>2. Len(replies') = (Len(taken') - nreq') + left' /\ left' <= nreq'
        <4>1. /\ left < nreq /\ Len(replies') = ((Len(taken) - nreq) + left) + 1
              /\ left' = left + 1 /\ nreq' = nreq /\ taken' = taken
          BY <1>1, <1>3, <2>2, <3>1, Zenon
        <4> QED
          BY <1>2, <4>1
      <3>3. \A j \in 1..nreq' : errs'[j] \in Outcomes(j)'
        BY <1>3, <3>1, Zenon DEF Outcomes, of
      <3>4. ASSUME NEW j \in 1..left' PROVE replies'[(Len(taken') - nreq') + j].err = errs'[j]
        <4>1. CASE j \in 1..left
          <5>1. (Len(taken) - nreq) + j \in 1..Len(replies)
            BY <1>2, <1>3, <4>1
          <5> QED
            BY <1>3, <2>2, <3>1, <4>1, <5>1, Zenon
        <4>2. CASE j = left + 1
          <5>1. (Len(taken) - nreq) + j = Len(replies) + 1
            BY <1>2, <1>3, <4>2
          <5> QED
            BY <2>2, <3>1, <4>2, <5>1, Zenon DEF e
        <4> QED
          BY <1>2, <3>1, <4>1, <4>2
      <3>5. /\ Len(errs') = nreq' /\ nreq' <= Len(taken')
            /\ \A j \in DOMAIN reqs' : reqs'[j] = Len(taken') - nreq' + j
        BY <3>1, Zenon DEF ConnInv, Batched
      <3>6. Len(replies') <= Len(taken')
        BY <1>2, <1>3, <3>1, <3>2
      <3> QED
        BY <2>2, <3>1, <3>2, <3>3, <3>4, <3>5, <3>6, Zenon DEF Batched, Gathering
    <2> QED
      BY <1>7, <1>8, <1>9, <2>2, <2>3, <2>4, Zenon DEF ConnInv
  <1>11. CASE pc' = "lost" /\ UNCHANGED <<replies, left>>
    <2>1. Typed'
      BY <1>1, <1>11, Zenon DEF ConnInv, Typed, Labels, client, batch
    <2>2. Batched'
      BY <1>1, <1>11, Zenon DEF ConnInv, Batched, Gathering, nreq, of, Outcomes, client, batch
    <2>3. RepliesFramed'
      BY <1>1, <1>11, Zenon DEF ConnInv, Typed, RepliesFramed, of, client
    <2> QED
      BY <1>7, <1>8, <1>9, <2>1, <2>2, <2>3, Zenon DEF ConnInv
  <1> QED
    BY <1>1, <1>10, <1>11, Zenon DEF i, e

LEMMA K_EndFlush ==
  ASSUME ConnInv, EndFlush
  PROVE  ConnInv'
  <1> DEFINE r == of(head)
  <1>1. /\ pc = "reply" /\ ~Over /\ left = nreq /\ nops' = 0 /\ trailer' = 0
        /\ UNCHANGED <<running, client, wire, head, replies>>
        /\ \/ /\ HardErr /\ pc' = "reset" /\ UNCHANGED <<left, err, taken, reqs, errs>>
           \/ /\ trailer \in {0, 2} /\ pc' = (IF trailer = 0 THEN "top" ELSE "bye")
              /\ UNCHANGED <<left, err, taken>> /\ reqs' = <<>> /\ errs' = <<>>
           \/ /\ trailer = 1 /\ pc' = "one" /\ left' = r.n
              /\ err' = (IF r.oob THEN "EINVAL" ELSE "ok")
              /\ taken' = Append(taken, head) /\ reqs' = <<>> /\ errs' = <<>>
    BY DEF EndFlush, Goto, RepliesDone, Over
  <1>2. nreq \in Nat /\ Len(taken) \in Nat /\ Len(replies) = Len(taken) /\ nreq <= Len(taken)
    <2>1. /\ nreq \in Nat /\ Len(taken) \in Nat /\ nreq <= Len(taken)
          /\ Len(replies) = (Len(taken) - nreq) + nreq
      BY <1>1, Counters, Zenon DEF ConnInv, Batched, Gathering
    <2> QED
      BY <2>1
  <1>3. RepliesFramed'
    BY <1>1, Zenon DEF ConnInv, Typed, RepliesFramed, of, client
  <1>4. CASE HardErr /\ pc' = "reset" /\ UNCHANGED <<left, err, taken, reqs, errs>>
    <2>1. Typed'
      BY <1>1, <1>4 DEF ConnInv, Typed, Labels, client
    <2>2. Aligned'
      BY <1>4, Zenon DEF Aligned, Over
    <2>3. Counted'
      BY <1>1, <1>4, Zenon DEF ConnInv, Counted, Over, client
    <2>4. Batched'
      <3>1. PICK i \in 1..nreq : errs[i] = "EIO"
        BY <1>4, Zenon DEF HardErr
      <3>2. replies[(Len(taken) - nreq) + i].err = errs[i]
        BY <1>1, Zenon DEF ConnInv, Batched
      <3>3. (Len(taken) - nreq) + i \in DOMAIN replies
        BY <1>2 DEF ConnInv, Typed
      <3>4. \E j \in DOMAIN replies' : replies'[j].err = "EIO"
        BY <1>1, <3>1, <3>2, <3>3, Zenon
      <3>5. /\ \A j \in DOMAIN replies' : replies'[j].id = j
            /\ Len(errs') = nreq' /\ nreq' <= Len(taken')
            /\ \A j \in DOMAIN reqs' : reqs'[j] = Len(taken') - nreq' + j
        BY <1>1, <1>4, Zenon DEF ConnInv, Batched, nreq
      <3>6. Len(replies') = Len(taken') /\ Len(replies') <= Len(taken')
        <4>1. Len(replies') = Len(taken) /\ taken' = taken
          BY <1>1, <1>2, <1>4, Zenon
        <4> QED
          BY <1>2, <4>1
      <3> QED
        BY <1>4, <3>4, <3>5, <3>6, Zenon DEF Batched, Gathering
    <2>5. Fits'
      BY <1>1, <1>4, Sizes DEF ConnInv, Fits, WithinStaging, nreq
    <2> QED
      BY <1>3, <2>1, <2>2, <2>3, <2>4, <2>5, Zenon DEF ConnInv
  <1>5. CASE reqs' = <<>> /\ errs' = <<>>
    <2>1. nreq' = 0 /\ Len(errs') = 0 /\ DOMAIN reqs' = {}
      BY <1>5 DEF nreq
    <2>2. reqs' \in Seq(Nat) /\ errs' \in Seq(Errors)
      BY <1>5
    <2>3. \A i \in DOMAIN replies' : replies'[i].id = i
      BY <1>1, Zenon DEF ConnInv, Batched
    <2>4. Fits'
      BY <1>1, <1>4, <2>1, Sizes DEF Fits, WithinStaging, Room
    <2>5. CASE /\ trailer \in {0, 2} /\ pc' = (IF trailer = 0 THEN "top" ELSE "bye")
               /\ UNCHANGED <<left, err, taken>>
      <3>1. Typed'
        BY <1>1, <2>2, <2>5 DEF ConnInv, Typed, Labels, client
      <3>2. Aligned'
        <4>1. Untouched /\ (~Over' => ~Over /\ Rem' = Rem)
          BY <1>1, <2>5 DEF Over, Rem, Untouched, client
        <4> QED
          BY <4>1, StillAligned, Zenon DEF ConnInv
      <3>3. Counted'
        BY <1>1, <2>5, Zenon DEF ConnInv, Counted, Over, of, client
      <3>4. Batched'
        BY <1>1, <1>2, <2>1, <2>3, <2>5 DEF Batched, Gathering
      <3> QED
        BY <1>3, <2>4, <3>1, <3>2, <3>3, <3>4, Zenon DEF ConnInv
    <2>6. CASE /\ trailer = 1 /\ pc' = "one" /\ left' = r.n
               /\ err' = (IF r.oob THEN "EINVAL" ELSE "ok")
               /\ taken' = Append(taken, head)
      <3>a. /\ head = Len(taken) + 1 /\ head \in 1..Len(sent) /\ r \in Kind
            /\ r.n \in Nat /\ r.oob \in BOOLEAN
        BY <1>1, <2>6, InHand
      <3>b. /\ taken' \in Seq(Nat) /\ Len(taken') = Len(taken) + 1
            /\ \A i \in DOMAIN taken' : taken'[i] = i
        BY <2>6, <3>a, OneTaken, Zenon
      <3>1. Typed'
        <4>1. nops' \in Nat /\ trailer' \in 0..2 /\ pc' \in Labels
          BY <1>1, <2>6 DEF Labels
        <4> QED
          BY <1>1, <2>2, <2>6, <3>a, <3>b, <4>1, Zenon DEF ConnInv, Typed, Errors, client
      <3>2. Aligned'
        <4>1. Untouched /\ (~Over' => ~Over /\ Rem' = Rem)
          BY <1>1, <2>6, Zenon DEF Over, Rem, Pay, PayloadOf, of, Untouched, client
        <4> QED
          BY <4>1, StillAligned, Zenon DEF ConnInv
      <3>3. Counted'
        <4>1. /\ head' = head /\ sent' = sent /\ trailer' = 0 /\ Len(sent) \in Nat
              /\ Len(taken') = head
          BY <1>1, <3>a, <3>b, Counters, Zenon DEF ConnInv, client
        <4>2. Len(taken') <= Len(sent') /\ head' > 0
          BY <3>a, <4>1
        <4> QED
          BY <2>6, <3>b, <4>1, <4>2, Zenon DEF Counted
      <3>4. Batched'
        <4>1. /\ replies' = replies /\ nops' = 0 /\ head' = head /\ sent' = sent
              /\ (err' = "EINVAL" <=> r.oob)
          BY <1>1, <2>6, <3>a, Zenon DEF client
        <4>2. /\ nreq' <= Len(taken') /\ Len(replies') <= Len(taken')
              /\ Len(replies') + 1 = Len(taken')
          BY <1>2, <2>1, <3>b, <4>1
        <4>3. \A i \in DOMAIN reqs' : reqs'[i] = Len(taken') - nreq' + i
          BY <2>1, Zenon
        <4> QED
          BY <2>1, <2>3, <2>6, <4>1, <4>2, <4>3, Zenon DEF Batched, Gathering, of
      <3> QED
        BY <1>3, <2>4, <3>1, <3>2, <3>3, <3>4, Zenon DEF ConnInv
    <2> QED
      BY <1>1, <1>4, <2>5, <2>6, Zenon
  <1> QED
    BY <1>1, <1>4, <1>5, Zenon

LEMMA K_OneReply ==
  ASSUME ConnInv, OneReply
  PROVE  ConnInv'
  <1>1. /\ pc = "one" /\ (of(head).cmd = "WRITE" => left = 0) /\ left' = 0 /\ err' = "ok"
        /\ UNCHANGED <<running, client, wire, head, batch, taken>>
        /\ \/ pc' = "lost" /\ UNCHANGED replies
           \/ \E d \in BOOLEAN :
                /\ replies' = Answer(head, err, d) /\ pc' \in {"reset", "top", "lost"}
                /\ pc' = "reset" => err = "EIO"
                /\ d => Carries(head, err)
                /\ Carries(head, err) => d \/ pc' = "lost"
    <2>1. Carries(head, err) \in BOOLEAN /\ (err = "EIO" => ~Carries(head, err))
      BY Zenon DEF Carries
    <2> QED
      BY <2>1, ZenonT(40) DEF OneReply, Goto
  <1>2. /\ nreq = 0 /\ Len(replies) + 1 = Len(taken) /\ head = Len(taken) /\ trailer = 0
        /\ head \in 1..Len(sent) /\ err \in Errors /\ (err = "EINVAL" <=> of(head).oob)
        /\ Len(replies) \in Nat
    <2>1. /\ nreq = 0 /\ Len(replies) + 1 = Len(taken) /\ head = Len(taken) /\ trailer = 0
          /\ head > 0 /\ err \in Errors /\ (err = "EINVAL" <=> of(head).oob)
      BY <1>1, Zenon DEF ConnInv, Typed, Counted, Batched, Over
    <2> QED
      BY <2>1, Counters, HeadSent, Zenon DEF ConnInv
  <1>3. Aligned'
    <2>1. Untouched /\ (~Over' => ~Over /\ Rem' = Rem)
      BY <1>1, <1>2, Zenon DEF Over, Rem, Untouched, client, batch
    <2> QED
      BY <2>1, StillAligned, Zenon DEF ConnInv
  <1>4. Counted'
    BY <1>1, <1>2, Zenon DEF ConnInv, Counted, Over, of, client, batch
  <1>5. Fits'
    BY <1>1, Zenon DEF ConnInv, Fits, WithinStaging, nreq, batch
  <1>6. CASE pc' = "lost" /\ UNCHANGED replies
    <2>1. Typed'
      BY <1>1, <1>6, Zenon DEF ConnInv, Typed, Labels, Errors, client, batch
    <2>2. Batched'
      BY <1>1, <1>6, Zenon DEF ConnInv, Batched, Gathering, nreq, batch
    <2>3. RepliesFramed'
      BY <1>1, <1>6, Zenon DEF ConnInv, Typed, RepliesFramed, of, client
    <2> QED
      BY <1>3, <1>4, <1>5, <2>1, <2>2, <2>3, Zenon DEF ConnInv
  <1>7. ASSUME NEW d \in BOOLEAN,
               replies' = Answer(head, err, d), pc' \in {"reset", "top", "lost"},
               pc' = "reset" => err = "EIO", d => Carries(head, err),
               Carries(head, err) => d \/ pc' = "lost"
        PROVE  ConnInv'
    <2>0. head = Len(replies) + 1
      BY <1>2, Zenon
    <2>1. /\ replies' \in Seq([id : Nat, err : Errors, data : BOOLEAN])
          /\ Len(replies') = Len(replies) + 1
          /\ \A j \in DOMAIN replies' : replies'[j].id = j
          /\ replies'[Len(replies) + 1].err = err
          /\ RepliesFramed'
      BY <1>1, <1>2, <1>7, <2>0, ReplyAdded, ZenonT(40) DEF client
    <2>2. Typed'
      BY <1>1, <1>7, <2>1, Zenon DEF ConnInv, Typed, Labels, Errors, client, batch
    <2>3. Batched'
      <3>1. pc' = "reset" => \E j \in DOMAIN replies' : replies'[j].err = "EIO"
        <4>1. Len(replies) + 1 \in DOMAIN replies'
          BY <1>2, <2>1
        <4> QED
          BY <1>7, <2>1, <4>1, Zenon
      <3>2. /\ Len(errs') = nreq' /\ nreq' <= Len(taken')
            /\ \A j \in DOMAIN reqs' : reqs'[j] = Len(taken') - nreq' + j
            /\ nreq' = 0 /\ nops' = 0
        BY <1>1, Zenon DEF ConnInv, Batched, nreq, batch
      <3>3. Len(replies') = Len(taken')
        BY <1>1, <1>2, <2>1, Zenon
      <3>4. Len(replies') <= Len(taken')
        BY <1>2, <2>1, <3>3
      <3> QED
        BY <1>7, <2>1, <3>1, <3>2, <3>3, <3>4, Zenon DEF Batched, Gathering
    <2> QED
      BY <1>3, <1>4, <1>5, <2>1, <2>2, <2>3, Zenon DEF ConnInv
  <1> QED
    BY <1>1, <1>6, <1>7, Zenon

-----------------------------------------------------------------------------
(* Steps that move the streams.                                            *)

LEMMA StreamType ==
  ASSUME Typed
  PROVE  /\ Len(Stream) \in Nat /\ Len(Stream) = Len(wire) + Len(pushing)
         /\ Len(wire) \in Nat /\ Len(pushing) \in Nat
         /\ \A j \in 1..Len(wire) : Stream[j] = wire[j]
  BY DEF Typed, Stream

LEMMA Dropped ==
  ASSUME Typed, NEW k \in Nat, Has(k), Drop(k), pushing' = pushing
  PROVE  wire' \in Seq(Units) /\ Len(Stream') \in Nat /\ Without(Stream, k, Stream')
  <1>1. wire \in Seq(Units) /\ pushing \in Seq(Units) /\ Len(wire) \in Nat /\ k <= Len(wire)
    BY DEF Typed, Has
  <1>2. /\ wire' \in Seq(Units) /\ Len(wire') = Len(wire) - k
        /\ \A j \in 1..(Len(wire) - k) : wire'[j] = wire[j + k]
    BY <1>1 DEF Drop
  <1>3. Stream' = wire' \o pushing /\ Stream = wire \o pushing
    BY Zenon DEF Stream
  <1>4. Len(Stream') = Len(Stream) - k /\ Len(Stream') \in Nat
    <2>1. Len(Stream) = Len(wire) + Len(pushing) /\ Len(Stream') = Len(wire') + Len(pushing)
      BY <1>1, <1>2, <1>3, Concatenated, Zenon
    <2>2. Len(pushing) \in Nat
      BY <1>1
    <2> QED
      BY <1>1, <1>2, <2>1, <2>2
  <1>5. ASSUME NEW j \in 1..Len(Stream') PROVE Stream'[j] = Stream[j + k]
    <2>1. CASE j <= Len(wire')
      BY <1>1, <1>2, <1>3, <1>4, <2>1
    <2>2. CASE j > Len(wire')
      BY <1>1, <1>2, <1>3, <1>4, <2>2, SMTT(30)
    <2> QED
      BY <1>1, <1>2, <2>1, <2>2
  <1> QED
    BY <1>2, <1>4, <1>5, Zenon DEF Without

LEMMA RemType == ASSUME ConnInv PROVE Rem \in Nat
  <1>1. ASSUME head \in 1..Len(sent) PROVE Pay(head) \in Nat
    BY <1>1, KindOf, Zenon DEF ConnInv, Pay, PayloadOf, Kind
  <1>2. pc \in {"judge", "payload", "another"} \/ (pc \in {"run", "reply"} /\ trailer = 1)
          => head \in 1..Len(sent)
    BY DEF ConnInv, Typed, Counted
  <1>3. left \in Nat
    BY Zenon DEF ConnInv, Typed
  <1> QED
    BY <1>1, <1>2, <1>3, Zenon DEF Rem

LEMMA AlignedOf ==
  ASSUME ConnInv, ~Over
  PROVE  /\ Follows(Stream, Len(sent), Frames, head, Rem) /\ Within(head, Rem)
         /\ Sized(Len(sent), Frames) /\ Len(sent) \in Nat /\ head \in 0..Len(sent)
         /\ Len(Stream) \in Nat /\ Rem \in Nat
  BY FramesSized, StreamType, RemType, Zenon DEF ConnInv, Aligned, Typed

(* The first k units are payload of the request whose header was read last.*)
LEMMA PayloadNext ==
  ASSUME ConnInv, ~Over, NEW k \in 0..Rem, k <= Len(Stream),
         NEW t, Len(t) \in Nat, Without(Stream, k, t)
  PROVE  /\ \A j \in 1..k : Stream[j] = Part("data", head)
         /\ Follows(t, Len(sent), Frames, head, Rem - k) /\ Within(head, Rem - k)
  <1>1. /\ Follows(Stream, Len(sent), Frames, head, Rem) /\ Within(head, Rem)
        /\ Sized(Len(sent), Frames) /\ Len(sent) \in Nat /\ head \in 0..Len(sent)
        /\ Len(Stream) \in Nat /\ Rem \in Nat
    BY AlignedOf, Zenon
  <1>2. Follows(t, Len(sent), Frames, head, Rem - k)
    BY <1>1, LessFollows
  <1>3. Within(head, Rem - k)
    <2>1. CASE Rem = 0
      BY <1>1, <2>1 DEF Within
    <2>2. CASE Rem > 0
      <3>1. head \in 1..Len(sent) /\ Rem <= Pay(head)
        BY <1>1, <2>2 DEF Within
      <3>2. Pay(head) \in Nat
        BY <3>1, FrameOf, Zenon DEF ConnInv
      <3> QED
        BY <1>1, <3>1, <3>2 DEF Within
    <2> QED
      BY <1>1, <2>1, <2>2
  <1>4. ASSUME NEW j \in 1..k PROVE Stream[j] = Part("data", head)
    <2>1. j \in 1..Rem /\ j <= Len(Stream)
      BY <1>1
    <2>2. head \in 1..Len(sent) /\ Rem <= Pay(head)
      BY <1>1, <2>1 DEF Within
    <2>3. PICK z \in Nat : z = Pay(head) /\ Len(Frames[head]) = 2 + z /\ Framed(Frames[head], head, z)
      BY <2>2, FrameOf, Zenon DEF ConnInv
    <2>4. head > 0 /\ Rem <= Len(Frames[head])
      BY <1>1, <2>2, <2>3
    <2>5. Stream[j] = Frames[head][(Len(Frames[head]) - Rem) + j]
      <3>1. BeginsAs(Stream, Frames[head], Rem)
        BY <1>1, <2>4, RestFollows, Zenon
      <3> QED
        BY <2>1, <3>1, Zenon DEF BeginsAs
    <2>6. (Len(Frames[head]) - Rem) + j \in 3..Len(Frames[head])
      <3>1. PICK m, q : m = Len(Frames[head]) /\ q = Rem
        BY Zenon
      <3>2. q \in Nat /\ j \in 1..q /\ q <= z /\ m = 2 + z
        BY <1>1, <2>1, <2>2, <2>3, <3>1, Zenon
      <3>3. (m - q) + j \in 3..m
        BY <3>2
      <3> QED
        BY <3>1, <3>3, Zenon
    <2> QED
      BY <2>3, <2>5, <2>6, Zenon DEF Framed
  <1> QED
    BY <1>2, <1>3, <1>4, Zenon

LEMMA K_Header ==
  ASSUME ConnInv, NEW l, NEW next, <<l, next>> \in {<<"first", "judge">>, <<"more", "another">>},
         Header(l, next)
  PROVE  ConnInv'
  <1>0. l \in {"first", "more"} /\ next = IF l = "first" THEN "judge" ELSE "another"
    BY Zenon
  <1>1. /\ pc = l /\ ~Over /\ Has(2) /\ Drop(2) /\ head' = wire[1].id
        /\ pc' = IF ~HeaderNext THEN "misframed"
                 ELSE IF ~of(wire[1].id).magic THEN "lost" ELSE next
        /\ UNCHANGED <<running, client, batch, one, taken, replies>>
    BY <1>0, Zenon DEF Header, Goto, Over
  <1>2. /\ wire' \in Seq(Units) /\ Len(Stream') \in Nat /\ Without(Stream, 2, Stream')
    BY <1>1, Dropped, Zenon DEF ConnInv, client
  <1>3. Len(Stream) > 0 /\ wire[1] = Stream[1] /\ wire[2] = Stream[2]
    BY <1>1, StreamType DEF ConnInv, Has
  <1>4. Rem = 0
    BY <1>0, <1>1, Zenon DEF Rem
  <1>5. /\ head < Len(sent) /\ Stream[1] = Part("h1", head + 1) /\ Stream[2] = Part("h2", head + 1)
        /\ Follows(Stream', Len(sent), Frames, head + 1, Pay(head + 1))
        /\ Within(head + 1, Pay(head + 1))
    <2>1. /\ Follows(Stream, Len(sent), Frames, head, 0)
          /\ Sized(Len(sent), Frames) /\ Len(sent) \in Nat /\ head \in 0..Len(sent)
          /\ Len(Stream) \in Nat
      BY <1>1, <1>4, AlignedOf, Zenon
    <2>2. head < Len(sent)
      <3>1. PICK o, s, n : o = 0 /\ s = Stream /\ n = Len(sent)
        BY Zenon
      <3>a. Len(Stream) # 0 /\ 0 \in Nat
        BY <1>3, <2>1
      <3>2. /\ Follows(s, n, Frames, head, o) /\ n \in Nat /\ head \in 0..n /\ o \in Nat
            /\ Len(s) \in Nat /\ Len(s) # o
        BY <2>1, <3>1, <3>a, Zenon
      <3>3. head < n
        BY <3>2, OthersFollow, Zenon
      <3> QED
        BY <3>1, <3>3, Zenon
    <2>3. PICK z \in Nat : /\ z = Pay(head + 1) /\ Len(Frames[head + 1]) = 2 + z
                           /\ Framed(Frames[head + 1], head + 1, z)
      <3>1. head + 1 \in 1..Len(sent)
        BY <2>1, <2>2
      <3> QED
        BY <3>1, FrameOf, Zenon DEF ConnInv
    <2>4. 2 \in Nat /\ 2 <= Len(Frames[head + 1])
      BY <2>3
    <2>5. /\ Starts(Stream, Frames[head + 1])
          /\ Follows(Stream', Len(sent), Frames, head + 1, Len(Frames[head + 1]) - 2)
      BY <1>2, <2>1, <2>2, <2>4, HeadFollows, Zenon
    <2>6. Stream[1] = Part("h1", head + 1) /\ Stream[2] = Part("h2", head + 1)
      BY <2>3, <2>5 DEF Framed, Starts
    <2>7. Len(Frames[head + 1]) - 2 = z /\ Within(head + 1, z)
      BY <2>1, <2>3 DEF Within
    <2> QED
      BY <2>2, <2>3, <2>5, <2>6, <2>7, Zenon
  <1>6. head' = head + 1 /\ HeaderNext /\ pc' \in {"lost", next}
    <2>1. wire[1] = Part("h1", head + 1) /\ wire[2] = Part("h2", head + 1)
      BY <1>3, <1>5, Zenon
    <2>2. wire[1].id = head + 1 /\ HeaderNext
      BY <2>1 DEF HeaderNext, Part
    <2> QED
      BY <1>1, <2>2, Zenon
  <1>a. head' \in 0..Len(sent) /\ pc' \in Labels
    <2>1. head \in 0..Len(sent) /\ Len(sent) \in Nat /\ head < Len(sent)
      BY <1>5, Counters, Zenon DEF ConnInv, Typed
    <2>2. head + 1 \in 0..Len(sent)
      BY <2>1
    <2> QED
      BY <1>0, <1>6, <2>2, Zenon DEF Labels
  <1>7. Typed'
    BY <1>1, <1>2, <1>a, Zenon DEF ConnInv, Typed, Labels, client, batch, one
  <1>8. Aligned'
    <2>1. sent' = sent /\ Frames' = Frames /\ \A i, r : Within(i, r)' <=> Within(i, r)
      BY <1>1, Zenon DEF Frames, of, client, Within, Pay
    <2>2. ~Over' => Rem' = Pay(head + 1)
      BY <1>0, <1>1, <1>6, <2>1, Zenon DEF Over, Rem, Pay, of
    <2> QED
      BY <1>5, <1>6, <2>1, <2>2, Zenon DEF Aligned
  <1>9. Counted'
    <2>1. /\ sent' = sent /\ taken' = taken /\ trailer' = 0 /\ head = Len(taken)
          /\ (\A i \in DOMAIN taken : taken[i] = i) /\ Len(taken) <= Len(sent)
      BY <1>0, <1>1, Zenon DEF ConnInv, Counted, Over, client, batch
    <2>2. head' = Len(taken) + 1 /\ head' > 0
      <3>1. Len(taken) \in Nat
        BY Counters, Zenon DEF ConnInv
      <3> QED
        BY <1>6, <2>1, <3>1
    <2> QED
      BY <1>0, <1>6, <2>1, <2>2, Zenon DEF Counted, Over
  <1>10. Batched'
    BY <1>0, <1>1, <1>6, Zenon DEF ConnInv, Batched, Gathering, nreq, batch
  <1>11. Fits'
    BY <1>0, <1>1, <1>6, Zenon DEF ConnInv, Fits, WithinStaging, Room, nreq, batch
  <1>12. RepliesFramed'
    BY <1>0, <1>1, <1>6, Zenon DEF ConnInv, Typed, RepliesFramed, of, client
  <1> QED
    BY <1>7, <1>8, <1>9, <1>10, <1>11, <1>12, Zenon DEF ConnInv

LEMMA K_TakePayload ==
  ASSUME ConnInv, TakePayload
  PROVE  ConnInv'
  <1> DEFINE k == PayloadOf(of(head))
  <1>1. /\ pc = "payload" /\ ~Over /\ Has(k) /\ Drop(k)
        /\ pc' = IF Payload(k, head) THEN "gather" ELSE "misframed"
        /\ UNCHANGED <<running, client, head, batch, one, taken, replies>>
    BY Zenon DEF TakePayload, Goto, Over
  <1>2. k \in Nat /\ Rem = k
    <2>1. head \in 1..Len(sent)
      <3>1. head > 0
        BY <1>1, Zenon DEF ConnInv, Counted
      <3> QED
        BY <3>1, HeadSent, Zenon
    <2> QED
      BY <1>1, <2>1, KindOf, Zenon DEF ConnInv, Kind, PayloadOf, Rem, Pay
  <1> HIDE DEF k
  <1>3. /\ wire' \in Seq(Units) /\ Len(Stream') \in Nat /\ Without(Stream, k, Stream')
    BY <1>1, <1>2, Dropped, Zenon DEF ConnInv, client
  <1>4. k <= Len(Stream) /\ \A j \in 1..k : wire[j] = Stream[j]
    <2>1. Typed /\ k <= Len(wire)
      BY <1>1, Zenon DEF ConnInv, Has
    <2> QED
      BY <1>2, <2>1, StreamType
  <1>5. /\ \A j \in 1..k : Stream[j] = Part("data", head)
        /\ Follows(Stream', Len(sent), Frames, head, Rem - k) /\ Within(head, Rem - k)
    <2>1. k \in 0..Rem
      BY <1>2
    <2> QED
      BY <1>1, <1>2, <1>3, <1>4, <2>1, PayloadNext, Zenon
  <1>6. pc' = "gather"
    BY <1>1, <1>4, <1>5, Zenon DEF Payload
  <1>7. Typed'
    BY <1>1, <1>3, <1>6, Zenon DEF ConnInv, Typed, Labels, client, batch, one
  <1>8. Aligned'
    <2>1. sent' = sent /\ Frames' = Frames /\ Rem - k = 0 /\ Rem' = 0
      <3>1. k - k = 0
        BY <1>2
      <3> QED
        BY <1>1, <1>2, <1>6, <3>1, Zenon DEF Frames, Pay, of, client, Rem
    <2>2. Within(head, Rem)'
      BY <1>1, <1>5, <2>1, Zenon DEF Within, Pay, of, client
    <2>3. head' = head /\ Len(sent') = Len(sent)
      BY <1>1, <2>1, Zenon
    <2>4. Follows(Stream', Len(sent'), Frames', head', Rem')
      BY <1>5, <2>1, <2>3, Zenon
    <2> QED
      BY <2>2, <2>4, Zenon DEF Aligned
  <1>9. Counted'
    BY <1>1, <1>6, Zenon DEF ConnInv, Counted, Over, of, client, batch
  <1>10. Batched'
    BY <1>1, <1>6, Zenon DEF ConnInv, Batched, Gathering, nreq, batch
  <1>11. Fits'
    BY <1>1, <1>6, Zenon DEF ConnInv, Fits, WithinStaging, nreq, batch
  <1>12. RepliesFramed'
    BY <1>1, <1>6, Zenon DEF ConnInv, Typed, RepliesFramed, of, client
  <1> QED
    BY <1>7, <1>8, <1>9, <1>10, <1>11, <1>12, Zenon DEF ConnInv

LEMMA K_OneChunk ==
  ASSUME ConnInv, OneChunk
  PROVE  ConnInv'
  <1> DEFINE k == Chunk
  <1>1. /\ pc = "one" /\ ~Over /\ of(head).cmd = "WRITE" /\ left > 0 /\ Has(k) /\ Drop(k)
        /\ left' = left - k /\ err' \in (IF err = "ok" THEN {"ok", "ENOSPC", "EIO"} ELSE {err})
        /\ pc' = IF Payload(k, head) THEN "one" ELSE "misframed"
        /\ UNCHANGED <<running, client, head, batch, taken, replies>>
    BY Zenon DEF OneChunk, Goto, Over
  <1>2. k \in Nat /\ k \in 0..left /\ left \in Nat /\ Rem = left
    <2>1. left \in Nat /\ Rem = left
      BY <1>1, Zenon DEF ConnInv, Typed, Rem
    <2>2. k \in 0..left
      BY <2>1, ConnectionAssumption DEF Chunk, Smaller
    <2> QED
      BY <2>1, <2>2
  <1> HIDE DEF k
  <1>3. /\ wire' \in Seq(Units) /\ Len(Stream') \in Nat /\ Without(Stream, k, Stream')
    BY <1>1, <1>2, Dropped, Zenon DEF ConnInv, client
  <1>4. k <= Len(Stream) /\ \A j \in 1..k : wire[j] = Stream[j]
    <2>1. Typed /\ k <= Len(wire)
      BY <1>1, Zenon DEF ConnInv, Has
    <2> QED
      BY <1>2, <2>1, StreamType
  <1>5. /\ \A j \in 1..k : Stream[j] = Part("data", head)
        /\ Follows(Stream', Len(sent), Frames, head, Rem - k) /\ Within(head, Rem - k)
    BY <1>1, <1>2, <1>3, <1>4, PayloadNext, ZenonT(40)
  <1>6. pc' = "one"
    BY <1>1, <1>4, <1>5, Zenon DEF Payload
  <1>7. Typed'
    BY <1>1, <1>2, <1>3, <1>6 DEF ConnInv, Typed, Labels, Errors, client, batch
  <1>8. Aligned'
    <2>1. sent' = sent /\ Frames' = Frames /\ Rem' = Rem - k
      BY <1>1, <1>2, <1>6, Zenon DEF Frames, Pay, of, client, Rem
    <2>2. Within(head, Rem)'
      BY <1>1, <1>5, <2>1, Zenon DEF Within, Pay, of, client
    <2>3. head' = head /\ Len(sent') = Len(sent)
      BY <1>1, <2>1, Zenon
    <2>4. Follows(Stream', Len(sent'), Frames', head', Rem')
      BY <1>5, <2>1, <2>3, Zenon
    <2> QED
      BY <2>2, <2>4, Zenon DEF Aligned
  <1>9. Counted'
    BY <1>1, <1>6, Zenon DEF ConnInv, Counted, Over, of, client, batch
  <1>10. Batched'
    BY <1>1, <1>6, Zenon DEF ConnInv, Batched, Gathering, nreq, of, client, batch
  <1>11. Fits'
    BY <1>1, <1>6, Zenon DEF ConnInv, Fits, WithinStaging, nreq, batch
  <1>12. RepliesFramed'
    BY <1>1, <1>6, Zenon DEF ConnInv, Typed, RepliesFramed, of, client
  <1> QED
    BY <1>7, <1>8, <1>9, <1>10, <1>11, <1>12, Zenon DEF ConnInv

LEMMA K_Push ==
  ASSUME ConnInv, Push
  PROVE  ConnInv'
  <1>1. /\ pushing # <<>> /\ wire' = Append(wire, Head(pushing)) /\ pushing' = Tail(pushing)
        /\ UNCHANGED <<running, closed, sent, pc, head, batch, one, taken, replies>>
    BY Zenon DEF Push
  <1>2. /\ wire' \in Seq(Units) /\ Len(wire') = Len(wire) + 1
        /\ \A j \in 1..Len(wire) : wire'[j] = wire[j]
        /\ wire'[Len(wire) + 1] = pushing[1]
        /\ pushing' \in Seq(Units) /\ Len(pushing') = Len(pushing) - 1
        /\ \A j \in 1..Len(pushing') : pushing'[j] = pushing[j + 1]
        /\ wire \in Seq(Units) /\ pushing \in Seq(Units) /\ Len(pushing) \in Nat
        /\ Len(wire) \in Nat /\ Len(pushing) > 0
    <2>1. wire \in Seq(Units) /\ pushing \in Seq(Units)
      BY Zenon DEF ConnInv, Typed
    <2>2. Len(pushing) \in Nat /\ Len(wire) \in Nat /\ Len(pushing) > 0 /\ pushing[1] \in Units
      BY <1>1, <2>1
    <2>3. /\ pushing' \in Seq(Units) /\ Len(pushing') = Len(pushing) - 1
          /\ \A j \in 1..Len(pushing') : pushing'[j] = pushing[j + 1]
      BY <1>1, <2>1, <2>2
    <2>4. wire' = Append(wire, pushing[1])
      BY <1>1, <2>1, <2>2
    <2>5. /\ wire' \in Seq(Units) /\ Len(wire') = Len(wire) + 1
          /\ \A j \in 1..Len(wire) : wire'[j] = wire[j]
          /\ wire'[Len(wire) + 1] = pushing[1]
      BY <2>1, <2>2, <2>4, Appended
    <2> QED
      BY <2>1, <2>2, <2>3, <2>5, Zenon
  <1>3. Len(Stream') \in Nat /\ Without(Stream, 0, Stream')
    <2>1. Len(Stream) = Len(wire) + Len(pushing) /\ Len(Stream') = Len(wire') + Len(pushing')
      BY <1>2, Concatenated, Zenon DEF Stream
    <2>2. Len(Stream') = Len(Stream) - 0 /\ Len(Stream') \in Nat
      BY <1>2, <2>1
    <2>3. ASSUME NEW j \in 1..Len(Stream') PROVE Stream'[j] = Stream[j + 0]
      <3>1. CASE j <= Len(wire)
        BY <1>2, <2>1, <3>1 DEF Stream
      <3>2. CASE j = Len(wire) + 1
        BY <1>2, <2>1, <3>2 DEF Stream
      <3>3. CASE j > Len(wire) + 1
        <4>1. Stream'[j] = pushing'[j - Len(wire')]
          BY <1>2, <2>1, <3>3 DEF Stream
        <4>2. Stream[j] = pushing[j - Len(wire)]
          BY <1>2, <2>1, <3>3 DEF Stream
        <4>3. j - Len(wire') \in 1..Len(pushing') /\ (j - Len(wire')) + 1 = j - Len(wire) /\ j + 0 = j
          BY <1>2, <2>1, <3>3
        <4> QED
          BY <1>2, <4>1, <4>2, <4>3, Zenon
      <3> QED
        BY <1>2, <2>2, <3>1, <3>2, <3>3, SMTT(30)
    <2> QED
      BY <2>2, <2>3, Zenon DEF Without
  <1>4. Typed'
    BY <1>1, <1>2, Zenon DEF ConnInv, Typed, batch, one
  <1>5. Aligned'
    <2>1. UNCHANGED <<Frames, Over, Rem, sent, head>>
      BY <1>1, Zenon DEF Frames, Over, Rem, Pay, of, batch, one
    <2>2. ASSUME ~Over PROVE Follows(Stream', Len(sent), Frames, head, Rem) /\ Within(head, Rem)
      <3>1. Rem \in Nat
        BY RemType, Zenon DEF ConnInv
      <3>2. 0 \in Nat /\ Rem - 0 = Rem
        BY <2>2, <3>1, AlignedOf
      <3> QED
        BY <1>3, <2>2, <3>1, <3>2, AlignedOf, LessFollows, Zenon
    <2>3. Within(head, Rem)' <=> Within(head, Rem)
      BY <1>1, <2>1, Zenon DEF Within, Pay, of
    <2> QED
      BY <2>1, <2>2, <2>3, Zenon DEF Aligned
  <1>6. Counted'
    BY <1>1, Zenon DEF ConnInv, Counted, Over, of, batch
  <1>7. Batched'
    BY <1>1, Zenon DEF ConnInv, Batched, Gathering, nreq, of, Outcomes, batch, one
  <1>8. Fits'
    BY <1>1, Zenon DEF ConnInv, Fits, WithinStaging, Room, nreq, batch
  <1>9. RepliesFramed'
    BY <1>1, Zenon DEF ConnInv, RepliesFramed, of
  <1> QED
    BY <1>4, <1>5, <1>6, <1>7, <1>8, <1>9, Zenon DEF ConnInv

LEMMA K_Ask ==
  ASSUME ConnInv, NEW kind \in Kinds, Ask(kind)
  PROVE  ConnInv'
  <1>0. PICK n \in Nat : n = Len(sent)
    BY DEF ConnInv, Typed
  <1> DEFINE f == Frame(kind, n + 1)
  <1>1. /\ pushing = <<>> /\ sent' = Append(sent, kind) /\ pushing' = f
        /\ UNCHANGED <<running, closed, wire, pc, head, batch, one, taken, replies>>
    BY <1>0, Zenon DEF Ask
  <1>2. n \in Nat /\ head \in 0..n /\ sent \in Seq(Kinds) /\ DOMAIN sent = 1..n
    BY <1>0 DEF ConnInv, Typed
  <1>3. /\ sent' \in Seq(Kinds) /\ Len(sent') = n + 1
        /\ \A i \in 1..n : of(i)' = of(i)
        /\ of(n + 1)' = kind
    <2>1. /\ sent' \in Seq(Kinds) /\ Len(sent') = n + 1
          /\ \A i \in 1..n : sent'[i] = sent[i]
          /\ sent'[n + 1] = kind
      BY <1>0, <1>1, <1>2, Appended
    <2> QED
      BY <2>1, Zenon DEF of
  <1>4. f \in Seq(Units) /\ Framed(f, n + 1, PayloadOf(kind))
    BY <1>2, FrameIs
  <1> HIDE DEF f
  <1>5. Typed'
    <2>1. head' \in 0..Len(sent')
      <3>1. head' = head /\ head \in 0..n /\ Len(sent') = n + 1
        BY <1>1, <1>2, <1>3, Zenon
      <3> QED
        BY <1>2, <3>1
    <2> QED
      BY <1>1, <1>3, <1>4, <2>1, Zenon DEF ConnInv, Typed, batch, one
  <1>a. Len(taken) \in Nat /\ Len(replies) \in Nat /\ DOMAIN replies = 1..Len(replies)
        /\ DOMAIN reqs = 1..nreq /\ nreq \in Nat
    BY DEF ConnInv, Typed, nreq
  <1>6. Aligned'
    <2>1. UNCHANGED <<Over, head>> /\ (~Over => Rem' = Rem)
      <3>1. head # 0 => of(head)' = of(head)
        BY <1>1, <1>2, <1>3 DEF of
      <3>2. pc \in {"judge", "another", "payload", "one"} \/ trailer # 0 => head # 0
        <4>1. pc \in {"judge", "another", "payload", "one"} \/ trailer # 0 => head > 0
          BY Zenon DEF ConnInv, Counted
        <4> QED
          BY <1>2, <4>1
      <3> QED
        BY <1>1, <3>1, <3>2 DEF Over, Rem, Pay, PayloadOf, batch, one
    <2>2. ASSUME ~Over PROVE Follows(Stream', n + 1, Frames', head, Rem) /\ Within(head, Rem)'
      <3>1. /\ Follows(Stream, n, Frames, head, Rem) /\ Within(head, Rem)
            /\ Sized(n, Frames) /\ Len(Stream) \in Nat
        BY <1>0, <2>2, AlignedOf, Zenon
      <3>2. Frames'[n + 1] = f /\ \A i \in 1..n : Frames'[i] = Frames[i]
        <4>1. \A i \in 1..(n + 1) : Frames'[i] = Frame(of(i)', i)
          BY <1>3, Zenon DEF Frames, Frame
        <4>2. \A i \in 1..n : Frames[i] = Frame(of(i), i)
          BY <1>0, Zenon DEF Frames
        <4>3. n + 1 \in 1..(n + 1) /\ \A i \in 1..n : i \in 1..(n + 1)
          BY <1>2
        <4> QED
          BY <1>3, <4>1, <4>2, <4>3, Zenon DEF f
      <3>a. Within(head, Rem)'
        <4>1. head # 0 => of(head)' = of(head)
          BY <1>1, <1>2, <1>3 DEF of
        <4>2. head' = head /\ Rem' = Rem
          BY <2>1, <2>2, Zenon
        <4> QED
          BY <1>2, <3>1, <4>1, <4>2 DEF Within, Pay, PayloadOf
      <3>3. OneMore(n, Frames, Frames')
        <4>1. Len(f) \in Nat
          BY <1>4
        <4> QED
          BY <3>1, <3>2, <4>1, Zenon DEF OneMore, Sized
      <3>4. Rem \in Nat
        BY RemType, Zenon DEF ConnInv
      <3>5. Joined(Stream, f, Stream')
        <4>1. Stream' = wire \o f /\ Stream = wire /\ wire \in Seq(Units)
          BY <1>1 DEF Stream, ConnInv, Typed
        <4> QED
          BY <1>4, <4>1 DEF Joined
      <3> QED
        BY <1>2, <3>1, <3>2, <3>3, <3>4, <3>5, <3>a, OneMoreFollows, Zenon
    <2> QED
      BY <1>3, <2>1, <2>2, Zenon DEF Aligned
  <1>7. Counted'
    <2>1. trailer # 0 => head \in 1..n
      <3>1. trailer # 0 => head > 0
        BY Zenon DEF ConnInv, Counted
      <3> QED
        BY <1>2, <3>1
    <2>2. UNCHANGED <<Over, taken, pc, trailer, head>>
      BY <1>1, Zenon DEF Over, batch
    <2>3. Len(taken) <= n + 1
      BY <1>0, <1>2, <1>a DEF ConnInv, Counted
    <2> QED
      BY <1>3, <2>1, <2>2, <2>3, Zenon DEF ConnInv, Counted
  <1>8. Batched'
    <2>1. UNCHANGED <<nreq, nops, replies, reqs, errs, taken, pc, head, left, err>>
      BY <1>1, Zenon DEF nreq, batch, one
    <2>2. pc = "reply" => \A i \in 1..nreq : Outcomes(i)' = Outcomes(i)
      <3>1. ASSUME pc = "reply", NEW i \in 1..nreq PROVE reqs[i] \in 1..n
        <4>1. reqs[i] = Len(taken) - nreq + i /\ nreq <= Len(taken)
          BY <1>a, Zenon DEF ConnInv, Batched
        <4>2. Len(taken) <= n
          BY <1>0, <3>1, Zenon DEF ConnInv, Counted, Over
        <4> QED
          BY <1>2, <1>a, <4>1, <4>2
      <3> QED
        BY <1>3, <2>1, <3>1, Zenon DEF Outcomes
    <2>3. pc = "one" => of(head)' = of(head)
      <3>1. pc = "one" => head > 0
        BY Zenon DEF ConnInv, Counted
      <3>2. pc = "one" => head \in 1..n
        BY <1>2, <3>1
      <3> QED
        BY <1>3, <2>1, <3>2, Zenon DEF of
    <2> QED
      BY <2>1, <2>2, <2>3, Zenon DEF ConnInv, Batched, Gathering
  <1>9. Fits'
    BY <1>1, Zenon DEF ConnInv, Fits, WithinStaging, Room, nreq, batch
  <1>10. RepliesFramed'
    <2>1. \A i \in DOMAIN replies : replies[i].id \in 1..n
      <3>1. Len(replies) <= n
        <4>1. Len(replies) <= Len(taken) /\ Len(taken) <= n
          BY <1>0, Zenon DEF ConnInv, Counted, Batched
        <4> QED
          BY <1>2, <1>a, <4>1
      <3>2. \A i \in DOMAIN replies : replies[i].id = i
        BY Zenon DEF ConnInv, Batched
      <3> QED
        BY <1>2, <1>a, <3>1, <3>2
    <2> QED
      BY <1>1, <1>3, <2>1, Zenon DEF ConnInv, RepliesFramed
  <1> QED
    BY <1>5, <1>6, <1>7, <1>8, <1>9, <1>10, Zenon DEF ConnInv

-----------------------------------------------------------------------------
(* The requests of a connection.                                           *)

LEMMA ServeKeeps ==
  ASSUME ConnInv, handle_client
  PROVE  ConnInv'
  BY K_Top, K_LoseFirst, K_Header, K_First, K_LosePayload, K_TakePayload, K_Gather, K_LoseMore,
     K_Another, K_Run, K_SendReply, K_EndFlush, K_LoseOne, K_OneChunk, K_OneReply
  DEF handle_client

LEMMA K_Still ==
  ASSUME ConnInv, UNCHANGED vars
  PROVE  ConnInv'
  <1>a. Typed'
    BY Zenon DEF ConnInv, Typed, vars, client, batch, one
  <1>b. Counted'
    BY Zenon DEF ConnInv, Counted, Over, of, vars, client, batch, one
  <1>c. Batched'
    BY Zenon DEF ConnInv, Batched, Over, nreq, of, Outcomes, vars, client, batch, one
  <1>d. Fits'
    BY Zenon DEF ConnInv, Fits, WithinStaging, Room, nreq, of, vars, client, batch, one
  <1>e. RepliesFramed'
    BY Zenon DEF ConnInv, RepliesFramed, Over, nreq, of, vars, client, batch, one
  <1>2. Untouched /\ (~Over' => ~Over /\ Rem' = Rem)
    BY Zenon DEF Over, Rem, Pay, of, Untouched, vars, client, batch, one
  <1>3. Aligned'
    BY <1>2, StillAligned, Zenon DEF ConnInv
  <1> QED
    BY <1>a, <1>b, <1>c, <1>d, <1>e, <1>3, Zenon DEF ConnInv

=============================================================================
