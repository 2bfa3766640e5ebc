-------------------------- MODULE LogCaptureProofs --------------------------
(***************************************************************************)
(* Proofs about the capture of output for any sizes of the ring, of the    *)
(* pipes and of a transfer, any width of write_pos, any number of bytes    *)
(* and of runs, and with or without failing splices.                       *)
(***************************************************************************)
EXTENDS LogCapture, RingProofs, FiniteSetTheorems

-----------------------------------------------------------------------------
(* The inductive invariant *)

Byte == Streams \X Nat

CaptureTypes ==
    /\ mem \in [0..(Capacity - 1) -> Byte \cup {NoByte}]
    /\ write_pos \in 0..(PosLimit - 1)
    /\ child \in {"live", "exited", "none"}
    /\ pipe \in [Streams -> Seq(Byte)]
    /\ edge \subseteq Streams /\ failed \subseteq Streams
    /\ written \in [Streams -> Nat]
    /\ atStart \in [Streams -> Nat] /\ atExit \in [Streams -> Nat]
    /\ at \in {Polling} \cup ({"splice", "drain"} \X Streams)
    /\ log \in Seq(Byte)

(* The pipes are open while there is a child to poll, and drained only after
   it has exited. *)
Stages ==
    /\ child = "none" => at = Polling /\ pipe = Closed /\ edge = {}
    /\ at[1] = "drain" => child = "exited"

(* How many bytes of fd have left its pipe. *)
Taken(fd) == written[fd] - Len(pipe[fd])

(* A pipe holds the last bytes that were written to it. *)
PipeHolds(fd) ==
    /\ atStart[fd] <= Taken(fd)
    /\ \A k \in 1..Len(pipe[fd]) : pipe[fd][k] = <<fd, Taken(fd) + k>>

(* The log has no byte that is still to come, and all of this run that have
   left the pipe. *)
LogHolds(fd) ==
    /\ \A i \in 1..Len(log) : log[i][1] = fd => log[i][2] <= Taken(fd)
    /\ child # "none" =>
          \A n \in (atStart[fd] + 1)..Taken(fd) :
             \E i \in 1..Len(log) : log[i] = <<fd, n>>

(* What the child wrote is out of stdout once that has been drained, whatever
   its descendants go on to write. *)
Drained(fd) ==
    /\ child = "exited" => atExit[fd] <= written[fd]
    /\ at = <<"drain", "stderr">> /\ fd = "stdout" /\ fd \notin failed
          => atExit[fd] <= Taken(fd)

(* No edge is lost between two loops of splices. *)
EdgeKept(fd) ==
    child # "none" /\ at[1] # "drain" /\ fd \notin failed /\ pipe[fd] # <<>>
       => fd \in edge \/ at = <<"splice", fd>>

CaptureInv ==
    /\ CaptureTypes /\ Stages /\ RingVerbatim /\ StreamsInOrder /\ NoOutputLost
    /\ \A fd \in Streams :
          PipeHolds(fd) /\ LogHolds(fd) /\ Drained(fd) /\ EdgeKept(fd)

(* What echo_logs prints are the bytes that the same splice adds to the log. *)
EchoesWhatIsLogged ==
    [][echoed' # echoed =>
          \E bs \in Seq(Byte) : echoed' = echoed \o bs /\ log' = log \o bs]_vars

-----------------------------------------------------------------------------
(* What a splice does *)

(* n bytes leave the pipe for the log, no more than fit before the end of the
   memory. *)
LEMMA SpliceFacts ==
    ASSUME CaptureTypes, NEW fd \in Streams, NEW n \in Nat, Splice(fd, n)
    PROVE  \E bs \in Seq(Byte) :
              /\ Len(bs) = n /\ n > 0 /\ n <= Len(pipe[fd])
              /\ n <= Capacity - (write_pos % Capacity)
              /\ \A k \in 1..n : bs[k] = pipe[fd][k]
              /\ RingWrite(bs) /\ log' = log \o bs
              /\ pipe' \in [Streams -> Seq(Byte)]
              /\ \A g \in Streams \ {fd} : pipe'[g] = pipe[g]
              /\ Len(pipe'[fd]) = Len(pipe[fd]) - n
              /\ \A k \in 1..(Len(pipe[fd]) - n) : pipe'[fd][k] = pipe[fd][n + k]
              /\ UNCHANGED <<child, edge, outVars, at, failed>>
<1> DEFINE bs == SubSeq(pipe[fd], 1, n)
           rest == SubSeq(pipe[fd], n + 1, Len(pipe[fd]))
<1>1. /\ n \in 1..Clamp(write_pos, MaxXfer) /\ n <= Len(pipe[fd])
      /\ RingWrite(bs) /\ log' = log \o bs
      /\ pipe' = [pipe EXCEPT ![fd] = rest]
      /\ UNCHANGED <<child, edge, outVars, at, failed>>
  BY DEF Splice
<1>2. write_pos \in Nat /\ MaxXfer \in Nat /\ pipe[fd] \in Seq(Byte)
  BY CapacityAssumption, CaptureAssumption DEF CaptureTypes
<1>3. n > 0 /\ n <= Capacity - (write_pos % Capacity)
  <2>1. /\ Clamp(write_pos, MaxXfer) <= Capacity - (write_pos % Capacity)
        /\ Clamp(write_pos, MaxXfer) \in 0..MaxXfer
    BY <1>2, ClampFacts, Zenon
  <2>2. PICK w \in 0..(Capacity - 1) : w = write_pos % Capacity
    BY <1>2, Place
  <2> QED
    BY <1>1, <1>2, <2>1, <2>2, CapacityAssumption
<1>4. /\ bs \in Seq(Byte) /\ Len(bs) = n /\ \A k \in 1..n : bs[k] = pipe[fd][k]
  BY <1>1, <1>2
<1>5. /\ rest \in Seq(Byte) /\ Len(rest) = Len(pipe[fd]) - n
      /\ \A k \in 1..(Len(pipe[fd]) - n) : rest[k] = pipe[fd][n + k]
  <2>1. PICK s \in Seq(Byte) : s = pipe[fd]
    BY <1>2
  <2>2. PICK l \in Nat : l = Len(s)
    OBVIOUS
  <2>3. n <= l
    BY <1>1, <2>1, <2>2
  <2>4. /\ SubSeq(s, n + 1, l) \in Seq(Byte) /\ Len(SubSeq(s, n + 1, l)) = l - n
        /\ \A k \in 1..(l - n) : SubSeq(s, n + 1, l)[k] = s[n + k]
    BY <2>2, <2>3
  <2> QED
    BY <2>1, <2>2, <2>4
<1> HIDE DEF bs, rest
<1>6. /\ pipe' \in [Streams -> Seq(Byte)] /\ pipe'[fd] = rest
      /\ \A g \in Streams \ {fd} : pipe'[g] = pipe[g]
  BY <1>1, <1>5 DEF CaptureTypes
<1> QED
  BY <1>1, <1>3, <1>4, <1>5, <1>6

(* A range of the memory that holds bs shows bs. *)
LEMMA ShowsWhatIsThere ==
    ASSUME NEW S, NEW m \in [0..(Capacity - 1) -> S], NEW w \in Nat,
           NEW bs \in Seq(S), Len(bs) <= Capacity - (w % Capacity),
           \A k \in 0..(Len(bs) - 1) : m[(w + k) % Capacity] = bs[k + 1]
    PROVE  View(m, w, Len(bs)) = bs
<1>1. Len(bs) \in Nat
  OBVIOUS
<1>2. /\ View(m, w, Len(bs)) \in Seq(S) /\ Len(View(m, w, Len(bs))) = Len(bs)
      /\ \A k \in 1..Len(bs) : View(m, w, Len(bs))[k] = m[(w + k - 1) % Capacity]
  BY <1>1, ViewFacts, ZenonT(60)
<1>3. PICK v \in Seq(S) : v = View(m, w, Len(bs))
  BY <1>2
<1>4. ASSUME NEW k \in 1..Len(bs) PROVE v[k] = bs[k]
  <2>1. k - 1 \in 0..(Len(bs) - 1) /\ (k - 1) + 1 = k /\ w + (k - 1) = w + k - 1
    BY <1>1
  <2>2. m[(w + (k - 1)) % Capacity] = bs[(k - 1) + 1]
    BY <2>1
  <2> QED
    BY <1>2, <1>3, <2>1, <2>2
<1>5. v = bs
  BY <1>2, <1>3, <1>4, SeqEqual
<1> QED
  BY <1>3, <1>5

(* A remainder is no more than what it is a remainder of. *)
LEMMA ModAtMost ==
    ASSUME NEW p \in Nat \ {0}, NEW x \in Nat
    PROVE  x % p <= x /\ x % p \in 0..(p - 1)
<1>0. x \in Int
  OBVIOUS
<1>1. PICK q \in Int, r \in 0..(p - 1) : x = p * q + r /\ x % p = r
  BY <1>0, Divides, Zenon
<1>2. CASE q >= 0
  <2>1. p * q >= 0
    BY <1>2
  <2> QED
    BY <1>1, <2>1
<1>3. CASE q <= -1
  <2>1. p * (-1 - q) >= 0
    BY <1>3
  <2>2. p * (-1 - q) = -p - p * q
    OBVIOUS
  <2> QED
    BY <1>1, <2>1, <2>2
<1> QED
  BY <1>2, <1>3

(* The ring holds what the log has gained, write_pos wraps at the end of the
   memory or not at all, and what is shown of it is what came in. *)
LEMMA RingSpliced ==
    ASSUME CaptureTypes, RingVerbatim, NEW bs \in Seq(Byte), RingWrite(bs),
           Len(bs) <= Capacity - (write_pos % Capacity), log' = log \o bs
    PROVE  /\ mem' \in [0..(Capacity - 1) -> Byte \cup {NoByte}]
           /\ write_pos' \in 0..(PosLimit - 1) /\ RingVerbatim'
           /\ View(mem', write_pos, Len(bs)) = bs
<1>1. PICK n \in Nat : n = Len(bs)
  OBVIOUS
<1>2. PICK L \in Nat : L = Len(log)
  BY DEF CaptureTypes
<1>3. /\ mem \in [0..(Capacity - 1) -> Byte \cup {NoByte}]
      /\ write_pos \in 0..(PosLimit - 1) /\ write_pos \in Nat
      /\ PosLimit \in Nat \ {0} /\ Capacity \in Nat \ {0}
  BY CapacityAssumption DEF CaptureTypes
<1>4. bs \in Seq(Byte \cup {NoByte})
  <2>1. Byte \subseteq Byte \cup {NoByte}
    OBVIOUS
  <2> QED
    BY <2>1, SeqMonotonic
<1>5. /\ mem' \in [0..(Capacity - 1) -> Byte \cup {NoByte}]
      /\ \A k \in 0..(n - 1) : mem'[(write_pos + k) % Capacity] = bs[k + 1]
      /\ \A i \in Nat : i < write_pos /\ i >= write_pos + n - Capacity
            => mem'[i % Capacity] = mem[i % Capacity]
  BY <1>1, <1>3, <1>4, WriteFacts
<1>6. write_pos + n <= PosLimit
  BY <1>1, <1>3, ModWithin, WidthAssumption
<1>7. write_pos' = (write_pos + n) % PosLimit
  BY <1>1 DEF RingWrite
<1>8. write_pos = L % PosLimit
  BY <1>2 DEF RingVerbatim
<1>9. /\ log' \in Seq(Byte) /\ Len(log') = L + n
      /\ \A i \in 1..L : log'[i] = log[i]
      /\ \A k \in 1..n : log'[L + k] = bs[k]
  <2>1. log \in Seq(Byte)
    BY DEF CaptureTypes
  <2>2. PICK l \in Seq(Byte) : l = log
    BY <2>1
  <2>3. /\ l \o bs \in Seq(Byte) /\ Len(l \o bs) = Len(l) + Len(bs)
        /\ \A i \in 1..(Len(l) + Len(bs)) :
              (l \o bs)[i] = IF i <= Len(l) THEN l[i] ELSE bs[i - Len(l)]
    BY ConcatProperties
  <2>4. log' = l \o bs /\ Len(l) = L
    BY <1>2, <2>2
  <2>5. PICK m : m = l \o bs
    OBVIOUS
  <2>6. /\ m \in Seq(Byte) /\ Len(m) = L + n
        /\ \A i \in 1..(L + n) : m[i] = IF i <= L THEN l[i] ELSE bs[i - L]
    BY <1>1, <2>3, <2>4, <2>5
  <2>7. \A i \in 1..L : m[i] = l[i]
    BY <2>6
  <2>8. \A k \in 1..n : m[L + k] = bs[k]
    <3> SUFFICES ASSUME NEW k \in 1..n PROVE m[L + k] = bs[k]
      OBVIOUS
    <3>1. L + k \in 1..(L + n) /\ ~(L + k <= L) /\ (L + k) - L = k
      OBVIOUS
    <3> QED
      BY <2>6, <3>1
  <2> QED
    BY <2>2, <2>4, <2>5, <2>6, <2>7, <2>8
<1>10. write_pos' = (L + n) % PosLimit
  BY <1>3, <1>7, <1>8, ModAdd
<1>11. write_pos' \in 0..(PosLimit - 1) /\ write_pos <= L
  <2>1. PICK x \in Nat : x = write_pos + n
    BY <1>3
  <2>2. x % PosLimit \in 0..(PosLimit - 1)
    BY <1>3, ModAtMost, Zenon
  <2>3. L % PosLimit <= L
    BY <1>3, ModAtMost, Zenon
  <2> QED
    BY <1>7, <1>8, <2>1, <2>2, <2>3
<1>12. ASSUME NEW i \in StartPos'..(write_pos' - 1)
       PROVE  mem'[i % Capacity] = log'[Len(log') - write_pos' + i + 1]
  <2>1. CASE write_pos + n = PosLimit
    <3>1. write_pos' = 0
      <4>1. PosLimit = PosLimit * 1 + 0 /\ PosLimit \in Int /\ 0 \in 0..(PosLimit - 1)
        BY <1>3
      <4>2. PosLimit % PosLimit = 0
        BY <1>3, <4>1, ModIs
      <4> QED
        BY <1>7, <2>1, <4>2
    <3>2. StartPos' = 0
      BY <1>3, <3>1 DEF StartPos
    <3> QED
      BY <3>1, <3>2
  <2>2. CASE write_pos + n < PosLimit
    <3> DEFINE a == [j \in Nat |-> mem[j % Capacity]]
               b == [j \in Nat |-> mem'[j % Capacity]]
    <3>1. write_pos' = write_pos + n
      <4>1. write_pos + n \in 0..(PosLimit - 1)
        BY <1>3, <2>2
      <4>2. (write_pos + n) % PosLimit = write_pos + n
        BY <1>3, <4>1, ModSmall
      <4> QED
        BY <1>7, <4>2
    <3>2. ASSUME NEW k \in 0..(n - 1) PROVE b[write_pos + k] = log'[L + (k + 1)]
      <4>1. write_pos + k \in Nat /\ k + 1 \in 1..n
        BY <1>3
      <4>2. b[write_pos + k] = mem'[(write_pos + k) % Capacity]
        BY <4>1
      <4> QED
        BY <1>5, <1>9, <4>1, <4>2
    <3>3. ASSUME NEW j \in Nat, j < write_pos /\ j >= write_pos + n - Capacity
          PROVE  b[j] = a[j]
      BY <1>5, <3>3
    <3>4. ASSUME NEW j \in Nat, j < write_pos /\ j >= write_pos - Capacity
          PROVE  a[j] = log[L - write_pos + j + 1]
      <4>1. j \in StartPos..(write_pos - 1)
        BY <1>3, <3>4 DEF StartPos
      <4>2. mem[j % Capacity] = log[L - write_pos + j + 1]
        BY <1>2, <4>1 DEF RingVerbatim
      <4> QED
        BY <4>2
    <3>5. i \in Nat /\ i < write_pos + n /\ i >= write_pos + n - Capacity
      <4>1. /\ write_pos' > Capacity => StartPos' = write_pos' - Capacity
            /\ ~(write_pos' > Capacity) => StartPos' = 0
        BY DEF StartPos
      <4>2. PICK w \in Nat : w = write_pos'
        BY <1>3, <3>1
      <4>3. PICK t \in Nat : t = StartPos'
        BY <1>3, <4>1, <4>2
      <4>4. i \in t..(w - 1)
        BY <4>2, <4>3, Zenon
      <4>5. (w > Capacity => t = w - Capacity) /\ (~(w > Capacity) => t = 0)
        BY <4>1, <4>2, <4>3, Zenon
      <4>6. i \in Nat /\ i < w /\ i >= w - Capacity
        BY <1>3, <4>4, <4>5
      <4>7. w = write_pos + n
        BY <3>1, <4>2, Zenon
      <4> QED
        BY <1>3, <4>6, <4>7
    <3>6. b[i] = mem'[i % Capacity]
      BY <3>5
    <3> HIDE DEF a, b
    <3>7. PICK l : l = log
      OBVIOUS
    <3>8. PICK m : m = log'
      OBVIOUS
    <3>9. PICK f : f = b
      OBVIOUS
    <3>10. PICK g : g = a
      OBVIOUS
    <3>11. PICK w \in Nat : w = write_pos
      BY <1>3
    <3>12. \A k \in 0..(n - 1) : f[w + k] = m[L + (k + 1)]
      BY <3>2, <3>8, <3>9, <3>11
    <3>13. \A j \in Nat : j < w /\ j >= w + n - Capacity => f[j] = g[j]
      BY <3>3, <3>9, <3>10, <3>11
    <3>14. \A j \in 1..L : m[j] = l[j]
      BY <1>9, <3>7, <3>8
    <3>15. \A j \in Nat : j < w /\ j >= w - Capacity => g[j] = l[L - w + j + 1]
      BY <3>4, <3>7, <3>10, <3>11
    <3>16. w <= L /\ Capacity \in Nat
      BY <1>3, <1>11, <3>11
    <3>17. i \in Nat /\ i < w + n /\ i >= w + n - Capacity
      BY <3>5, <3>11
    <3>18. f[i] = m[L - w + i + 1]
      <4>1. CASE i >= w
        <5>1. PICK k \in 0..(n - 1) : i = w + k
          BY <3>17, <4>1
        <5>2. L - w + i + 1 = L + (k + 1)
          BY <5>1
        <5> QED
          BY <3>12, <5>1, <5>2
      <4>2. CASE i < w
        <5>1. f[i] = g[i]
          BY <3>13, <3>17, <4>2
        <5>2. g[i] = l[L - w + i + 1]
          BY <3>15, <3>16, <3>17, <4>2
        <5>3. L - w + i + 1 \in 1..L
          BY <3>16, <3>17, <4>2
        <5> QED
          BY <3>14, <5>1, <5>2, <5>3
      <4> QED
        BY <3>17, <4>1, <4>2
    <3>19. Len(log') - write_pos' + i + 1 = L - w + i + 1
      <4>1. PICK x \in Nat : x = Len(log') /\ x = L + n
        BY <1>9
      <4>2. PICK y \in Nat : y = write_pos' /\ y = w + n
        BY <3>1, <3>11
      <4>3. x - y + i + 1 = L - w + i + 1
        BY <3>5, <4>1, <4>2
      <4> QED
        BY <4>1, <4>2, <4>3
    <3> QED
      BY <3>6, <3>8, <3>9, <3>18, <3>19
  <2>3. write_pos + n = PosLimit \/ write_pos + n < PosLimit
    BY <1>3, <1>6
  <2> QED
    BY <2>1, <2>2, <2>3, Zenon
<1>13. RingVerbatim'
  <2>1. write_pos' = Len(log') % PosLimit
    BY <1>9, <1>10
  <2> QED
    BY <1>12, <2>1 DEF RingVerbatim
<1>14. View(mem', write_pos, n) = bs
  <2>1. PICK m \in [0..(Capacity - 1) -> Byte \cup {NoByte}] : m = mem'
    BY <1>5
  <2>2. PICK w \in Nat : w = write_pos
    BY <1>3
  <2>3. Len(bs) <= Capacity - (w % Capacity)
    BY <2>2
  <2>4. \A k \in 0..(Len(bs) - 1) : m[(w + k) % Capacity] = bs[k + 1]
    BY <1>1, <1>5, <2>1, <2>2
  <2>5. View(m, w, Len(bs)) = bs
    BY <1>4, <2>3, <2>4, ShowsWhatIsThere
  <2> QED
    BY <1>1, <2>1, <2>2, <2>5
<1> QED
  BY <1>1, <1>5, <1>11, <1>13, <1>14

-----------------------------------------------------------------------------
(* Every step preserves the invariant *)

(* The counts behind Taken. *)
LEMMA TakenFacts ==
    ASSUME CaptureInv, NEW fd \in Streams
    PROVE  /\ written[fd] \in Nat /\ atStart[fd] \in Nat /\ atExit[fd] \in Nat
           /\ pipe[fd] \in Seq(Byte) /\ Len(pipe[fd]) \in Nat
           /\ Taken(fd) \in Nat /\ Taken(fd) = written[fd] - Len(pipe[fd])
           /\ log \in Seq(Byte) /\ Len(log) \in Nat
<1>1. /\ written[fd] \in Nat /\ atStart[fd] \in Nat /\ atExit[fd] \in Nat
      /\ pipe[fd] \in Seq(Byte) /\ log \in Seq(Byte)
  BY DEF CaptureInv, CaptureTypes
<1>2. Len(pipe[fd]) \in Nat /\ Len(log) \in Nat
  BY <1>1
<1>3. atStart[fd] <= Taken(fd)
  BY DEF CaptureInv, PipeHolds
<1> QED
  BY <1>1, <1>2, <1>3 DEF Taken

(* What a splice adds to the log follows what the log has of the stream. *)
LEMMA SplicedInOrder ==
    ASSUME CaptureInv, NEW fd \in Streams, NEW n \in Nat, Splice(fd, n)
    PROVE  /\ StreamsInOrder'
           /\ \A g \in Streams : PipeHolds(g)' /\ LogHolds(g)'
           /\ Taken(fd)' = Taken(fd) + n
           /\ \A g \in Streams \ {fd} : Taken(g)' = Taken(g)
<1>1. PICK bs \in Seq(Byte) :
         /\ Len(bs) = n /\ n > 0 /\ n <= Len(pipe[fd])
         /\ \A k \in 1..n : bs[k] = pipe[fd][k]
         /\ log' = log \o bs
         /\ \A g \in Streams \ {fd} : pipe'[g] = pipe[g]
         /\ Len(pipe'[fd]) = Len(pipe[fd]) - n
         /\ \A k \in 1..(Len(pipe[fd]) - n) : pipe'[fd][k] = pipe[fd][n + k]
         /\ UNCHANGED <<child, outVars>>
  BY SpliceFacts DEF CaptureInv
<1>2. /\ written[fd] \in Nat /\ atStart[fd] \in Nat /\ Len(pipe[fd]) \in Nat
      /\ Taken(fd) \in Nat /\ Taken(fd) = written[fd] - Len(pipe[fd])
      /\ log \in Seq(Byte) /\ Len(log) \in Nat
  BY TakenFacts
<1>3. UNCHANGED <<written, atStart, child>>
  BY <1>1 DEF outVars
<1>4. Taken(fd)' = Taken(fd) + n
  <2>1. PICK l \in Nat : l = Len(pipe[fd])
    BY <1>2
  <2>2. Len(pipe'[fd]) = l - n /\ written'[fd] = written[fd]
    BY <1>1, <1>3, <2>1
  <2>3. Taken(fd)' = written[fd] - (l - n)
    BY <2>2 DEF Taken
  <2>4. PICK w \in Nat : w = written[fd]
    BY <1>2
  <2>5. w - (l - n) = (w - l) + n
    OBVIOUS
  <2>6. Taken(fd) = w - l
    BY <1>2, <2>1, <2>4
  <2> QED
    BY <2>3, <2>4, <2>5, <2>6
<1>5. \A g \in Streams \ {fd} : Taken(g)' = Taken(g)
  BY <1>1, <1>3 DEF Taken
<1>6. PICK L \in Nat : L = Len(log)
  BY <1>2
<1>7. PICK t \in Nat : t = Taken(fd)
  BY <1>2
<1>8. PICK l2 \in Seq(Byte) :
         /\ l2 = log' /\ Len(l2) = L + n
         /\ \A i \in 1..L : l2[i] = log[i]
         /\ \A k \in 1..n : l2[L + k] = bs[k]
  <2>1. PICK l \in Seq(Byte) : l = log
    BY <1>2
  <2>2. PICK m : m = l \o bs
    OBVIOUS
  <2>3. /\ l \o bs \in Seq(Byte) /\ Len(l \o bs) = Len(l) + Len(bs)
        /\ \A i \in 1..(Len(l) + Len(bs)) :
              (l \o bs)[i] = IF i <= Len(l) THEN l[i] ELSE bs[i - Len(l)]
    BY ConcatProperties
  <2>4. /\ m \in Seq(Byte) /\ Len(m) = L + n
        /\ \A i \in 1..(L + n) : m[i] = IF i <= L THEN l[i] ELSE bs[i - L]
    BY <1>1, <1>6, <2>1, <2>2, <2>3
  <2>5. \A i \in 1..L : m[i] = l[i]
    BY <2>4
  <2>6. \A k \in 1..n : m[L + k] = bs[k]
    <3> SUFFICES ASSUME NEW k \in 1..n PROVE m[L + k] = bs[k]
      OBVIOUS
    <3>1. L + k \in 1..(L + n) /\ ~(L + k <= L) /\ (L + k) - L = k
      OBVIOUS
    <3> QED
      BY <2>4, <3>1
  <2>7. m = log'
    BY <1>1, <2>1, <2>2
  <2> QED
    BY <2>1, <2>4, <2>5, <2>6, <2>7
<1>9. ASSUME NEW k \in 1..n PROVE l2[L + k] = <<fd, t + k>>
  <2>1. k \in 1..Len(pipe[fd])
    BY <1>1, <1>2
  <2>2. pipe[fd][k] = <<fd, t + k>>
    BY <1>7, <2>1 DEF CaptureInv, PipeHolds
  <2> QED
    BY <1>1, <1>8, <2>2
<1>10. ASSUME NEW i \in 1..L
       PROVE  /\ l2[i] = log[i] /\ log[i] \in Byte
              /\ log[i][1] = fd => log[i][2] <= t
  <2>1. log[i] \in Byte
    BY <1>2, <1>6
  <2>2. log[i][1] = fd => log[i][2] <= t
    BY <1>6, <1>7 DEF CaptureInv, LogHolds
  <2> QED
    BY <1>8, <2>1, <2>2
<1>11. ASSUME NEW i \in 1..(L + n), i > L
       PROVE  \E k \in 1..n : i = L + k /\ l2[i] = <<fd, t + k>>
  <2>1. PICK k \in 1..n : i = L + k
    BY <1>11
  <2> QED
    BY <1>9, <2>1
<1>12. StreamsInOrder'
  <2> SUFFICES ASSUME NEW i \in 1..(L + n), NEW j \in 1..(L + n), i < j,
                      l2[i][1] = l2[j][1]
               PROVE  l2[i][2] < l2[j][2]
    <3>1. DOMAIN l2 = 1..(L + n)
      BY <1>8
    <3> QED
      BY <1>8, <3>1 DEF StreamsInOrder
  <2>1. CASE j <= L
    <3>1. i \in 1..L /\ j \in 1..L
      BY <2>1
    <3>2. DOMAIN log = 1..L
      BY <1>2, <1>6
    <3> QED
      BY <1>10, <3>1, <3>2 DEF CaptureInv, StreamsInOrder
  <2>2. CASE i <= L /\ j > L
    <3>1. PICK k \in 1..n : l2[j] = <<fd, t + k>>
      BY <1>11, <2>2
    <3>2. i \in 1..L /\ l2[i] = log[i] /\ log[i] \in Byte
      BY <1>10, <2>2
    <3>3. log[i][1] = fd
      BY <3>1, <3>2
    <3>4. log[i][2] <= t /\ log[i][2] \in Nat
      BY <1>10, <3>2, <3>3 DEF Byte
    <3>5. l2[j][2] = t + k
      BY <3>1
    <3> QED
      BY <3>2, <3>4, <3>5
  <2>3. CASE i > L
    <3>1. PICK a \in 1..n : i = L + a /\ l2[i] = <<fd, t + a>>
      BY <1>11, <2>3
    <3>2. PICK b \in 1..n : j = L + b /\ l2[j] = <<fd, t + b>>
      BY <1>11, <2>3
    <3>3. a < b
      BY <3>1, <3>2
    <3> QED
      BY <3>1, <3>2, <3>3
  <2> QED
    BY <2>1, <2>2, <2>3
<1>13. ASSUME NEW g \in Streams PROVE PipeHolds(g)'
  <2>1. CASE g = fd
    <3>1. atStart[fd] <= t
      BY <1>7 DEF CaptureInv, PipeHolds
    <3>2. ASSUME NEW k \in 1..(Len(pipe[fd]) - n)
          PROVE  pipe'[fd][k] = <<fd, (t + n) + k>>
      <4>1. n + k \in 1..Len(pipe[fd])
        BY <1>1, <1>2
      <4>2. pipe[fd][n + k] = <<fd, t + (n + k)>>
        BY <1>7, <4>1 DEF CaptureInv, PipeHolds
      <4>3. t + (n + k) = (t + n) + k
        BY <1>1, <1>2
      <4> QED
        BY <1>1, <4>2, <4>3
    <3>3. Taken(fd)' = t + n /\ atStart' = atStart
      BY <1>3, <1>4, <1>7
    <3>4. PICK m \in Nat : m = Len(pipe[fd]) - n
      BY <1>1, <1>2
    <3>5. Len(pipe'[fd]) = m /\ \A k \in 1..m : pipe'[fd][k] = <<fd, (t + n) + k>>
      BY <1>1, <3>2, <3>4
    <3>6. atStart[fd] <= t + n
      BY <1>2, <3>1
    <3> QED
      BY <2>1, <3>3, <3>5, <3>6 DEF PipeHolds
  <2>2. CASE g # fd
    BY <1>1, <1>3, <1>5, <2>2 DEF CaptureInv, PipeHolds
  <2> QED
    BY <2>1, <2>2
<1>14. ASSUME NEW g \in Streams PROVE LogHolds(g)'
  <2>0. PICK u \in Nat : u = Taken(g)
    BY TakenFacts
  <2>1. PICK v \in Nat : v = Taken(g)' /\ v = IF g = fd THEN u + n ELSE u
    BY <1>4, <1>5, <2>0
  <2>2. ASSUME NEW i \in 1..(L + n), l2[i][1] = g PROVE l2[i][2] <= v
    <3>1. CASE i <= L
      <4>1. i \in 1..L
        BY <3>1
      <4>2. l2[i] = log[i] /\ log[i] \in Byte
        BY <1>10, <4>1
      <4>3. log[i][2] <= u
        BY <1>6, <2>0, <2>2, <4>1, <4>2 DEF CaptureInv, LogHolds
      <4>4. log[i][2] \in Nat
        BY <4>2 DEF Byte
      <4> QED
        BY <2>1, <4>2, <4>3, <4>4
    <3>2. CASE i > L
      <4>1. PICK k \in 1..n : l2[i] = <<fd, t + k>>
        BY <1>11, <3>2
      <4>2. g = fd /\ l2[i][2] = t + k
        BY <2>2, <4>1
      <4> QED
        BY <1>7, <2>0, <2>1, <4>2
    <3> QED
      BY <3>1, <3>2
  <2>3. ASSUME child # "none", NEW x \in (atStart[g] + 1)..v
        PROVE  \E i \in 1..(L + n) : l2[i] = <<g, x>>
    <3>1. atStart[g] \in Nat
      BY TakenFacts
    <3>2. CASE x <= u
      <4>0. /\ \A y \in (atStart[g] + 1)..u : \E i \in 1..L : log[i] = <<g, y>>
            /\ x \in (atStart[g] + 1)..u
        <5>1. \A y \in (atStart[g] + 1)..u : \E i \in 1..L : log[i] = <<g, y>>
          BY <1>6, <2>0, <2>3 DEF CaptureInv, LogHolds
        <5>2. x \in (atStart[g] + 1)..u
          BY <3>1, <3>2
        <5> QED
          BY <5>1, <5>2
      <4>1. PICK i \in 1..L : log[i] = <<g, x>>
        BY <4>0
      <4>2. i \in 1..(L + n) /\ l2[i] = <<g, x>>
        BY <1>10, <4>1
      <4> QED
        BY <4>2
    <3>3. CASE x > u
      <4>1. g = fd
        BY <2>1, <3>1, <3>3
      <4>2. PICK k \in 1..n : x = t + k
        <5>1. u = t /\ v = t + n
          BY <1>7, <2>0, <2>1, <4>1
        <5>2. x \in Int /\ x > t /\ x <= t + n
          BY <3>1, <3>3, <5>1
        <5>3. x - t \in 1..n /\ x = t + (x - t)
          BY <5>2
        <5> QED
          BY <5>3
      <4>3. L + k \in 1..(L + n) /\ l2[L + k] = <<g, x>>
        BY <1>9, <4>1, <4>2
      <4> QED
        BY <4>3
    <3> QED
      BY <3>1, <3>2, <3>3
  <2> QED
    BY <1>3, <1>8, <2>1, <2>2, <2>3 DEF LogHolds
<1> QED
  BY <1>4, <1>5, <1>12, <1>13, <1>14

(* A splice, echoed or not. *)
LEMMA SpliceInv ==
    ASSUME CaptureInv, NEW fd \in Streams, NEW n \in Nat, Splice(fd, n),
           at \in {<<"splice", fd>>, <<"drain", fd>>}
    PROVE  CaptureInv'
<1>1. PICK bs \in Seq(Byte) :
         /\ Len(bs) = n
         /\ n <= Capacity - (write_pos % Capacity)
         /\ RingWrite(bs) /\ log' = log \o bs
         /\ pipe' \in [Streams -> Seq(Byte)]
         /\ \A g \in Streams \ {fd} : pipe'[g] = pipe[g]
         /\ UNCHANGED <<child, edge, outVars, at, failed>>
  BY SpliceFacts DEF CaptureInv
<1>2. UNCHANGED <<child, edge, written, atStart, atExit, at, failed>>
  BY <1>1 DEF outVars
<1>3. child # "none"
  BY DEF CaptureInv, Stages, Polling
<1>4. /\ mem' \in [0..(Capacity - 1) -> Byte \cup {NoByte}]
      /\ write_pos' \in 0..(PosLimit - 1) /\ RingVerbatim'
  BY <1>1, RingSpliced DEF CaptureInv
<1>5. log' \in Seq(Byte)
  BY <1>1 DEF CaptureInv, CaptureTypes
<1>6. CaptureTypes'
  BY <1>1, <1>2, <1>4, <1>5 DEF CaptureInv, CaptureTypes
<1>7. Stages'
  BY <1>2, <1>3 DEF CaptureInv, Stages
<1>8. /\ StreamsInOrder'
      /\ \A g \in Streams : PipeHolds(g)' /\ LogHolds(g)'
      /\ Taken(fd)' = Taken(fd) + n
      /\ \A g \in Streams \ {fd} : Taken(g)' = Taken(g)
  BY SplicedInOrder
<1>9. NoOutputLost'
  BY <1>2, <1>3 DEF NoOutputLost
<1>10. ASSUME NEW g \in Streams PROVE Drained(g)' /\ EdgeKept(g)'
  <2>1. Drained(g) /\ EdgeKept(g)
    BY DEF CaptureInv
  <2>2. PICK t \in Nat : t = Taken(g)
    BY TakenFacts
  <2>3. PICK u \in Nat : u = Taken(g)' /\ t <= u
    BY <1>8, <2>2
  <2>4. atExit[g] \in Nat
    BY TakenFacts
  <2>5. Drained(g)'
    BY <1>2, <2>1, <2>2, <2>3, <2>4 DEF Drained
  <2>6. EdgeKept(g)'
    <3>1. CASE g = fd
      BY <1>2, <3>1 DEF EdgeKept
    <3>2. CASE g # fd
      BY <1>1, <1>2, <2>1, <3>2 DEF EdgeKept
    <3> QED
      BY <3>1, <3>2
  <2> QED
    BY <2>5, <2>6
<1> QED
  BY <1>4, <1>6, <1>7, <1>8, <1>9, <1>10 DEF CaptureInv

(* What does not depend on where App::poll is. *)
LEMMA Unmoved ==
    ASSUME CaptureInv, UNCHANGED <<ringVars, pipe, written, atStart, log>>
    PROVE  /\ RingVerbatim' /\ StreamsInOrder'
           /\ \A fd \in Streams : PipeHolds(fd)' /\ Taken(fd)' = Taken(fd)
           /\ child' # "none" /\ child # "none" => \A fd \in Streams : LogHolds(fd)'
           /\ child' = "none" => \A fd \in Streams : LogHolds(fd)'
<1>1. \A fd \in Streams : Taken(fd)' = Taken(fd)
  BY DEF Taken
<1>2. RingVerbatim' /\ StreamsInOrder'
  BY DEF CaptureInv, RingVerbatim, StreamsInOrder, ringVars, StartPos
<1>3. ASSUME NEW fd \in Streams
      PROVE  /\ PipeHolds(fd)'
             /\ (child' # "none" => child # "none") => LogHolds(fd)'
  <2>1. PipeHolds(fd) /\ LogHolds(fd)
    BY DEF CaptureInv
  <2> QED
    BY <1>1, <2>1 DEF PipeHolds, LogHolds
<1> QED
  BY <1>1, <1>2, <1>3

(* A byte is written to a pipe, which gets an edge. *)
LEMMA WriteInv ==
    ASSUME CaptureInv, NEW fd \in Streams, Write(fd)
    PROVE  CaptureInv'
<1>1. /\ child # "none"
      /\ written' = [written EXCEPT ![fd] = @ + 1]
      /\ pipe' = [pipe EXCEPT ![fd] = Append(@, <<fd, written[fd] + 1>>)]
      /\ edge' = edge \cup {fd}
      /\ UNCHANGED <<ringVars, child, atStart, atExit, at, failed, log>>
  BY DEF Write
<1>2. /\ written[fd] \in Nat /\ atStart[fd] \in Nat /\ Len(pipe[fd]) \in Nat
      /\ pipe[fd] \in Seq(Byte) /\ Taken(fd) \in Nat
      /\ Taken(fd) = written[fd] - Len(pipe[fd])
  BY TakenFacts
<1>3. CaptureTypes
  BY DEF CaptureInv
<1>4. PICK w \in Nat : w = written[fd]
  BY <1>2
<1>5. PICK p \in Seq(Byte) : p = pipe[fd]
  BY <1>2
<1>6. <<fd, w + 1>> \in Byte
  BY DEF Byte
<1>7. PICK q \in Seq(Byte) :
         /\ q = Append(p, <<fd, w + 1>>) /\ Len(q) = Len(p) + 1
         /\ \A k \in 1..Len(p) : q[k] = p[k]
         /\ q[Len(p) + 1] = <<fd, w + 1>>
  <2>1. PICK e \in Byte : e = <<fd, w + 1>>
    BY <1>6
  <2>2. /\ Append(p, e) \in Seq(Byte) /\ Len(Append(p, e)) = Len(p) + 1
        /\ \A k \in 1..Len(p) : Append(p, e)[k] = p[k]
        /\ Append(p, e)[Len(p) + 1] = e
    OBVIOUS
  <2> QED
    BY <2>1, <2>2
<1>8. /\ pipe' \in [Streams -> Seq(Byte)] /\ pipe'[fd] = q
      /\ \A g \in Streams \ {fd} : pipe'[g] = pipe[g]
  BY <1>1, <1>3, <1>4, <1>5, <1>7 DEF CaptureTypes
<1>9. /\ written' \in [Streams -> Nat] /\ written'[fd] = w + 1
      /\ \A g \in Streams \ {fd} : written'[g] = written[g]
  BY <1>1, <1>3, <1>4 DEF CaptureTypes
<1>10. ASSUME NEW g \in Streams PROVE Taken(g)' = Taken(g)
  <2>1. CASE g = fd
    <3>1. PICK l \in Nat : l = Len(p)
      OBVIOUS
    <3>2. Taken(fd)' = (w + 1) - (l + 1)
      BY <1>7, <1>8, <1>9, <3>1 DEF Taken
    <3>3. Taken(fd) = w - l
      BY <1>2, <1>4, <1>5, <3>1
    <3>4. (w + 1) - (l + 1) = w - l
      OBVIOUS
    <3> QED
      BY <2>1, <3>2, <3>3, <3>4
  <2>2. CASE g # fd
    BY <1>8, <1>9, <2>2 DEF Taken
  <2> QED
    BY <2>1, <2>2
<1>11. CaptureTypes'
  BY <1>1, <1>3, <1>8, <1>9 DEF CaptureTypes, ringVars
<1>12. Stages' /\ NoOutputLost'
  BY <1>1 DEF CaptureInv, Stages, NoOutputLost
<1>13. RingVerbatim' /\ StreamsInOrder'
  BY <1>1 DEF CaptureInv, RingVerbatim, StreamsInOrder, ringVars, StartPos
<1>14. ASSUME NEW g \in Streams
       PROVE  PipeHolds(g)' /\ LogHolds(g)' /\ Drained(g)' /\ EdgeKept(g)'
  <2>1. PipeHolds(g) /\ LogHolds(g) /\ Drained(g) /\ EdgeKept(g) /\ Taken(g)' = Taken(g)
    BY <1>10 DEF CaptureInv
  <2>2. LogHolds(g)'
    BY <1>1, <2>1 DEF LogHolds
  <2>3. Drained(g)'
    <3>1. PICK x \in Nat : x = written[g]
      BY TakenFacts
    <3>2. PICK y \in Nat : y = written'[g] /\ x <= y
      BY <1>4, <1>9, <3>1
    <3>3. atExit[g] \in Nat
      BY TakenFacts
    <3> QED
      BY <1>1, <2>1, <3>1, <3>2, <3>3 DEF Drained
  <2>4. EdgeKept(g)'
    BY <1>1, <1>8, <2>1 DEF EdgeKept
  <2>5. PipeHolds(g)'
    <3>1. CASE g # fd
      BY <1>1, <1>8, <2>1, <3>1 DEF PipeHolds
    <3>2. CASE g = fd
      <4>1. PICK t \in Nat : t = Taken(fd) /\ t = Taken(fd)'
        BY <1>2, <1>10
      <4>2. PICK l \in Nat : l = Len(p)
        OBVIOUS
      <4>3. t = w - l
        BY <1>2, <1>4, <1>5, <4>1, <4>2
      <4>4. \A k \in 1..l : p[k] = <<fd, t + k>>
        BY <1>5, <2>1, <3>2, <4>1, <4>2 DEF PipeHolds
      <4>5. ASSUME NEW k \in 1..(l + 1) PROVE q[k] = <<fd, t + k>>
        <5>1. CASE k \in 1..l
          BY <1>7, <4>2, <4>4, <5>1
        <5>2. CASE k = l + 1
          <6>1. t + k = w + 1
            BY <4>3, <5>2
          <6> QED
            BY <1>7, <4>2, <5>2, <6>1
        <5> QED
          BY <5>1, <5>2
      <4>6. Len(q) = l + 1
        BY <1>7, <4>2
      <4>7. atStart'[fd] <= t
        BY <1>1, <2>1, <3>2, <4>1 DEF PipeHolds
      <4> QED
        BY <1>8, <3>2, <4>1, <4>5, <4>6, <4>7 DEF PipeHolds
    <3> QED
      BY <3>1, <3>2
  <2> QED
    BY <2>2, <2>3, <2>4, <2>5
<1> QED
  BY <1>11, <1>12, <1>13, <1>14 DEF CaptureInv

(* The child exits, with all it wrote in the pipes or in the log. *)
LEMMA ExitInv ==
    ASSUME CaptureInv, Exit
    PROVE  CaptureInv'
<1>1. /\ child = "live" /\ child' = "exited" /\ atExit' = written
      /\ UNCHANGED <<ringVars, pipe, edge, written, atStart, at, failed, log>>
  BY DEF Exit
<1>2. at[1] # "drain"
  BY <1>1 DEF CaptureInv, Stages
<1>3. /\ RingVerbatim' /\ StreamsInOrder'
      /\ \A fd \in Streams : PipeHolds(fd)' /\ LogHolds(fd)'
  BY <1>1, Unmoved
<1>4. CaptureTypes'
  BY <1>1 DEF CaptureInv, CaptureTypes, ringVars
<1>5. Stages' /\ NoOutputLost'
  BY <1>1, <1>2 DEF Stages, NoOutputLost
<1>6. ASSUME NEW fd \in Streams PROVE Drained(fd)' /\ EdgeKept(fd)'
  <2>1. written[fd] \in Nat
    BY TakenFacts
  <2>2. Drained(fd)'
    <3>1. at' # <<"drain", "stderr">>
      BY <1>1, <1>2
    <3> QED
      BY <1>1, <2>1, <3>1 DEF Drained
  <2>3. EdgeKept(fd)'
    BY <1>1 DEF CaptureInv, EdgeKept
  <2> QED
    BY <2>2, <2>3
<1> QED
  BY <1>3, <1>4, <1>5, <1>6 DEF CaptureInv

(* An event of a pipe, one of the pidfd, and the end of a loop of splices. *)
LEMMA StageInv ==
    ASSUME CaptureInv,
           \/ PidEvent \/ DrainStdoutDone
           \/ \E fd \in Streams : PipeEvent(fd) \/ SpliceDone(fd)
    PROVE  CaptureInv'
<1>1. UNCHANGED <<ringVars, child, pipe, written, atStart, atExit, log>>
  BY DEF PidEvent, DrainStdoutDone, PipeEvent, SpliceDone, outVars
<1>2. child # "none"
  BY DEF CaptureInv, Stages, PidEvent, DrainStdoutDone, PipeEvent, SpliceDone, Polling
<1>3. /\ RingVerbatim' /\ StreamsInOrder'
      /\ \A fd \in Streams : PipeHolds(fd)' /\ LogHolds(fd)' /\ Taken(fd)' = Taken(fd)
  BY <1>1, <1>2, Unmoved
<1>4. /\ "stdout" \in Streams /\ "stderr" \in Streams /\ "stdout" # "stderr"
  BY CaptureAssumption
<1>5. CaptureTypes /\ Stages
  BY DEF CaptureInv
<1>6. edge' \subseteq Streams /\ failed' \subseteq Streams
      /\ at' \in {Polling} \cup ({"splice", "drain"} \X Streams)
  <2>1. CASE PidEvent
    BY <1>4, <1>5, <2>1 DEF PidEvent, CaptureTypes
  <2>2. CASE DrainStdoutDone
    BY <1>4, <1>5, <2>2 DEF DrainStdoutDone, LoopEnds, CaptureTypes
  <2>3. ASSUME NEW fd \in Streams, PipeEvent(fd) \/ SpliceDone(fd)
        PROVE  edge' \subseteq Streams /\ failed' \subseteq Streams
               /\ at' \in {Polling} \cup ({"splice", "drain"} \X Streams)
    BY <1>5, <2>3 DEF PipeEvent, SpliceDone, LoopEnds, CaptureTypes
  <2> QED
    BY <2>1, <2>2, <2>3
<1>7. CaptureTypes'
  BY <1>1, <1>5, <1>6 DEF CaptureTypes, ringVars
<1>8. NoOutputLost'
  BY <1>1, <1>2 DEF NoOutputLost
<1>9. Stages'
  <2>1. at'[1] = "drain" => child = "exited"
    BY <1>5 DEF PidEvent, DrainStdoutDone, PipeEvent, SpliceDone, Stages, Polling
  <2> QED
    BY <1>1, <1>2, <2>1 DEF Stages
<1>10. ASSUME NEW g \in Streams PROVE Drained(g)'
  <2>1. Drained(g)
    BY DEF CaptureInv
  <2>2. at' = <<"drain", "stderr">> => DrainStdoutDone
    BY DEF PidEvent, PipeEvent, SpliceDone, Polling
  <2>3. CASE DrainStdoutDone /\ g = "stdout" /\ g \notin failed'
    <3>1. pipe["stdout"] = <<>>
      BY <2>3 DEF DrainStdoutDone, LoopEnds
    <3>2. child = "exited"
      BY <1>5, <2>3 DEF DrainStdoutDone, Stages
    <3>3. /\ written[g] \in Nat /\ atExit[g] \in Nat
          /\ Taken(g) = written[g] - Len(pipe[g])
      BY TakenFacts
    <3>4. Taken(g) = written[g]
      BY <2>3, <3>1, <3>3
    <3>5. atExit[g] <= Taken(g)
      BY <2>1, <3>2, <3>4 DEF Drained
    <3> QED
      BY <1>1, <1>3, <2>1, <3>5 DEF Drained
  <2>4. CASE ~(DrainStdoutDone /\ g = "stdout" /\ g \notin failed')
    BY <1>1, <2>1, <2>2, <2>4 DEF Drained
  <2> QED
    BY <2>3, <2>4
<1>11. ASSUME NEW g \in Streams PROVE EdgeKept(g)'
  <2>1. EdgeKept(g)
    BY DEF CaptureInv
  <2>2. CASE PidEvent \/ DrainStdoutDone
    BY <2>2 DEF PidEvent, DrainStdoutDone, EdgeKept
  <2>3. ASSUME NEW fd \in Streams, PipeEvent(fd) PROVE EdgeKept(g)'
    <3>1. /\ at = Polling /\ at' = <<"splice", fd>> /\ edge' = edge \ {fd}
          /\ UNCHANGED <<pipe, failed, child>>
      BY <2>3 DEF PipeEvent
    <3> QED
      BY <2>1, <3>1 DEF EdgeKept, Polling
  <2>4. ASSUME NEW fd \in Streams, SpliceDone(fd) PROVE EdgeKept(g)'
    <3>1. /\ at = <<"splice", fd>> /\ LoopEnds(fd) /\ UNCHANGED <<pipe, edge, child>>
      BY <2>4 DEF SpliceDone
    <3>2. CASE g = fd
      BY <3>1, <3>2 DEF EdgeKept, LoopEnds
    <3>3. CASE g # fd
      <4>1. g \notin failed' => g \notin failed
        BY <3>1, <3>3 DEF LoopEnds
      <4> QED
        BY <2>1, <3>1, <3>3, <4>1 DEF EdgeKept
    <3> QED
      BY <3>2, <3>3
  <2> QED
    BY <2>2, <2>3, <2>4
<1> QED
  BY <1>3, <1>7, <1>8, <1>9, <1>10, <1>11 DEF CaptureInv

(* The application is reaped: what its child wrote is in the log. *)
LEMMA ReapInv ==
    ASSUME CaptureInv, DrainStderrDone
    PROVE  CaptureInv'
<1>1. /\ at = <<"drain", "stderr">> /\ LoopEnds("stderr")
      /\ at' = Polling /\ child' = "none" /\ pipe' = Closed /\ edge' = {}
      /\ UNCHANGED <<ringVars, written, atStart, atExit, log>>
  BY DEF DrainStderrDone, outVars
<1>2. CaptureTypes /\ Stages /\ Streams = {"stdout", "stderr"}
  BY CaptureAssumption DEF CaptureInv
<1>3. child = "exited"
  BY <1>1, <1>2 DEF Stages
<1>4. \A fd \in Streams : Closed[fd] = <<>> /\ Len(Closed[fd]) = 0
  BY DEF Closed
<1>5. Closed \in [Streams -> Seq(Byte)]
  BY DEF Closed
<1>6. failed' \subseteq Streams
  BY <1>1, <1>2 DEF LoopEnds, CaptureTypes
<1>7. CaptureTypes'
  BY <1>1, <1>2, <1>5, <1>6 DEF CaptureTypes, ringVars
<1>8. Stages'
  BY <1>1 DEF Stages, Polling
<1>9. RingVerbatim' /\ StreamsInOrder'
  BY <1>1 DEF CaptureInv, RingVerbatim, StreamsInOrder, ringVars, StartPos
<1>10. ASSUME NEW fd \in Streams
       PROVE  PipeHolds(fd)' /\ LogHolds(fd)' /\ Drained(fd)' /\ EdgeKept(fd)'
  <2>1. PipeHolds(fd) /\ LogHolds(fd)
    BY DEF CaptureInv
  <2>2. PICK w \in Nat : w = written[fd]
    BY TakenFacts
  <2>3. PICK t \in Nat : t = Taken(fd) /\ t <= w
    BY <2>2, TakenFacts
  <2>4. Taken(fd)' = w
    BY <1>1, <1>4, <2>2 DEF Taken
  <2>5. PipeHolds(fd)'
    <3>1. atStart[fd] \in Nat /\ atStart[fd] <= t
      BY <2>1, <2>3, TakenFacts DEF PipeHolds
    <3> QED
      BY <1>1, <1>4, <2>3, <2>4, <3>1 DEF PipeHolds
  <2>6. LogHolds(fd)'
    <3>1. ASSUME NEW i \in 1..Len(log), log[i][1] = fd PROVE log[i][2] <= w
      <4>1. log[i] \in Byte
        BY TakenFacts
      <4>2. log[i][2] \in Nat /\ log[i][2] <= t
        BY <2>1, <2>3, <3>1, <4>1 DEF LogHolds, Byte
      <4> QED
        BY <2>3, <4>2
    <3> QED
      BY <1>1, <2>4, <3>1 DEF LogHolds
  <2>7. Drained(fd)' /\ EdgeKept(fd)'
    BY <1>1 DEF Drained, EdgeKept, Polling
  <2> QED
    BY <2>5, <2>6, <2>7
<1>11. NoOutputLost'
  <2> SUFFICES ASSUME NEW fd \in Streams, fd \notin failed',
                      NEW n \in (atStart[fd] + 1)..atExit[fd]
               PROVE  \E i \in 1..Len(log) : log[i] = <<fd, n>>
    BY <1>1 DEF NoOutputLost, Contains
  <2>1. /\ written[fd] \in Nat /\ atStart[fd] \in Nat /\ atExit[fd] \in Nat
        /\ Taken(fd) \in Nat /\ Taken(fd) = written[fd] - Len(pipe[fd])
    BY TakenFacts
  <2>2. Drained(fd) /\ LogHolds(fd)
    BY DEF CaptureInv
  <2>3. atExit[fd] <= Taken(fd)
    <3>1. CASE fd = "stderr"
      <4>1. pipe[fd] = <<>>
        BY <1>1, <3>1 DEF LoopEnds
      <4>2. Taken(fd) = written[fd]
        BY <2>1, <4>1
      <4> QED
        BY <1>3, <2>2, <4>2 DEF Drained
    <3>2. CASE fd = "stdout"
      <4>1. fd \notin failed
        BY <1>1, <3>2 DEF LoopEnds
      <4> QED
        BY <1>1, <2>2, <3>2, <4>1 DEF Drained
    <3> QED
      BY <1>2, <3>1, <3>2
  <2>4. n \in (atStart[fd] + 1)..Taken(fd)
    BY <2>1, <2>3
  <2> QED
    BY <1>3, <2>2, <2>4 DEF LogHolds
<1> QED
  BY <1>7, <1>8, <1>9, <1>10, <1>11 DEF CaptureInv

(* The next run starts with empty pipes. *)
LEMMA RestartInv ==
    ASSUME CaptureInv, Restart
    PROVE  CaptureInv'
<1>1. /\ at = Polling /\ child = "none" /\ child' = "live"
      /\ atStart' = written /\ failed' = {}
      /\ UNCHANGED <<ringVars, pipe, edge, written, atExit, at, log>>
  BY DEF Restart
<1>2. CaptureTypes /\ pipe = Closed /\ edge = {}
  BY <1>1 DEF CaptureInv, Stages
<1>3. CaptureTypes'
  BY <1>1, <1>2 DEF CaptureTypes, ringVars
<1>4. Stages' /\ NoOutputLost'
  BY <1>1 DEF Stages, NoOutputLost, Polling
<1>5. RingVerbatim' /\ StreamsInOrder'
  BY <1>1 DEF CaptureInv, RingVerbatim, StreamsInOrder, ringVars, StartPos
<1>6. ASSUME NEW fd \in Streams
      PROVE  PipeHolds(fd)' /\ LogHolds(fd)' /\ Drained(fd)' /\ EdgeKept(fd)'
  <2>1. pipe'[fd] = <<>> /\ pipe[fd] = <<>>
    BY <1>1, <1>2 DEF Closed
  <2>2. PICK w \in Nat : w = written[fd] /\ Taken(fd) = w
    BY <2>1, TakenFacts
  <2>3. Taken(fd)' = w
    BY <1>1, <2>2 DEF Taken
  <2>4. PipeHolds(fd)'
    BY <1>1, <2>1, <2>2, <2>3 DEF PipeHolds
  <2>5. LogHolds(fd)'
    <3>1. \A i \in 1..Len(log) : log[i][1] = fd => log[i][2] <= w
      BY <2>2 DEF CaptureInv, LogHolds
    <3>2. (atStart'[fd] + 1)..w = {}
      BY <1>1, <2>2
    <3> QED
      BY <1>1, <2>3, <3>1, <3>2 DEF LogHolds
  <2>6. Drained(fd)' /\ EdgeKept(fd)'
    BY <1>1, <2>1 DEF Drained, EdgeKept, Polling
  <2> QED
    BY <2>4, <2>5, <2>6
<1> QED
  BY <1>3, <1>4, <1>5, <1>6 DEF CaptureInv

(* At first nothing was written. *)
LEMMA CaptureInit == Init => CaptureInv
<1> SUFFICES ASSUME Init PROVE CaptureInv
  OBVIOUS
<1>1. /\ mem = [i \in 0..(Capacity - 1) |-> NoByte] /\ write_pos = 0
      /\ child = "live" /\ pipe = Closed /\ edge = {} /\ written = None
      /\ atStart = None /\ atExit = None /\ at = Polling /\ failed = {}
      /\ log = <<>>
  BY DEF Init, RingInit
<1>2. PosLimit \in Nat \ {0} /\ Capacity \in Nat \ {0}
  BY CapacityAssumption
<1>3. CaptureTypes
  BY <1>1, <1>2 DEF CaptureTypes, Closed, None
<1>4. Stages /\ StreamsInOrder /\ NoOutputLost
  BY <1>1 DEF Stages, StreamsInOrder, NoOutputLost, Polling
<1>5. RingVerbatim
  <2>1. 0 % PosLimit = 0
    BY <1>2, ModSmall
  <2>2. StartPos = 0
    BY <1>1, <1>2 DEF StartPos
  <2>3. Len(log) = 0
    BY <1>1
  <2> QED
    BY <1>1, <2>1, <2>2, <2>3 DEF RingVerbatim
<1>6. ASSUME NEW fd \in Streams
      PROVE  PipeHolds(fd) /\ LogHolds(fd) /\ Drained(fd) /\ EdgeKept(fd)
  <2>1. pipe[fd] = <<>> /\ Len(pipe[fd]) = 0 /\ written[fd] = 0 /\ atStart[fd] = 0
    BY <1>1 DEF Closed, None
  <2>2. Taken(fd) = 0
    <3>1. Taken(fd) = 0 - 0
      BY <2>1, Zenon DEF Taken
    <3> QED
      BY <3>1
  <2>3. PipeHolds(fd)
    BY <2>1, <2>2 DEF PipeHolds
  <2>4. LogHolds(fd)
    BY <1>1, <2>1, <2>2 DEF LogHolds
  <2>5. Drained(fd)
    BY <1>1 DEF Drained, Polling
  <2>6. EdgeKept(fd)
    BY <2>1 DEF EdgeKept
  <2> QED
    BY <2>3, <2>4, <2>5, <2>6
<1> QED
  BY <1>3, <1>4, <1>5, <1>6 DEF CaptureInv

(* Every step of the daemon, the child and its descendants preserves the
   invariant. *)
LEMMA CaptureStep == CaptureInv /\ [Next]_vars => CaptureInv'
<1> SUFFICES ASSUME CaptureInv, [Next]_vars PROVE CaptureInv'
  OBVIOUS
<1>1. ASSUME NEW fd \in Streams, SpliceSome(fd) \/ DrainSome(fd) PROVE CaptureInv'
  <2>1. PICK n \in 1..MaxXfer : Splice(fd, n)
    BY <1>1 DEF SpliceSome, DrainSome
  <2>2. n \in Nat /\ at \in {<<"splice", fd>>, <<"drain", fd>>}
    BY <1>1, CaptureAssumption DEF SpliceSome, DrainSome
  <2> QED
    BY <2>1, <2>2, SpliceInv
<1>2. ASSUME NEW fd \in Streams, Write(fd) PROVE CaptureInv'
  BY <1>2, WriteInv
<1>3. ASSUME NEW fd \in Streams, PipeEvent(fd) \/ SpliceDone(fd) PROVE CaptureInv'
  BY <1>3, StageInv
<1>4. CASE PidEvent \/ DrainStdoutDone
  BY <1>4, StageInv
<1>5. CASE DrainStderrDone
  BY <1>5, ReapInv
<1>6. CASE Exit
  BY <1>6, ExitInv
<1>7. CASE Restart
  BY <1>7, RestartInv
<1>8. CASE UNCHANGED vars
  <2>1. UNCHANGED <<ringVars, child, pipe, edge, written, atStart, atExit, at, failed,
                    log>>
    BY <1>8 DEF vars, outVars
  <2>2. /\ RingVerbatim' /\ StreamsInOrder'
        /\ \A fd \in Streams : PipeHolds(fd)' /\ LogHolds(fd)' /\ Taken(fd)' = Taken(fd)
    BY <2>1, Unmoved
  <2>3. CaptureTypes' /\ Stages' /\ NoOutputLost'
    BY <2>1 DEF CaptureInv, CaptureTypes, Stages, NoOutputLost, ringVars
  <2>4. \A fd \in Streams : Drained(fd)' /\ EdgeKept(fd)'
    BY <2>1, <2>2 DEF CaptureInv, Drained, EdgeKept
  <2> QED
    BY <2>2, <2>3, <2>4 DEF CaptureInv
<1> QED
  BY <1>1, <1>2, <1>3, <1>4, <1>5, <1>6, <1>7, <1>8 DEF Next, Daemon

-----------------------------------------------------------------------------
(* The properties *)

(* The inductive invariant holds throughout. *)
LEMMA CaptureInvariant == Spec => []CaptureInv
BY CaptureInit, CaptureStep, PTL DEF Spec

(* log_buffer.rs: whatever the ring's capacity, and also after write_pos has
   wrapped around, the ring holds the last bytes captured, each at its place. *)
THEOREM RingHoldsTheLog == Spec => []RingVerbatim
BY CaptureInvariant, PTL DEF CaptureInv

(* App::poll and drain_pipe take every stream in the order it was written. *)
THEOREM CapturedInOrder == Spec => []StreamsInOrder
BY CaptureInvariant, PTL DEF CaptureInv

(* Once an application is reaped, all its child wrote before it exited is in the
   log, unless the last splice of that pipe failed: drain_pipe makes up for the
   events that come after the child's exit. *)
THEOREM ReapedWithAllOutput == Spec => []NoOutputLost
BY CaptureInvariant, PTL DEF CaptureInv

(* Whenever the daemon waits, a pipe with output has an edge that epoll is still
   to report, unless its last splice failed. *)
THEOREM NoEdgeLost == Spec => []NoStrandedOutput
<1>1. CaptureInv => NoStrandedOutput
  BY DEF CaptureInv, EdgeKept, NoStrandedOutput, Polling
<1> QED
  BY <1>1, CaptureInvariant, PTL

(* echo_logs prints what the splice before it put into the ring, byte for byte,
   at the end of the memory and where write_pos wraps too. *)
THEOREM EchoVerbatim == Spec => EchoesWhatIsLogged
<1>1. ASSUME CaptureInv, [Next]_vars, echoed' # echoed
      PROVE  \E bs \in Seq(Byte) : echoed' = echoed \o bs /\ log' = log \o bs
  <2>1. PICK fd \in Streams : SpliceSome(fd)
    BY <1>1 DEF Next, Daemon, vars, PipeEvent, SpliceDone, DrainSome, PidEvent,
                DrainStdoutDone, DrainStderrDone, Exit, Restart, Write
  <2>2. PICK n \in 1..MaxXfer :
           Splice(fd, n) /\ echoed' = echoed \o View(mem', write_pos, n)
    BY <2>1 DEF SpliceSome
  <2>3. n \in Nat /\ CaptureTypes /\ RingVerbatim
    BY <1>1, CaptureAssumption DEF CaptureInv
  <2>4. PICK bs \in Seq(Byte) :
           /\ Len(bs) = n /\ n <= Capacity - (write_pos % Capacity)
           /\ RingWrite(bs) /\ log' = log \o bs
    BY <2>2, <2>3, SpliceFacts
  <2>5. View(mem', write_pos, n) = bs
    BY <2>3, <2>4, RingSpliced
  <2> QED
    BY <2>2, <2>4, <2>5
<1>2. CaptureInv /\ [Next]_vars
         => [echoed' # echoed =>
               \E bs \in Seq(Byte) : echoed' = echoed \o bs /\ log' = log \o bs]_vars
  BY <1>1
<1> QED
  BY <1>2, CaptureInvariant, PTL DEF Spec, EchoesWhatIsLogged

-----------------------------------------------------------------------------
(* The byte counters *)

Places(bs, fd) == {i \in 1..Len(bs) : bs[i][1] = fd}

CountersRight ==
    /\ bytes \in [Streams -> Nat]
    /\ \A fd \in Streams : IsFiniteSet(Places(log, fd))
                           /\ bytes[fd] = Cardinality(Places(log, fd))

(* n more bytes of one stream are n more places of it in the log, and none of
   another. *)
LEMMA PlacesOfConcat ==
    ASSUME NEW s \in Seq(Byte), NEW t \in Seq(Byte), NEW fd,
           \A k \in 1..Len(t) : t[k][1] = fd
    PROVE  /\ Places(s \o t, fd) = Places(s, fd) \cup ((Len(s) + 1)..(Len(s) + Len(t)))
           /\ \A g : g # fd => Places(s \o t, g) = Places(s, g)
<1>1. PICK n \in Nat : n = Len(s)
  BY LenProperties
<1>2. PICK m \in Nat : m = Len(t)
  BY LenProperties
<1>3. /\ Len(s \o t) = n + m
      /\ \A i \in 1..(n + m) : (s \o t)[i] = IF i <= n THEN s[i] ELSE t[i - n]
  BY <1>1, <1>2, ConcatProperties
<1>4. \A i \in 1..n : (s \o t)[i] = s[i]
  BY <1>3
<1>5. \A i \in (n + 1)..(n + m) : (s \o t)[i][1] = fd
  <2> SUFFICES ASSUME NEW i \in (n + 1)..(n + m) PROVE (s \o t)[i][1] = fd
    OBVIOUS
  <2>1. i - n \in 1..m /\ i \in 1..(n + m) /\ ~(i <= n)
    OBVIOUS
  <2> QED
    BY <1>2, <1>3, <2>1
<1>6. 1..(n + m) = (1..n) \cup ((n + 1)..(n + m))
  OBVIOUS
<1> QED
  BY <1>1, <1>2, <1>3, <1>4, <1>5, <1>6 DEF Places

(* A splice counts what it takes. *)
LEMMA SpliceCounts ==
    ASSUME CaptureInv, CountersRight, NEW fd \in Streams, NEW n \in Nat, Splice(fd, n)
    PROVE  CountersRight'
<1>1. PICK bs \in Seq(Byte) :
         /\ Len(bs) = n /\ n <= Len(pipe[fd]) /\ log' = log \o bs
         /\ \A k \in 1..n : bs[k] = pipe[fd][k]
  BY SpliceFacts DEF CaptureInv
<1>2. bytes' = [bytes EXCEPT ![fd] = @ + n]
  BY DEF Splice
<1>3. PICK l \in Nat : l = Len(log)
  BY LenProperties DEF CaptureInv, CaptureTypes
<1>4. log \in Seq(Byte) /\ bytes \in [Streams -> Nat]
  BY DEF CaptureInv, CaptureTypes, CountersRight
<1>5. ASSUME NEW k \in 1..Len(bs) PROVE bs[k][1] = fd
  <2>1. k \in 1..n /\ k \in 1..Len(pipe[fd])
    BY <1>1, LenProperties DEF CaptureInv, CaptureTypes
  <2>2. pipe[fd][k] = <<fd, Taken(fd) + k>>
    BY <2>1 DEF CaptureInv, PipeHolds
  <2> QED
    BY <1>1, <2>1, <2>2
<1>6. /\ Places(log', fd) = Places(log, fd) \cup ((l + 1)..(l + n))
      /\ \A g : g # fd => Places(log', g) = Places(log, g)
  <2>1. \A k \in 1..Len(bs) : bs[k][1] = fd
    BY <1>5
  <2>2. /\ Places(log \o bs, fd)
             = Places(log, fd) \cup ((Len(log) + 1)..(Len(log) + Len(bs)))
        /\ \A g : g # fd => Places(log \o bs, g) = Places(log, g)
    <3>1. PICK s \in Seq(Byte) : s = log
      BY <1>4
    <3>2. /\ Places(s \o bs, fd) = Places(s, fd) \cup ((Len(s) + 1)..(Len(s) + Len(bs)))
          /\ \A g : g # fd => Places(s \o bs, g) = Places(s, g)
      BY <2>1, PlacesOfConcat, SMTT(30)
    <3> QED
      BY <3>1, <3>2, Zenon
  <2> QED
    BY <1>1, <1>3, <2>2
<1>7. ASSUME NEW g \in Streams
      PROVE  IsFiniteSet(Places(log, g)') /\ bytes'[g] = Cardinality(Places(log, g)')
  <2>1. Places(log, g)' = Places(log', g)
    BY DEF Places
  <2>2. IsFiniteSet(Places(log, g)) /\ bytes[g] = Cardinality(Places(log, g))
    BY DEF CountersRight
  <2>3. CASE g # fd
    BY <1>2, <1>4, <1>6, <2>1, <2>2, <2>3
  <2>4. CASE g = fd
    <3>1. PICK T : T = (l + 1)..(l + n)
      OBVIOUS
    <3>2. IsFiniteSet(T) /\ Cardinality(T) = n
      <4>1. l + 1 \in Int /\ l + n \in Int
        OBVIOUS
      <4>2. /\ IsFiniteSet(T)
            /\ Cardinality(T) = IF l + 1 > l + n THEN 0 ELSE (l + n) - (l + 1) + 1
        BY <3>1, <4>1, FS_Interval
      <4> QED
        BY <4>2
    <3>3. Places(log, g) \cap T = {}
      BY <1>3, <3>1 DEF Places
    <3>4. /\ IsFiniteSet(Places(log, g) \cup T)
          /\ Cardinality(Places(log, g) \cup T) =
                Cardinality(Places(log, g)) + Cardinality(T)
                - Cardinality(Places(log, g) \cap T)
      BY <2>2, <3>2, FS_Union
    <3>5. Cardinality(Places(log, g) \cap T) = 0
      BY <3>3, FS_EmptySet
    <3>6. Cardinality(Places(log, g) \cup T) = bytes[g] + n
      BY <1>4, <2>2, <3>2, <3>4, <3>5
    <3>7. Places(log, g)' = Places(log, g) \cup T
      BY <1>6, <2>1, <2>4, <3>1
    <3>8. bytes'[g] = bytes[g] + n
      BY <1>2, <1>4, <2>4
    <3> QED
      BY <3>4, <3>6, <3>7, <3>8
  <2> QED
    BY <2>3, <2>4
<1>8. bytes' \in [Streams -> Nat]
  BY <1>2, <1>4
<1> QED
  BY <1>7, <1>8 DEF CountersRight

(* App::poll and drain_pipe: the counters that `lway info` shows are the numbers
   of bytes in the log, whatever was spliced, drained, lost or restarted. *)
THEOREM BytesCounted == Spec => []BytesAccounted
<1>1. Init => CountersRight
  <2> SUFFICES ASSUME Init PROVE CountersRight
    OBVIOUS
  <2>1. bytes = [fd \in Streams |-> 0] /\ log = <<>>
    BY DEF Init, None
  <2>2. ASSUME NEW fd \in Streams PROVE Places(log, fd) = {}
    BY <2>1 DEF Places
  <2> QED
    BY <2>1, <2>2, FS_EmptySet DEF CountersRight
<1>2. CaptureInv /\ CountersRight /\ [Next]_vars => CountersRight'
  <2> SUFFICES ASSUME CaptureInv, CountersRight, [Next]_vars PROVE CountersRight'
    OBVIOUS
  <2>1. ASSUME NEW fd \in Streams, SpliceSome(fd) \/ DrainSome(fd) PROVE CountersRight'
    <3>1. PICK n \in 1..MaxXfer : Splice(fd, n)
      BY <2>1 DEF SpliceSome, DrainSome
    <3>2. n \in Nat
      BY CaptureAssumption
    <3> QED
      BY <3>1, <3>2, SpliceCounts
  <2>2. CASE UNCHANGED <<bytes, log>>
    BY <2>2 DEF CountersRight, Places
  <2>3. ASSUME NEW fd \in Streams, Write(fd) \/ PipeEvent(fd) \/ SpliceDone(fd)
        PROVE  UNCHANGED <<bytes, log>>
    BY <2>3 DEF Write, PipeEvent, SpliceDone
  <2>4. CASE PidEvent \/ DrainStdoutDone \/ DrainStderrDone \/ Exit \/ Restart
    BY <2>2, <2>4 DEF PidEvent, DrainStdoutDone, DrainStderrDone, Exit, Restart
  <2>5. CASE UNCHANGED vars
    BY <2>2, <2>5 DEF vars
  <2> QED
    BY <2>1, <2>2, <2>3, <2>4, <2>5 DEF Next, Daemon
<1>3. CaptureInv /\ CountersRight => BytesAccounted
  <2> SUFFICES ASSUME CaptureInv, CountersRight, NEW fd \in Streams
               PROVE  bytes[fd] = Cardinality({i \in DOMAIN log : log[i][1] = fd})
    BY DEF BytesAccounted
  <2>1. DOMAIN log = 1..Len(log)
    BY LenProperties DEF CaptureInv, CaptureTypes
  <2> QED
    BY <2>1 DEF CountersRight, Places
<1> QED
  BY <1>1, <1>2, <1>3, CaptureInvariant, PTL DEF Spec

-----------------------------------------------------------------------------
(* The echo *)

EchoInv == echoed \in Seq(Byte) /\ EchoUntilDrain

(* The bytes of two sequences, one after the other. *)
LEMMA RangeOfConcat ==
    ASSUME NEW s \in Seq(Byte), NEW t \in Seq(Byte)
    PROVE  Range(s \o t) = Range(s) \cup Range(t)
<1>1. PICK n \in Nat : n = Len(s) /\ DOMAIN s = 1..n
  BY LenProperties
<1>2. PICK m \in Nat : m = Len(t) /\ DOMAIN t = 1..m
  BY LenProperties
<1>3. /\ DOMAIN (s \o t) = 1..(n + m)
      /\ \A i \in 1..(n + m) : (s \o t)[i] = IF i <= n THEN s[i] ELSE t[i - n]
  BY <1>1, <1>2, ConcatProperties, LenProperties
<1>4. ASSUME NEW b \in Range(s) PROVE b \in Range(s \o t)
  <2>1. PICK i \in 1..n : b = s[i]
    BY <1>1, <1>4 DEF Range
  <2>2. i \in 1..(n + m) /\ i <= n
    OBVIOUS
  <2> QED
    BY <1>3, <2>1, <2>2 DEF Range
<1>5. ASSUME NEW b \in Range(t) PROVE b \in Range(s \o t)
  <2>1. PICK i \in 1..m : b = t[i]
    BY <1>2, <1>5 DEF Range
  <2>2. i + n \in 1..(n + m) /\ ~(i + n <= n) /\ (i + n) - n = i
    OBVIOUS
  <2> QED
    BY <1>3, <2>1, <2>2 DEF Range
<1>6. ASSUME NEW b \in Range(s \o t) PROVE b \in Range(s) \cup Range(t)
  <2>1. PICK i \in 1..(n + m) : b = (s \o t)[i]
    BY <1>3, <1>6 DEF Range
  <2>2. i <= n => i \in 1..n
    OBVIOUS
  <2>3. ~(i <= n) => i - n \in 1..m
    OBVIOUS
  <2> QED
    BY <1>1, <1>2, <1>3, <2>1, <2>2, <2>3 DEF Range
<1> QED
  BY <1>4, <1>5, <1>6

(* What a splice takes is newer than all the log has of the stream. *)
LEMMA SplicedIsNew ==
    ASSUME CaptureInv, NEW fd \in Streams, NEW n \in Nat, Splice(fd, n)
    PROVE  \E bs \in Seq(Byte) :
              /\ log' = log \o bs /\ Range(log') = Range(log) \cup Range(bs)
              /\ Len(bs) = n /\ n <= Capacity - (write_pos % Capacity) /\ RingWrite(bs)
              /\ \A k \in DOMAIN bs : bs[k] = <<fd, Taken(fd) + k>> /\ k \in Nat \ {0}
              /\ UNCHANGED <<child, at, atStart>>
<1>1. PICK bs \in Seq(Byte) :
         /\ Len(bs) = n /\ n <= Len(pipe[fd]) /\ log' = log \o bs
         /\ n <= Capacity - (write_pos % Capacity) /\ RingWrite(bs)
         /\ \A k \in 1..n : bs[k] = pipe[fd][k]
         /\ UNCHANGED <<child, outVars, at>>
  BY SpliceFacts DEF CaptureInv
<1>2. log \in Seq(Byte) /\ pipe[fd] \in Seq(Byte) /\ DOMAIN bs = 1..n
  BY <1>1, LenProperties DEF CaptureInv, CaptureTypes
<1>3. Range(log') = Range(log) \cup Range(bs)
  BY <1>1, <1>2, RangeOfConcat
<1>4. ASSUME NEW k \in 1..n PROVE bs[k] = <<fd, Taken(fd) + k>> /\ k \in Nat \ {0}
  <2>1. k \in 1..Len(pipe[fd])
    BY <1>1, <1>2, LenProperties
  <2>2. pipe[fd][k] = <<fd, Taken(fd) + k>>
    BY <2>1 DEF CaptureInv, PipeHolds
  <2> QED
    BY <1>1, <2>2
<1> QED
  BY <1>1, <1>2, <1>3, <1>4 DEF outVars

(* What the log has of a stream has left its pipe. *)
LEMMA LoggedIsTaken ==
    ASSUME CaptureInv, NEW b \in Range(log)
    PROVE  b \in Byte /\ b[1] \in Streams /\ b[2] \in Nat /\ b[2] <= Taken(b[1])
<1>1. log \in Seq(Byte) /\ DOMAIN log = 1..Len(log)
  BY LenProperties DEF CaptureInv, CaptureTypes
<1>2. PICK i \in 1..Len(log) : b = log[i]
  BY <1>1 DEF Range
<1>3. b \in Byte /\ b[1] \in Streams /\ b[2] \in Nat
  BY <1>1, <1>2 DEF Byte
<1> QED
  BY <1>2, <1>3 DEF CaptureInv, LogHolds

(* A splice that is echoed. *)
LEMMA EchoedSplice ==
    ASSUME CaptureInv, EchoInv, NEW fd \in Streams, SpliceSome(fd)
    PROVE  EchoInv'
<1>1. PICK n \in 1..MaxXfer :
         Splice(fd, n) /\ echoed' = echoed \o View(mem', write_pos, n)
  BY DEF SpliceSome
<1>2. n \in Nat /\ CaptureTypes /\ RingVerbatim
  BY CaptureAssumption DEF CaptureInv
<1>3. PICK bs \in Seq(Byte) :
         /\ log' = log \o bs /\ Range(log') = Range(log) \cup Range(bs)
         /\ Len(bs) = n /\ n <= Capacity - (write_pos % Capacity) /\ RingWrite(bs)
         /\ \A k \in DOMAIN bs : bs[k] = <<fd, Taken(fd) + k>> /\ k \in Nat \ {0}
         /\ UNCHANGED <<child, at, atStart>>
  BY <1>1, <1>2, SplicedIsNew
<1>4. echoed' = echoed \o bs
  <2>1. View(mem', write_pos, n) = bs
    BY <1>2, <1>3, RingSpliced
  <2> QED
    BY <1>1, <2>1
<1>5. echoed \in Seq(Byte) /\ echoed' \in Seq(Byte)
      /\ Range(echoed') = Range(echoed) \cup Range(bs)
  BY <1>3, <1>4, RangeOfConcat DEF EchoInv
<1>6. \A b \in Range(log) : b[2] > atStart[b[1]] => b \in Range(echoed)
  <2>1. child # "none" /\ at[1] # "drain"
    BY DEF SpliceSome, CaptureInv, Stages, Polling
  <2> QED
    BY <2>1 DEF EchoInv, EchoUntilDrain
<1>7. PICK t \in Nat : t = Taken(fd)
  BY TakenFacts
<1>8. \A b \in Range(echoed) : b[1] = fd => b[2] \in Nat /\ b[2] <= t
  BY <1>7, LoggedIsTaken DEF EchoInv, EchoUntilDrain
<1>9. Range(echoed') \subseteq Range(log')
  BY <1>3, <1>5 DEF EchoInv, EchoUntilDrain
<1>10. ASSUME NEW i \in DOMAIN echoed', NEW j \in DOMAIN echoed', i < j,
              echoed'[i][1] = echoed'[j][1]
       PROVE  echoed'[i][2] < echoed'[j][2]
  <2>1. PICK l \in Nat : l = Len(echoed) /\ DOMAIN echoed = 1..l
    BY <1>5, LenProperties
  <2>2. /\ DOMAIN echoed' = 1..(l + n) /\ DOMAIN bs = 1..n
        /\ \A k \in 1..(l + n) : echoed'[k] = IF k <= l THEN echoed[k] ELSE bs[k - l]
    <3>1. DOMAIN bs = 1..n
      BY <1>3, LenProperties
    <3>2. PICK s \in Seq(Byte) : s = echoed
      BY <1>5
    <3>3. /\ DOMAIN (s \o bs) = 1..(Len(s) + Len(bs))
          /\ \A k \in 1..(Len(s) + Len(bs)) :
                (s \o bs)[k] = IF k <= Len(s) THEN s[k] ELSE bs[k - Len(s)]
      BY ConcatProperties, LenProperties
    <3> QED
      BY <1>3, <1>4, <2>1, <3>1, <3>2, <3>3
  <2>3. CASE j <= l
    <3>1. i \in 1..l /\ j \in 1..l /\ i <= l
      BY <1>10, <2>2, <2>3
    <3>2. echoed'[i] = echoed[i] /\ echoed'[j] = echoed[j]
      BY <2>2, <2>3, <3>1
    <3> QED
      BY <1>10, <2>1, <3>1, <3>2 DEF EchoInv, EchoUntilDrain
  <2>4. CASE ~(j <= l)
    <3>1. j - l \in 1..n
      BY <1>2, <1>10, <2>2, <2>4
    <3>2. echoed'[j] = <<fd, t + (j - l)>>
      BY <1>3, <1>7, <2>2, <2>4, <3>1
    <3>3. CASE i <= l
      <4>1. echoed'[i] = echoed[i] /\ echoed[i] \in Range(echoed)
        BY <2>1, <2>2, <3>3 DEF Range
      <4>2. echoed[i][1] = fd
        BY <1>10, <3>2, <4>1
      <4>3. echoed'[i][2] \in Nat /\ echoed'[i][2] <= t
        BY <1>8, <4>1, <4>2
      <4> QED
        BY <3>1, <3>2, <4>3
    <3>4. CASE ~(i <= l)
      <4>1. i - l \in 1..n /\ i - l < j - l
        BY <1>2, <1>10, <2>2, <3>4
      <4>2. echoed'[i] = <<fd, t + (i - l)>>
        BY <1>3, <1>7, <2>2, <3>4, <4>1
      <4>3. t + (i - l) < t + (j - l)
        BY <3>1, <4>1
      <4> QED
        BY <3>2, <4>2, <4>3
    <3> QED
      BY <3>3, <3>4
  <2> QED
    BY <2>3, <2>4
<1>11. ASSUME NEW b \in Range(log'), b[2] > atStart[b[1]] PROVE b \in Range(echoed')
  BY <1>3, <1>5, <1>6, <1>11
<1>12. EchoUntilDrain'
  BY <1>3, <1>9, <1>10, <1>11 DEF EchoUntilDrain
<1> QED
  BY <1>5, <1>12 DEF EchoInv

(* A splice of the final drain, which is not. *)
LEMMA DrainedSplice ==
    ASSUME CaptureInv, EchoInv, NEW fd \in Streams, DrainSome(fd)
    PROVE  EchoInv'
<1>1. PICK n \in Nat : Splice(fd, n)
  BY CaptureAssumption DEF DrainSome
<1>2. PICK bs \in Seq(Byte) :
         /\ Range(log') = Range(log) \cup Range(bs) /\ UNCHANGED <<child, at, atStart>>
  BY <1>1, SplicedIsNew
<1>3. UNCHANGED echoed /\ at[1] = "drain"
  BY DEF DrainSome
<1> QED
  BY <1>2, <1>3 DEF EchoInv, EchoUntilDrain

(* Up to the final drain, what echo_logs prints is what the log has of this run,
   each stream in its order: the bytes are read from the ring before others
   overwrite them, wherever the splices are cut. *)
THEOREM EchoPrintsTheLog == Spec => []EchoUntilDrain
<1>1. Init => EchoInv
  <2> SUFFICES ASSUME Init PROVE EchoInv
    OBVIOUS
  <2>1. echoed = <<>> /\ log = <<>>
    BY DEF Init
  <2>2. Range(echoed) = {} /\ Range(log) = {} /\ DOMAIN echoed = {}
        /\ echoed \in Seq(Byte)
    BY <2>1 DEF Range
  <2> QED
    BY <2>2 DEF EchoInv, EchoUntilDrain
<1>2. CaptureInv /\ EchoInv /\ [Next]_vars => EchoInv'
  <2> SUFFICES ASSUME CaptureInv, EchoInv, [Next]_vars PROVE EchoInv'
    OBVIOUS
  <2>1. ASSUME UNCHANGED <<log, echoed, atStart>>,
               child' # "none" /\ at'[1] # "drain" =>
                  child # "none" /\ at[1] # "drain"
        PROVE  EchoInv'
    BY <2>1 DEF EchoInv, EchoUntilDrain
  <2>2. ASSUME NEW fd \in Streams, SpliceSome(fd) \/ DrainSome(fd) PROVE EchoInv'
    BY <2>2, EchoedSplice, DrainedSplice
  <2>3. ASSUME NEW fd \in Streams, Write(fd) \/ PipeEvent(fd) \/ SpliceDone(fd)
        PROVE  EchoInv'
    BY <2>1, <2>3 DEF Write, PipeEvent, SpliceDone, Polling, outVars
  <2>4. CASE PidEvent \/ DrainStdoutDone \/ DrainStderrDone \/ Exit
    BY <2>1, <2>4 DEF PidEvent, DrainStdoutDone, DrainStderrDone, Exit, outVars
  <2>5. CASE UNCHANGED vars
    BY <2>1, <2>5 DEF vars, outVars
  <2>6. CASE Restart
    <3>1. UNCHANGED <<log, echoed>> /\ atStart' = written
      BY <2>6 DEF Restart
    <3>2. ASSUME NEW b \in Range(log)
          PROVE  b[2] \in Nat /\ atStart'[b[1]] \in Nat /\ b[2] <= atStart'[b[1]]
      <4>1. b[1] \in Streams /\ b[2] \in Nat /\ b[2] <= Taken(b[1])
        BY <3>2, LoggedIsTaken
      <4>2. PICK fd \in Streams : fd = b[1]
        BY <4>1
      <4>3. /\ written[fd] \in Nat /\ Len(pipe[fd]) \in Nat
            /\ Taken(fd) = written[fd] - Len(pipe[fd])
        BY TakenFacts
      <4> QED
        BY <3>1, <4>1, <4>2, <4>3
    <3>3. \A b \in Range(log) : ~(b[2] > atStart'[b[1]])
      BY <3>2
    <3> QED
      BY <3>1, <3>3 DEF EchoInv, EchoUntilDrain
  <2> QED
    BY <2>2, <2>3, <2>4, <2>5, <2>6 DEF Next, Daemon
<1>3. EchoInv => EchoUntilDrain
  BY DEF EchoInv
<1> QED
  BY <1>1, <1>2, <1>3, CaptureInvariant, PTL DEF Spec
=============================================================================
