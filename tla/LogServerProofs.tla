-------------------------- MODULE LogServerProofs --------------------------
(***************************************************************************)
(* Proofs about the log socket for any number of clients and connections,  *)
(* any sizes of the ring and the sockets, and any number of bytes that     *)
(* write_pos can count.                                                    *)
(***************************************************************************)
EXTENDS LogServer, RingProofs

-----------------------------------------------------------------------------
(* The inductive invariant *)

Bytes == 0..MaxBytes

ConnRecord ==
    [state : {"absent", "awaiting", "streaming"}, follow : BOOLEAN,
     cursor : Bytes, dump_until : Bytes \cup {NoBound},
     close_after_flush : BOOLEAN, write_blocked : BOOLEAN,
     writable_registered : BOOLEAN]

PeerRecord ==
    [st : {"idle", "queued", "open", "quit", "closed", "dropped"},
     req : {"none", "part", "full", "read"}, follow : BOOLEAN, known : BOOLEAN,
     sock : Seq(Bytes), got : Seq(Bytes)]

ServerTypes ==
    /\ mem \in [0..(Capacity - 1) -> Bytes \cup {NoByte}]
    /\ write_pos \in Bytes
    /\ conn \in [Clients -> ConnRecord]
    /\ peer \in [Clients -> PeerRecord]
    /\ ready \subseteq Clients /\ todo \subseteq Clients
    /\ pc \in {"events", "send", "push", "poll"}

(* The ring holds the last bytes of the log, each at its place. *)
RingHolds == \A i \in 0..(write_pos - 1) : i >= StartPos => mem[i % Capacity] = i

(* try_send works for a connection that streams, and push_updates has only
   such connections left to serve. *)
Serving ==
    /\ pc = "send" => /\ job \in {"event", "push"} \X Clients
                      /\ Streaming(job[2]) /\ job[2] \notin todo
    /\ pc \in {"events", "poll"} => todo = {}
    /\ pc = "send" /\ job[1] = "event" => todo = {}
    /\ \A c \in todo : Streaming(c)

(* How a connection and its client go together. *)
Paired(c) ==
    /\ c \in Connected => peer[c].st \in {"open", "quit"}
    /\ peer[c].st = "open" => c \in Connected
    /\ ~Streaming(c) => /\ conn[c].cursor = 0 /\ conn[c].dump_until = NoBound
                        /\ ~conn[c].write_blocked /\ ~conn[c].close_after_flush
    /\ conn[c].close_after_flush => peer[c].st = "quit"
    /\ conn[c].state = "awaiting" \/ peer[c].st \in {"idle", "queued", "dropped"}
          => Sent(c) = <<>>
    /\ conn[c].writable_registered = conn[c].write_blocked

(* What a client was sent, up to the cursor of its connection. *)
Verbatim(c) ==
    /\ conn[c].cursor <= write_pos
    /\ \A i, j \in 1..Len(Sent(c)) : i < j => Sent(c)[i] < Sent(c)[j]
    /\ \A i \in 1..Len(Sent(c)) :
          Sent(c)[i] < IF Streaming(c) THEN conn[c].cursor ELSE write_pos
    /\ \A b \in 0..(conn[c].cursor - 1) :
          b < StartPos \/ \E i \in 1..Len(Sent(c)) : Sent(c)[i] = b

(* The connection try_send works for. *)
Busy(c) == pc = "send" /\ job[2] = c

(* A connection that could write has an edge to report, and push_updates leaves
   no follower behind that is not blocked. *)
UpToDate(c) ==
    Streaming(c) /\ ~Busy(c) =>
       /\ Writable(c) => c \in ready
       /\ /\ pc \in {"push", "poll"} \/ (pc = "send" /\ job[1] = "push")
          /\ c \notin todo /\ conn[c].follow /\ ~conn[c].write_blocked
          => conn[c].cursor = write_pos

ServerInv ==
    /\ ServerTypes /\ RingHolds /\ Serving
    /\ \A c \in Clients : Paired(c) /\ Verbatim(c) /\ UpToDate(c)

-----------------------------------------------------------------------------
(* What try_send reads *)

(* MaxBytes counts bytes, and no position up to it overflows. *)
LEMMA BytesFacts ==
    /\ MaxBytes \in Nat /\ MaxBytes < PosLimit /\ PosLimit \in Nat \ {0}
    /\ Capacity \in Nat \ {0} /\ SocketSize \in Nat \ {0} /\ NoBound \notin Nat
BY CapacityAssumption, LogServerAssumption

(* Where read_from_cursor starts. *)
From(c) == IF conn[c].cursor < StartPos THEN StartPos ELSE conn[c].cursor

(* It is retained, and at or after the cursor. *)
LEMMA FromFacts ==
    ASSUME ServerInv, NEW c \in Clients
    PROVE  /\ conn[c].cursor \in Nat /\ StartPos \in Nat /\ write_pos \in Nat
           /\ From(c) \in StartPos..write_pos
           /\ conn[c].cursor <= From(c)
<1>1. write_pos \in 0..MaxBytes /\ conn[c].cursor \in 0..MaxBytes
  BY DEF ServerInv, ServerTypes, ConnRecord, Bytes
<1>2. conn[c].cursor <= write_pos
  BY DEF ServerInv, Verbatim
<1> QED
  BY <1>1, <1>2, BytesFacts DEF From, StartPos

(* A chunk is the log from there on: it is empty only when there is no more,
   and every byte in it is the one at its position. *)
LEMMA ChunkFacts ==
    ASSUME ServerInv, NEW c \in Clients
    PROVE  LET chunk == ReadFromCursor(conn[c].cursor) IN
           /\ conn[c].cursor + chunk.missed = From(c)
           /\ chunk.buffer \in Seq(Bytes)
           /\ From(c) + Len(chunk.buffer) <= write_pos
           /\ chunk.buffer = <<>> <=> From(c) = write_pos
           /\ \A k \in 1..Len(chunk.buffer) : chunk.buffer[k] = From(c) + k - 1
<1> DEFINE start == From(c)
           chunk == ReadFromCursor(conn[c].cursor)
           left  == write_pos - start
           len   == Clamp(start, left)
           buf   == View(mem, start, len)
<1>1. /\ conn[c].cursor \in Nat /\ StartPos \in Nat /\ write_pos \in Nat
      /\ start \in StartPos..write_pos /\ conn[c].cursor <= start
  BY FromFacts
<1>2. write_pos \in 0..MaxBytes /\ mem \in [0..(Capacity - 1) -> Bytes \cup {NoByte}]
  BY DEF ServerInv, ServerTypes, Bytes
<1> HIDE DEF start
<1>3. left \in 0..(PosLimit - 1) /\ left \in Nat
  BY <1>1, <1>2, BytesFacts
<1>4. left % PosLimit = left
  BY <1>3, BytesFacts, ModSmall
<1>5. /\ chunk.missed = start - conn[c].cursor
      /\ chunk.buffer = View(mem, start, Clamp(start, left % PosLimit))
  BY DEF ReadFromCursor, start, From
<1>6. chunk.buffer = buf
  BY <1>4, <1>5
<1>7. start \in Nat
  BY <1>1
<1>8. /\ len \in 0..left /\ len <= Capacity - (start % Capacity)
      /\ left > 0 => len > 0
  BY <1>3, <1>7, ClampFacts
<1> HIDE DEF chunk, len, left
<1>9. len \in Nat
  BY <1>3, <1>8
<1>10. /\ buf \in Seq(Bytes \cup {NoByte}) /\ Len(buf) = len
       /\ \A k \in 1..len : buf[k] = mem[(start + k - 1) % Capacity]
  <2>1. PICK m \in [0..(Capacity - 1) -> Bytes \cup {NoByte}] : m = mem
    BY <1>2
  <2>2. len <= Capacity - (start % Capacity)
    BY <1>8
  <2>3. /\ View(m, start, len) \in Seq(Bytes \cup {NoByte})
        /\ Len(View(m, start, len)) = len
        /\ \A k \in 1..len :
              View(m, start, len)[k] = m[(start + k - 1) % Capacity]
    BY <1>7, <1>9, <2>2, ViewFacts, ZenonT(60)
  <2> QED
    BY <2>1, <2>3
<1>11. start + len <= write_pos
  BY <1>1, <1>3, <1>8 DEF left
<1>12. ASSUME NEW k \in 1..len
       PROVE  buf[k] = start + k - 1 /\ buf[k] \in Bytes
  <2>1. start + k - 1 \in 0..(write_pos - 1) /\ start + k - 1 >= StartPos
    BY <1>1, <1>7, <1>9, <1>11
  <2>2. mem[(start + k - 1) % Capacity] = start + k - 1
    BY <2>1 DEF ServerInv, RingHolds
  <2>3. start + k - 1 \in Bytes
    BY <1>1, <1>2, <2>1, BytesFacts DEF Bytes
  <2> QED
    BY <1>10, <2>2, <2>3
<1> HIDE DEF buf
<1>13. buf \in Seq(Bytes)
  <2>1. buf \in [1..len -> Bytes]
    <3>1. buf \in [1..len -> Bytes \cup {NoByte}]
      BY <1>10
    <3> QED
      BY <1>12, <3>1
  <2> QED
    BY <1>9, <2>1, IsSequence
<1>14. buf = <<>> <=> start = write_pos
  <2>1. buf = <<>> <=> len = 0
    BY <1>10, <1>13, EmptySeq
  <2>2. len = 0 <=> left = 0
    BY <1>3, <1>8, <1>9
  <2> QED
    BY <1>1, <2>1, <2>2 DEF left
<1>15. conn[c].cursor + chunk.missed = start
  BY <1>1, <1>5
<1>16. \A k \in 1..Len(buf) : buf[k] = start + k - 1
  BY <1>10, <1>12
<1> QED
  <2>1. /\ conn[c].cursor + chunk.missed = start
        /\ chunk.buffer \in Seq(Bytes)
        /\ start + Len(chunk.buffer) <= write_pos
        /\ chunk.buffer = <<>> <=> start = write_pos
        /\ \A k \in 1..Len(chunk.buffer) : chunk.buffer[k] = start + k - 1
    BY <1>6, <1>10, <1>11, <1>13, <1>14, <1>15, <1>16
  <2> QED
    BY <2>1 DEF chunk, start

-----------------------------------------------------------------------------
(* Every step preserves the invariant *)

(* What holds of the clients that a step does not touch. *)
LEMMA OthersKept ==
    ASSUME ServerInv, NEW c \in Clients, UNCHANGED ringVars,
           \A d \in Clients \ {c} : conn'[d] = conn[d] /\ peer'[d] = peer[d]
    PROVE  /\ \A d \in Clients \ {c} : Paired(d)' /\ Verbatim(d)'
           /\ \A d \in Clients \ {c} : Streaming(d)' = Streaming(d)
           /\ \A d \in Clients \ {c} : Writable(d)' = Writable(d)
<1>1. ASSUME NEW d \in Clients \ {c}
      PROVE  /\ Streaming(d)' = Streaming(d) /\ Sent(d)' = Sent(d)
             /\ StartPos' = StartPos /\ (d \in Connected)' = (d \in Connected)
             /\ Writable(d)' = Writable(d)
  <2>1. conn'[d] = conn[d] /\ peer'[d] = peer[d] /\ write_pos' = write_pos
    BY DEF ringVars
  <2>2. Streaming(d)' = Streaming(d) /\ Sent(d)' = Sent(d) /\ StartPos' = StartPos
    BY <2>1 DEF Streaming, Sent, StartPos
  <2>3. (d \in Connected)' = (d \in Connected)
    BY <2>1 DEF Connected
  <2>4. Writable(d)' = Writable(d)
    BY <2>1 DEF Writable
  <2> QED
    BY <2>2, <2>3, <2>4
<1>2. ASSUME NEW d \in Clients \ {c} PROVE Paired(d)'
  <2>1. Paired(d) /\ conn'[d] = conn[d] /\ peer'[d] = peer[d]
    BY DEF ServerInv
  <2> QED
    BY <1>1, <2>1 DEF Paired
<1>3. ASSUME NEW d \in Clients \ {c} PROVE Verbatim(d)'
  <2>1. Verbatim(d) /\ conn'[d] = conn[d] /\ write_pos' = write_pos
    BY DEF ServerInv, ringVars
  <2> QED
    BY <1>1, <2>1 DEF Verbatim
<1> QED
  BY <1>1, <1>2, <1>3

(* A step that only touches c while the loop is where it was. *)
LEMMA OthersUpToDate ==
    ASSUME ServerInv, NEW c \in Clients, UNCHANGED <<ringVars, pc, job, todo>>,
           \A d \in Clients \ {c} : conn'[d] = conn[d] /\ peer'[d] = peer[d],
           ready \ {c} \subseteq ready'
    PROVE  \A d \in Clients \ {c} : UpToDate(d)'
<1> SUFFICES ASSUME NEW d \in Clients \ {c} PROVE UpToDate(d)'
  OBVIOUS
<1>1. UpToDate(d) /\ conn'[d] = conn[d] /\ write_pos' = write_pos
  BY DEF ServerInv, ringVars
<1>2. /\ Streaming(d)' = Streaming(d) /\ Writable(d)' = Writable(d)
      /\ Busy(d)' = Busy(d)
  BY OthersKept DEF Busy
<1> QED
  BY <1>1, <1>2 DEF UpToDate

(* The ring is as it was. *)
LEMMA RingKept ==
    ASSUME RingHolds, UNCHANGED ringVars
    PROVE  RingHolds'
BY DEF RingHolds, ringVars, StartPos

(* New output: the ring holds it at its places, and no client was promised what
   it overwrites. *)
LEMMA CaptureInv ==
    ASSUME ServerInv, Capture
    PROVE  ServerInv'
<1>1. /\ UNCHANGED <<conn, peer, ready, backlog, pc, job, todo>> /\ pc = "events"
      /\ \E n \in 1..MaxCapture :
            /\ n <= Clamp(write_pos, n) /\ write_pos + n <= MaxBytes
            /\ RingWrite([k \in 1..n |-> write_pos + k - 1])
  BY DEF Capture
<1>2. PICK n \in 1..MaxCapture :
         /\ n <= Clamp(write_pos, n) /\ write_pos + n <= MaxBytes
         /\ RingWrite([k \in 1..n |-> write_pos + k - 1])
  BY <1>1
<1> DEFINE bs == [k \in 1..n |-> write_pos + k - 1]
<1>3. n \in Nat \ {0} /\ write_pos \in Nat /\ write_pos \in Bytes
  BY LogServerAssumption, BytesFacts DEF ServerInv, ServerTypes, Bytes
<1>4. n <= Capacity - (write_pos % Capacity)
  <2>1. /\ Clamp(write_pos, n) <= Capacity - (write_pos % Capacity)
        /\ Clamp(write_pos, n) \in 0..n
    BY <1>3, ClampFacts, Zenon
  <2>2. PICK w \in 0..(Capacity - 1) : w = write_pos % Capacity
    BY <1>3, Place
  <2> QED
    BY <1>2, <1>3, <2>1, <2>2, BytesFacts
<1>5. bs \in Seq(Bytes \cup {NoByte}) /\ Len(bs) = n
  <2>1. bs \in [1..n -> Bytes \cup {NoByte}]
    BY <1>2, <1>3, BytesFacts DEF Bytes
  <2> QED
    BY <1>3, <2>1, IsSequence
<1>6. \A k \in 0..(n - 1) : bs[k + 1] = write_pos + k
  BY <1>3
<1>7. RingWrite(bs)
  BY <1>2
<1> HIDE DEF bs
<1>8. mem \in [0..(Capacity - 1) -> Bytes \cup {NoByte}]
  BY DEF ServerInv, ServerTypes
<1>9. /\ mem' \in [0..(Capacity - 1) -> Bytes \cup {NoByte}]
      /\ \A k \in 0..(n - 1) : mem'[(write_pos + k) % Capacity] = bs[k + 1]
      /\ \A i \in Nat : i < write_pos /\ i >= write_pos + n - Capacity
            => mem'[i % Capacity] = mem[i % Capacity]
  BY <1>3, <1>4, <1>5, <1>7, <1>8, WriteFacts
<1>10. write_pos' = write_pos + n
  <2>1. write_pos + n \in 0..(PosLimit - 1)
    BY <1>2, <1>3, BytesFacts
  <2>2. (write_pos + n) % PosLimit = write_pos + n
    BY <2>1, BytesFacts, ModSmall
  <2> QED
    BY <1>5, <1>7, <2>2 DEF RingWrite
<1>11. StartPos \in Nat /\ StartPos' \in Nat /\ StartPos <= StartPos'
       /\ StartPos' >= write_pos + n - Capacity
  BY <1>3, <1>10, BytesFacts DEF StartPos
<1>12. RingHolds'
  <2> SUFFICES ASSUME NEW i \in Nat, i < write_pos + n, i >= StartPos'
               PROVE  mem'[i % Capacity] = i
    BY <1>3, <1>10 DEF RingHolds
  <2>1. CASE i >= write_pos
    <3>1. PICK k \in 0..(n - 1) : i = write_pos + k
      BY <1>3, <2>1
    <3> QED
      BY <1>6, <1>9, <3>1
  <2>2. CASE i < write_pos
    <3>1. mem'[i % Capacity] = mem[i % Capacity]
      <4>1. i >= write_pos + n - Capacity
        BY <1>3, <1>11, BytesFacts
      <4> QED
        BY <1>9, <2>2, <4>1
    <3>2. i \in 0..(write_pos - 1) /\ i >= StartPos
      BY <1>3, <1>11, <2>2
    <3>3. mem[i % Capacity] = i
      BY <3>2 DEF ServerInv, RingHolds
    <3> QED
      BY <3>1, <3>3
  <2> QED
    BY <1>3, <2>1, <2>2
<1>13. ServerTypes'
  BY <1>1, <1>2, <1>3, <1>9, <1>10, BytesFacts DEF ServerInv, ServerTypes, Bytes
<1>14. Serving'
  BY <1>1 DEF ServerInv, Serving, Streaming
<1>15. ASSUME NEW c \in Clients PROVE Paired(c)' /\ Verbatim(c)' /\ UpToDate(c)'
  <2>1. /\ Sent(c)' = Sent(c) /\ Streaming(c)' = Streaming(c)
        /\ conn' = conn /\ peer' = peer
        /\ (c \in Connected)' = (c \in Connected) /\ Writable(c)' = Writable(c)
    BY <1>1 DEF Sent, Streaming, Connected, Writable
  <2>2. Paired(c)'
    BY <2>1 DEF ServerInv, Paired
  <2>3. UpToDate(c)'
    BY <1>1, <2>1 DEF ServerInv, UpToDate, Busy
  <2>4. Verbatim(c)'
    <3>1. Verbatim(c)
      BY DEF ServerInv
    <3>2. conn[c].cursor \in Nat
      BY FromFacts
    <3>3. /\ conn[c].cursor <= write_pos + n
          /\ \A i, j \in 1..Len(Sent(c)) : i < j => Sent(c)[i] < Sent(c)[j]
      BY <1>3, <3>1, <3>2 DEF Verbatim
    <3>4. Sent(c) \in Seq(Bytes)
      BY DEF ServerInv, ServerTypes, PeerRecord, Sent
    <3>5. ASSUME NEW i \in 1..Len(Sent(c))
          PROVE  Sent(c)[i] < IF Streaming(c) THEN conn[c].cursor ELSE write_pos + n
      <4>1. Sent(c)[i] \in Nat
        BY <3>4, BytesFacts DEF Bytes
      <4> QED
        BY <1>3, <3>1, <3>2, <4>1 DEF Verbatim
    <3>6. ASSUME NEW b \in 0..(conn[c].cursor - 1)
          PROVE  b < StartPos' \/ \E i \in 1..Len(Sent(c)) : Sent(c)[i] = b
      BY <1>11, <3>1, <3>2 DEF Verbatim
    <3> QED
      BY <1>10, <2>1, <3>3, <3>5, <3>6 DEF Verbatim
  <2> QED
    BY <2>2, <2>3, <2>4
<1> QED
  BY <1>12, <1>13, <1>14, <1>15 DEF ServerInv

(* The environment changes the client's end, and never what was sent. *)
LEMMA PeerStepInv ==
    ASSUME ServerInv, NEW c \in Clients, NEW p \in PeerRecord, PeerStep(c, p),
           p.got \o p.sock = Sent(c),
           \/ p.st = peer[c].st
           \/ peer[c].st = "idle" /\ p.st = "queued"
           \/ peer[c].st = "open" /\ p.st = "quit",
           ready \subseteq ready', ready' \subseteq Clients,
           c \in ready' \/ p.st = "queued"
    PROVE  ServerInv'
<1>1. /\ UNCHANGED <<ringVars, conn, pc, job, todo>>
      /\ peer' = [peer EXCEPT ![c] = p]
  BY DEF PeerStep
<1>2. ServerTypes
  BY DEF ServerInv
<1>3. peer'[c] = p /\ \A d \in Clients \ {c} : peer'[d] = peer[d] /\ conn'[d] = conn[d]
  BY <1>1, <1>2 DEF ServerTypes
<1>4. ServerTypes'
  <2>1. peer' \in [Clients -> PeerRecord]
    BY <1>1, <1>2 DEF ServerTypes
  <2> QED
    BY <1>1, <1>2, <2>1 DEF ServerTypes, ringVars
<1>5. RingHolds' /\ Serving'
  BY <1>1, RingKept DEF ServerInv, Serving, Streaming
<1>6. /\ \A d \in Clients \ {c} : Paired(d)' /\ Verbatim(d)' /\ UpToDate(d)'
  BY <1>1, <1>3, OthersKept, OthersUpToDate
<1>7. /\ Sent(c)' = Sent(c) /\ Streaming(c)' = Streaming(c) /\ conn' = conn
      /\ (c \in Connected)' = (c \in Connected)
  BY <1>1, <1>3 DEF Sent, Streaming, Connected
<1>8. Paired(c)'
  <2>1. Paired(c)
    BY DEF ServerInv
  <2> QED
    BY <1>3, <1>7, <2>1 DEF Paired
<1>9. Verbatim(c)'
  BY <1>1, <1>7 DEF ServerInv, Verbatim, ringVars, StartPos
<1>10. UpToDate(c)'
  <2>1. UpToDate(c) /\ Paired(c)
    BY DEF ServerInv
  <2>2. Streaming(c) => c \in ready'
    BY <2>1 DEF Paired, Streaming, Connected
  <2> QED
    BY <1>1, <1>7, <2>1, <2>2 DEF UpToDate, Busy, ringVars
<1> QED
  BY <1>4, <1>5, <1>6, <1>8, <1>9, <1>10 DEF ServerInv

(* The clients connect, ask, read and hang up. *)
LEMMA EnvironmentInv ==
    ASSUME ServerInv, NEW c \in Clients,
           Connect(c) \/ SendRequest(c) \/ Receive(c) \/ HangUp(c)
    PROVE  ServerInv'
<1>1. peer[c] \in PeerRecord /\ ready \subseteq Clients
  BY DEF ServerInv, ServerTypes
<1>2. ASSUME NEW s \in {"queued", "quit"}
      PROVE  LET p == [peer[c] EXCEPT !.st = s] IN
             /\ p \in PeerRecord /\ p.st = s
             /\ p.got = peer[c].got /\ p.sock = peer[c].sock
  BY <1>1 DEF PeerRecord
<1>3. ASSUME NEW r \in {"part", "full"}
      PROVE  LET p == [peer[c] EXCEPT !.req = r] IN
             /\ p \in PeerRecord /\ p.st = peer[c].st
             /\ p.got = peer[c].got /\ p.sock = peer[c].sock
  BY <1>1 DEF PeerRecord
<1>4. peer[c].got \in Seq(Bytes) /\ peer[c].sock \in Seq(Bytes)
  BY <1>1 DEF PeerRecord
<1>5. LET p == [peer[c] EXCEPT !.got = @ \o peer[c].sock, !.sock = <<>>] IN
      /\ p \in PeerRecord /\ p.st = peer[c].st
      /\ p.got = peer[c].got \o peer[c].sock /\ p.sock = <<>>
  <2>1. peer[c].got \o peer[c].sock \in Seq(Bytes) /\ <<>> \in Seq(Bytes)
    BY <1>4
  <2> QED
    BY <1>1, <2>1 DEF PeerRecord
<1>6. CASE Connect(c)
  <2> DEFINE p == [peer[c] EXCEPT !.st = "queued"]
  <2>1. /\ p \in PeerRecord /\ p.st = "queued" /\ p.got \o p.sock = Sent(c)
    BY <1>2 DEF Sent
  <2> QED
    BY <1>1, <1>6, <2>1, PeerStepInv DEF Connect
<1>7. CASE SendRequest(c)
  <2>1. PICK r \in {"part", "full"} : PeerStep(c, [peer[c] EXCEPT !.req = r])
    BY <1>7 DEF SendRequest
  <2> DEFINE p == [peer[c] EXCEPT !.req = r]
  <2>2. /\ p \in PeerRecord /\ p.st = peer[c].st /\ p.got \o p.sock = Sent(c)
    BY <1>3 DEF Sent
  <2> HIDE DEF p
  <2>3. PeerStep(c, p) /\ ready' = ready \cup {c}
    BY <1>7, <2>1 DEF SendRequest, p
  <2> QED
    BY <1>1, <2>2, <2>3, PeerStepInv
<1>8. CASE Receive(c)
  <2> DEFINE p == [peer[c] EXCEPT !.got = @ \o peer[c].sock, !.sock = <<>>]
  <2>1. p.got = peer[c].got \o peer[c].sock /\ p.sock = <<>>
    BY <1>5
  <2>2. p \in PeerRecord /\ p.st = peer[c].st
    BY <1>5
  <2>3. PeerStep(c, p) /\ ready' = ready \cup {c}
    BY <1>8 DEF Receive
  <2> HIDE DEF p
  <2>4. p.got \o p.sock = Sent(c)
    <3>1. peer[c].got \o peer[c].sock \in Seq(Bytes)
      BY <1>4
    <3> QED
      BY <2>1, <3>1, ConcatEmptySeq DEF Sent
  <2> QED
    BY <1>1, <2>2, <2>3, <2>4, PeerStepInv
<1>9. CASE HangUp(c)
  <2> DEFINE p == [peer[c] EXCEPT !.st = "quit"]
  <2>1. /\ p \in PeerRecord /\ p.st = "quit" /\ p.got \o p.sock = Sent(c)
    BY <1>2 DEF Sent
  <2> QED
    BY <1>1, <1>9, <2>1, PeerStepInv DEF HangUp
<1> QED
  BY <1>6, <1>7, <1>8, <1>9

(* A connection is accepted, or dropped. *)
LEMMA AcceptInv ==
    ASSUME ServerInv, AcceptAll
    PROVE  ServerInv'
<1> DEFINE free == Cardinality(Connected) < MaxConnections
<1>1. PICK c \in Queued :
         /\ conn' = IF free THEN [conn EXCEPT ![c].state = "awaiting"] ELSE conn
         /\ peer' = [peer EXCEPT ![c].st = IF free THEN "open" ELSE "dropped"]
         /\ ready' = ready \cup {c}
  BY DEF AcceptAll
<1> HIDE DEF free
<1>2. UNCHANGED <<ringVars, pc, job, todo>> /\ ServerTypes
  BY DEF AcceptAll, ServerInv
<1>3. c \in Clients /\ peer[c].st = "queued" /\ Paired(c)
  BY DEF Queued, ServerInv
<1>4. /\ conn[c].state = "absent" /\ conn[c].cursor = 0
      /\ conn[c].dump_until = NoBound /\ ~conn[c].write_blocked
      /\ ~conn[c].close_after_flush /\ Sent(c) = <<>>
      /\ conn[c].writable_registered = conn[c].write_blocked
  BY <1>3 DEF Paired, Connected, Streaming
<1>5. conn[c] \in ConnRecord /\ peer[c] \in PeerRecord
  BY <1>2, <1>3 DEF ServerTypes
<1>6. LET k == [conn[c] EXCEPT !.state = "awaiting"] IN
      /\ k \in ConnRecord /\ k.state = "awaiting" /\ k.cursor = 0
      /\ k.dump_until = NoBound /\ ~k.write_blocked /\ ~k.close_after_flush
      /\ k.writable_registered = k.write_blocked
  BY <1>4, <1>5 DEF ConnRecord
<1>7. ASSUME NEW s \in {"open", "dropped"}
      PROVE  LET p == [peer[c] EXCEPT !.st = s] IN
             /\ p \in PeerRecord /\ p.st = s
             /\ p.got = peer[c].got /\ p.sock = peer[c].sock
  BY <1>5 DEF PeerRecord
<1>8. /\ peer'[c].st = IF free THEN "open" ELSE "dropped"
      /\ peer'[c].got = peer[c].got /\ peer'[c].sock = peer[c].sock
      /\ peer' \in [Clients -> PeerRecord]
      /\ \A d \in Clients \ {c} : peer'[d] = peer[d]
  <2>1. PICK s \in {"open", "dropped"} : s = IF free THEN "open" ELSE "dropped"
    OBVIOUS
  <2>2. peer' = [peer EXCEPT ![c] = [peer[c] EXCEPT !.st = s]]
    BY <1>1, <2>1
  <2> QED
    BY <1>2, <1>3, <1>7, <2>1, <2>2 DEF ServerTypes
<1>9. /\ conn'[c].state = IF free THEN "awaiting" ELSE "absent"
      /\ conn'[c].cursor = 0 /\ conn'[c].dump_until = NoBound
      /\ ~conn'[c].write_blocked /\ ~conn'[c].close_after_flush
      /\ conn'[c].writable_registered = conn'[c].write_blocked
      /\ conn' \in [Clients -> ConnRecord]
      /\ \A d \in Clients \ {c} : conn'[d] = conn[d]
  <2>1. CASE free
    <3>1. conn' = [conn EXCEPT ![c] = [conn[c] EXCEPT !.state = "awaiting"]]
      BY <1>1, <2>1
    <3> QED
      BY <1>2, <1>3, <1>6, <2>1, <3>1 DEF ServerTypes
  <2>2. CASE ~free
    BY <1>1, <1>2, <1>4, <2>2 DEF ServerTypes
  <2> QED
    BY <2>1, <2>2
<1>10. ServerTypes'
  BY <1>1, <1>2, <1>3, <1>8, <1>9 DEF ServerTypes, ringVars
<1>11. \A d \in Clients \ {c} : Paired(d)' /\ Verbatim(d)' /\ UpToDate(d)'
                                /\ Streaming(d)' = Streaming(d)
  BY <1>1, <1>2, <1>3, <1>8, <1>9, OthersKept, OthersUpToDate
<1>12. RingHolds'
  BY <1>2, RingKept DEF ServerInv
<1>13. Serving'
  <2>1. ~Streaming(c)
    BY <1>4 DEF Streaming
  <2> QED
    BY <1>2, <1>11, <2>1 DEF ServerInv, Serving, ServerTypes
<1>14. Sent(c)' = <<>>
  BY <1>4, <1>8 DEF Sent
<1>15. ~Streaming(c)' /\ ((c \in Connected)' <=> free)
  BY <1>3, <1>9 DEF Streaming, Connected
<1>16. Paired(c)'
  BY <1>8, <1>9, <1>14, <1>15 DEF Paired
<1>17. Verbatim(c)'
  <2>1. write_pos' \in Nat
    BY <1>10, BytesFacts DEF ServerTypes, Bytes
  <2> QED
    BY <1>9, <1>14, <1>15, <2>1 DEF Verbatim
<1>18. UpToDate(c)'
  BY <1>15 DEF UpToDate
<1> QED
  BY <1>10, <1>11, <1>12, <1>13, <1>16, <1>17, <1>18 DEF ServerInv

(* close leaves the client with what it was sent. *)
LEMMA CloseFacts ==
    ASSUME ServerInv, NEW c \in Connected, UNCHANGED ringVars, Close(c)
    PROVE  /\ conn' \in [Clients -> ConnRecord] /\ peer' \in [Clients -> PeerRecord]
           /\ ready' = ready \ {c}
           /\ \A d \in Clients \ {c} : conn'[d] = conn[d] /\ peer'[d] = peer[d]
           /\ Paired(c)' /\ Verbatim(c)' /\ ~Streaming(c)' /\ c \notin Connected'
           /\ Sent(c)' = Sent(c) /\ conn'[c] = Absent
           /\ peer'[c].st = IF peer[c].st = "quit" THEN "quit" ELSE "closed"
<1>1. ServerTypes /\ c \in Clients /\ Paired(c) /\ Verbatim(c)
  BY DEF ServerInv, Connected
<1>2. /\ Absent \in ConnRecord /\ Absent.state = "absent" /\ Absent.cursor = 0
      /\ Absent.dump_until = NoBound /\ ~Absent.write_blocked
      /\ ~Absent.close_after_flush
      /\ Absent.writable_registered = Absent.write_blocked
  BY BytesFacts DEF Absent, ConnRecord, Bytes
<1>3. /\ conn' \in [Clients -> ConnRecord] /\ conn'[c] = Absent
      /\ \A d \in Clients \ {c} : conn'[d] = conn[d]
  BY <1>1, <1>2 DEF Close, ServerTypes
<1>4. PICK s \in {"quit", "closed"} : s = IF peer[c].st = "quit" THEN "quit" ELSE "closed"
  OBVIOUS
<1>5. peer[c] \in PeerRecord
  BY <1>1 DEF ServerTypes
<1>6. LET p == [peer[c] EXCEPT !.st = s] IN
      p \in PeerRecord /\ p.st = s /\ p.got = peer[c].got /\ p.sock = peer[c].sock
  BY <1>5 DEF PeerRecord
<1>7. peer' = [peer EXCEPT ![c] = [peer[c] EXCEPT !.st = s]]
  <2>1. peer' = [peer EXCEPT ![c].st = IF peer[c].st = "quit" THEN peer[c].st ELSE "closed"]
    BY DEF Close
  <2> QED
    BY <1>4, <2>1
<1>8. /\ peer' \in [Clients -> PeerRecord] /\ peer'[c].st = s
      /\ peer'[c].got = peer[c].got /\ peer'[c].sock = peer[c].sock
      /\ \A d \in Clients \ {c} : peer'[d] = peer[d]
  BY <1>1, <1>6, <1>7 DEF ServerTypes
<1>9. ~Streaming(c)' /\ c \notin Connected' /\ Sent(c)' = Sent(c)
  BY <1>2, <1>3, <1>8 DEF Streaming, Connected, Sent
<1>10. Paired(c)'
  <2>1. conn'[c].state # "awaiting"
    BY <1>2, <1>3
  <2> QED
    BY <1>2, <1>3, <1>8, <1>9, <2>1 DEF Paired
<1>11. Verbatim(c)'
  <2>1. write_pos' = write_pos /\ write_pos \in Nat
    BY <1>1, BytesFacts DEF ringVars, ServerTypes, Bytes
  <2>2. Sent(c) \in Seq(Nat)
    BY <1>5, BytesFacts DEF PeerRecord, Sent, Bytes
  <2>3. conn[c].cursor <= write_pos /\ conn[c].cursor \in Nat
    BY <1>1, FromFacts DEF Verbatim
  <2>4. \A i \in 1..Len(Sent(c)) : Sent(c)[i] < write_pos
    BY <1>1, <2>1, <2>2, <2>3 DEF Verbatim
  <2>5. \A i, j \in 1..Len(Sent(c)) : i < j => Sent(c)[i] < Sent(c)[j]
    BY <1>1 DEF Verbatim
  <2>6. conn'[c].cursor = 0 /\ 0 <= write_pos
    BY <1>2, <1>3, <2>1
  <2> QED
    BY <1>9, <2>1, <2>4, <2>5, <2>6 DEF Verbatim
<1> QED
  BY <1>3, <1>4, <1>8, <1>9, <1>10, <1>11 DEF Close

(* A connection is closed while the loop handles events. *)
LEMMA CloseInv ==
    ASSUME ServerInv, NEW c \in Connected, UNCHANGED <<ringVars, pc, job, todo>>,
           pc = "events", Close(c)
    PROVE  ServerInv'
<1>1. ServerTypes /\ c \in Clients
  BY DEF ServerInv, Connected
<1>2. /\ conn' \in [Clients -> ConnRecord] /\ peer' \in [Clients -> PeerRecord]
      /\ ready' = ready \ {c}
      /\ \A d \in Clients \ {c} : conn'[d] = conn[d] /\ peer'[d] = peer[d]
      /\ Paired(c)' /\ Verbatim(c)' /\ ~Streaming(c)'
  BY CloseFacts
<1>3. ServerTypes'
  BY <1>1, <1>2 DEF ServerTypes, ringVars
<1>4. RingHolds'
  BY RingKept DEF ServerInv
<1>5. Serving'
  BY DEF ServerInv, Serving
<1>6. \A d \in Clients \ {c} : Paired(d)' /\ Verbatim(d)' /\ UpToDate(d)'
  BY <1>1, <1>2, OthersKept, OthersUpToDate
<1>7. UpToDate(c)'
  BY <1>2 DEF UpToDate
<1> QED
  BY <1>2, <1>3, <1>4, <1>5, <1>6, <1>7 DEF ServerInv

(* What handle_readable makes of a connection before try_send. *)
Eof(c) == [conn[c] EXCEPT !.close_after_flush = @ \/ (peer[c].st = "quit")]
IsNew(c) == conn[c].state = "awaiting" /\ peer[c].req = "full"
Opened(c) == IF IsNew(c) THEN Subscribed(c, Eof(c)) ELSE Eof(c)

(* A connection that starts to stream, and its fields. *)
Begun(k, f, u) == [k EXCEPT !.state = "streaming", !.follow = f, !.dump_until = u]

(* The other fields stay as they were. *)
LEMMA BegunFields ==
    ASSUME NEW k \in ConnRecord, NEW f \in BOOLEAN, NEW u \in Bytes \cup {NoBound}
    PROVE  /\ Begun(k, f, u) \in ConnRecord
           /\ Begun(k, f, u).state = "streaming"
           /\ Begun(k, f, u).cursor = k.cursor
           /\ Begun(k, f, u).dump_until = u
           /\ Begun(k, f, u).write_blocked = k.write_blocked
           /\ Begun(k, f, u).writable_registered = k.writable_registered
           /\ Begun(k, f, u).close_after_flush = k.close_after_flush
BY DEF Begun, ConnRecord

(* The cursor and the interest are kept, and a client that is gone closes the
   connection once it is flushed. *)
LEMMA OpenedFacts ==
    ASSUME ServerInv, NEW c \in Clients, Streaming(c) \/ IsNew(c)
    PROVE  /\ Opened(c) \in ConnRecord /\ Opened(c).state = "streaming"
           /\ Opened(c).cursor = conn[c].cursor
           /\ Opened(c).write_blocked = conn[c].write_blocked
           /\ Opened(c).writable_registered = conn[c].writable_registered
           /\ Opened(c).close_after_flush
                 = (conn[c].close_after_flush \/ peer[c].st = "quit")
           /\ Streaming(c) => Opened(c).dump_until = conn[c].dump_until
           /\ ~Streaming(c) => Opened(c).dump_until \in {NoBound, write_pos}
<1>1. conn[c] \in ConnRecord /\ peer[c].follow \in BOOLEAN /\ write_pos \in Bytes
  BY DEF ServerInv, ServerTypes, PeerRecord
<1>2. PICK q \in BOOLEAN : q = (conn[c].close_after_flush \/ peer[c].st = "quit")
  OBVIOUS
<1>3. Eof(c) = [conn[c] EXCEPT !.close_after_flush = q]
  BY <1>2 DEF Eof
<1>4. /\ Eof(c) \in ConnRecord /\ Eof(c).state = conn[c].state
      /\ Eof(c).cursor = conn[c].cursor
      /\ Eof(c).dump_until = conn[c].dump_until
      /\ Eof(c).write_blocked = conn[c].write_blocked
      /\ Eof(c).writable_registered = conn[c].writable_registered
      /\ Eof(c).close_after_flush = q
  BY <1>1, <1>3 DEF ConnRecord
<1>5. PICK u \in {NoBound, write_pos} : u = IF peer[c].follow THEN NoBound ELSE write_pos
  OBVIOUS
<1>6. Subscribed(c, Eof(c)) = [Eof(c) EXCEPT !.state = "streaming",
                                 !.follow = peer[c].follow, !.dump_until = u]
  BY <1>5 DEF Subscribed
<1>7. /\ Subscribed(c, Eof(c)) \in ConnRecord
      /\ Subscribed(c, Eof(c)).state = "streaming"
      /\ Subscribed(c, Eof(c)).cursor = Eof(c).cursor
      /\ Subscribed(c, Eof(c)).dump_until = u
      /\ Subscribed(c, Eof(c)).write_blocked = Eof(c).write_blocked
      /\ Subscribed(c, Eof(c)).writable_registered = Eof(c).writable_registered
      /\ Subscribed(c, Eof(c)).close_after_flush = Eof(c).close_after_flush
  <2>1. u \in Bytes \cup {NoBound}
    BY <1>1
  <2>2. Subscribed(c, Eof(c)) = Begun(Eof(c), peer[c].follow, u)
    BY <1>6 DEF Begun
  <2> QED
    BY <1>1, <1>4, <2>1, <2>2, BegunFields
<1>8. CASE IsNew(c)
  BY <1>2, <1>4, <1>7, <1>8 DEF Opened, IsNew, Streaming
<1>9. CASE ~IsNew(c)
  BY <1>2, <1>4, <1>9 DEF Opened, Streaming
<1> QED
  BY <1>8, <1>9

(* An event of a connection. *)
LEMMA HandleEventInv ==
    ASSUME ServerInv, NEW c \in Clients, HandleEvent(c)
    PROVE  ServerInv'
<1>1. /\ pc = "events" /\ c \in Connected /\ c \in ready
      /\ UNCHANGED <<ringVars, backlog, todo>>
  BY DEF HandleEvent
<1>2. ServerTypes /\ Paired(c) /\ Verbatim(c) /\ UpToDate(c) /\ todo = {}
  BY <1>1 DEF ServerInv, Serving
<1>3. CASE Close(c) /\ UNCHANGED <<pc, job>>
  BY <1>1, <1>3, CloseInv
<1>4. CASE /\ ~Streaming(c) /\ ready' = ready \ {c}
           /\ UNCHANGED <<conn, peer, pc, job>>
  <2>1. \A d \in Clients \ {c} : Paired(d)' /\ Verbatim(d)' /\ UpToDate(d)'
    BY <1>1, <1>4, OthersKept, OthersUpToDate
  <2>2. ServerTypes' /\ RingHolds' /\ Serving'
    BY <1>1, <1>2, <1>4, RingKept DEF ServerInv, ServerTypes, Serving, ringVars
  <2>3. Paired(c)' /\ Verbatim(c)'
    BY <1>1, <1>2, <1>4
    DEF Paired, Verbatim, Sent, Streaming, Connected, ringVars, StartPos
  <2>4. UpToDate(c)'
    BY <1>4 DEF UpToDate, Streaming
  <2> QED
    BY <2>1, <2>2, <2>3, <2>4 DEF ServerInv
<1>5. CASE /\ Streaming(c) \/ IsNew(c)
           /\ conn' = [conn EXCEPT ![c] = Opened(c)]
           /\ peer' = [peer EXCEPT ![c].req = "read"]
           /\ ready' = ready \ {c}
           /\ pc' = "send" /\ job' = <<"event", c>>
  <2>1. /\ Opened(c) \in ConnRecord /\ Opened(c).state = "streaming"
        /\ Opened(c).cursor = conn[c].cursor
        /\ Opened(c).write_blocked = conn[c].write_blocked
        /\ Opened(c).writable_registered = conn[c].writable_registered
        /\ Opened(c).close_after_flush
              = (conn[c].close_after_flush \/ peer[c].st = "quit")
    BY <1>5, OpenedFacts
  <2>2. peer[c] \in PeerRecord
    BY <1>2 DEF ServerTypes
  <2>3. LET p == [peer[c] EXCEPT !.req = "read"] IN
        /\ p \in PeerRecord /\ p.st = peer[c].st
        /\ p.got = peer[c].got /\ p.sock = peer[c].sock
    BY <2>2 DEF PeerRecord
  <2>4. peer' = [peer EXCEPT ![c] = [peer[c] EXCEPT !.req = "read"]]
    BY <1>5
  <2>5. /\ peer' \in [Clients -> PeerRecord] /\ peer'[c].st = peer[c].st
        /\ peer'[c].got = peer[c].got /\ peer'[c].sock = peer[c].sock
        /\ \A d \in Clients \ {c} : peer'[d] = peer[d]
    BY <1>2, <2>3, <2>4 DEF ServerTypes
  <2>6. /\ conn' \in [Clients -> ConnRecord] /\ conn'[c] = Opened(c)
        /\ \A d \in Clients \ {c} : conn'[d] = conn[d]
    BY <1>2, <1>5, <2>1 DEF ServerTypes
  <2>7. ServerTypes' /\ RingHolds'
    BY <1>1, <1>2, <1>5, <2>5, <2>6, RingKept DEF ServerInv, ServerTypes, ringVars
  <2>8. Streaming(c)' /\ (c \in Connected)' /\ Sent(c)' = Sent(c)
    BY <2>1, <2>5, <2>6 DEF Streaming, Connected, Sent
  <2>9. Serving'
    BY <1>1, <1>2, <1>5, <2>8 DEF Serving
  <2>10. \A d \in Clients \ {c} : /\ Paired(d)' /\ Verbatim(d)'
                                  /\ Streaming(d)' = Streaming(d)
                                  /\ Writable(d)' = Writable(d)
    BY <1>1, <2>5, <2>6, OthersKept
  <2>11. ASSUME NEW d \in Clients \ {c} PROVE UpToDate(d)'
    <3>1. Streaming(d) /\ Writable(d) => d \in ready
      BY <1>1 DEF ServerInv, UpToDate, Busy
    <3>2. pc' = "send" /\ job'[1] = "event"
      BY <1>5
    <3> QED
      BY <1>5, <2>10, <3>1, <3>2 DEF UpToDate
  <2>12. UpToDate(c)'
    BY <1>5 DEF UpToDate, Busy
  <2>13. Paired(c)'
    <3>1. peer[c].st \in {"open", "quit"}
      BY <1>1, <1>2 DEF Paired
    <3> QED
      BY <1>2, <2>1, <2>5, <2>6, <2>8, <3>1 DEF Paired, Streaming
  <2>14. Verbatim(c)'
    <3>1. CASE Streaming(c)
      BY <1>1, <1>2, <2>1, <2>6, <2>8, <3>1 DEF Verbatim, ringVars, StartPos
    <3>2. CASE ~Streaming(c)
      <4>1. Sent(c) = <<>> /\ conn[c].cursor = 0
        BY <1>2, <1>5, <3>2 DEF Paired, IsNew
      <4>2. write_pos' = write_pos /\ 0 <= write_pos
        BY <1>1, FromFacts DEF ringVars
      <4> QED
        BY <2>1, <2>6, <2>8, <4>1, <4>2 DEF Verbatim
    <3> QED
      BY <3>1, <3>2
  <2> QED
    BY <2>7, <2>9, <2>10, <2>11, <2>12, <2>13, <2>14 DEF ServerInv
<1> QED
  BY <1>3, <1>4, <1>5 DEF HandleEvent, IsNew, Opened, Eof

(* A strictly increasing sequence below m goes on with t, the numbers from f on. *)
LEMMA Extended ==
    ASSUME NEW s \in Seq(Nat), NEW t \in Seq(Nat), NEW m \in Nat, NEW f \in Nat,
           m <= f,
           \A i, j \in 1..Len(s) : i < j => s[i] < s[j],
           \A i \in 1..Len(s) : s[i] < m,
           \A k \in 1..Len(t) : t[k] = f + k - 1
    PROVE  /\ \A i, j \in 1..Len(s \o t) : i < j => (s \o t)[i] < (s \o t)[j]
           /\ \A i \in 1..Len(s \o t) : (s \o t)[i] < f + Len(t)
           /\ \A i \in 1..Len(s) : i \in 1..Len(s \o t) /\ (s \o t)[i] = s[i]
           /\ \A b \in f..(f + Len(t) - 1) :
                 \E i \in 1..Len(s \o t) : (s \o t)[i] = b
<1> DEFINE u == s \o t
<1>1. /\ u \in Seq(Nat) /\ Len(u) = Len(s) + Len(t)
      /\ \A i \in 1..(Len(s) + Len(t)) :
            u[i] = IF i <= Len(s) THEN s[i] ELSE t[i - Len(s)]
  BY ConcatProperties
<1>2. Len(s) \in Nat /\ Len(t) \in Nat
  OBVIOUS
<1> HIDE DEF u
<1>3. ASSUME NEW i \in 1..Len(u), i <= Len(s)
      PROVE  u[i] = s[i] /\ u[i] \in Nat /\ u[i] < m
  BY <1>1, <1>2, <1>3
<1>4. ASSUME NEW i \in 1..Len(u), i > Len(s)
      PROVE  u[i] = f + (i - Len(s)) - 1
  <2>1. i - Len(s) \in 1..Len(t) /\ u[i] = t[i - Len(s)]
    BY <1>1, <1>2, <1>4
  <2> QED
    BY <2>1
<1>5. ASSUME NEW i \in 1..Len(u), NEW j \in 1..Len(u), i < j PROVE u[i] < u[j]
  <2>1. CASE j <= Len(s)
    <3>1. i \in 1..Len(s) /\ j \in 1..Len(s) /\ i <= Len(s)
      BY <1>1, <1>2, <1>5, <2>1
    <3>2. u[i] = s[i] /\ u[j] = s[j]
      BY <1>3, <2>1, <3>1
    <3> QED
      BY <1>5, <3>1, <3>2
  <2>2. CASE i <= Len(s) /\ j > Len(s)
    BY <1>1, <1>2, <1>3, <1>4, <2>2
  <2>3. CASE i > Len(s)
    <3>1. j > Len(s)
      BY <1>1, <1>2, <1>5, <2>3
    <3> QED
      BY <1>1, <1>2, <1>4, <1>5, <2>3, <3>1
  <2> QED
    BY <1>1, <1>2, <2>1, <2>2, <2>3
<1>6. ASSUME NEW i \in 1..Len(u) PROVE u[i] < f + Len(t)
  <2>1. CASE i <= Len(s)
    <3>1. u[i] \in Nat /\ u[i] < m
      BY <1>3, <2>1
    <3> QED
      BY <1>2, <3>1
  <2>2. CASE i > Len(s)
    <3>1. u[i] = f + (i - Len(s)) - 1
      BY <1>4, <2>2
    <3> QED
      BY <1>1, <1>2, <2>2, <3>1
  <2> QED
    BY <1>1, <1>2, <2>1, <2>2
<1>7. ASSUME NEW i \in 1..Len(s) PROVE i \in 1..Len(u) /\ u[i] = s[i]
  BY <1>1, <1>2
<1>8. ASSUME NEW b \in f..(f + Len(t) - 1) PROVE \E i \in 1..Len(u) : u[i] = b
  <2> DEFINE i == Len(s) + (b - f) + 1
  <2>1. i \in 1..Len(u) /\ i > Len(s) /\ i - Len(s) = (b - f) + 1
    BY <1>1, <1>2
  <2> HIDE DEF i
  <2>2. u[i] = b
    BY <1>4, <2>1
  <2> QED
    BY <2>1, <2>2
<1> QED
  BY <1>5, <1>6, <1>7, <1>8 DEF u

(* The fields of a connection whose cursor moves, and of a client that is sent
   more. *)
Moved(k, n) == [k EXCEPT !.cursor = n]
SentMore(p, s) == [p EXCEPT !.sock = s]

(* Only the cursor is new. *)
LEMMA MovedFields ==
    ASSUME NEW k \in ConnRecord, NEW n \in Bytes
    PROVE  /\ Moved(k, n) \in ConnRecord /\ Moved(k, n).cursor = n
           /\ Moved(k, n).state = k.state
           /\ Moved(k, n).dump_until = k.dump_until
           /\ Moved(k, n).write_blocked = k.write_blocked
           /\ Moved(k, n).writable_registered = k.writable_registered
           /\ Moved(k, n).close_after_flush = k.close_after_flush
BY DEF Moved, ConnRecord

(* Only the socket holds more. *)
LEMMA SentMoreFields ==
    ASSUME NEW p \in PeerRecord, NEW s \in Seq(Bytes)
    PROVE  /\ SentMore(p, s) \in PeerRecord /\ SentMore(p, s).sock = s
           /\ SentMore(p, s).got = p.got /\ SentMore(p, s).st = p.st
BY DEF SentMore, PeerRecord

(* The n bytes of the log from f on. *)
LogFrom(f, n) == [k \in 1..n |-> f + k - 1]

(* They are bytes, in their order. *)
LEMMA LogFromFacts ==
    ASSUME NEW f \in Nat, NEW n \in Nat, f + n \in Bytes
    PROVE  /\ LogFrom(f, n) \in Seq(Bytes) /\ Len(LogFrom(f, n)) = n
           /\ \A k \in 1..n : LogFrom(f, n)[k] = f + k - 1
<1>1. \A k \in 1..n : f + k - 1 \in Bytes
  BY BytesFacts DEF Bytes
<1>2. LogFrom(f, n) \in [1..n -> Bytes]
  BY <1>1 DEF LogFrom
<1> QED
  BY <1>2, IsSequence DEF LogFrom

(* What a round of try_send does: the client is sent the n bytes of the log from
   From(c) on, and the cursor moves past them. *)
LEMMA SendFacts ==
    ASSUME ServerInv, SendChunk
    PROVE  \E c \in Clients, n \in Nat :
              /\ c = job[2] /\ n > 0 /\ From(c) + n <= write_pos
              /\ conn' = [conn EXCEPT ![c] = Moved(conn[c], From(c) + n)]
              /\ peer' = [peer EXCEPT ![c] =
                            SentMore(peer[c], peer[c].sock \o LogFrom(From(c), n))]
<1>1. pc = "send"
  BY DEF SendChunk
<1>2. PICK c \in Clients : c = job[2]
  BY <1>1 DEF ServerInv, Serving
<1> DEFINE chunk == ReadFromCursor(conn[c].cursor)
           room  == SocketSize - Len(peer[c].sock)
           n     == IF Len(chunk.buffer) <= room THEN Len(chunk.buffer) ELSE room
           t     == SubSeq(chunk.buffer, 1, n)
<1>3. /\ n > 0
      /\ conn' = [conn EXCEPT ![c].cursor = @ + chunk.missed + n]
      /\ peer' = [peer EXCEPT ![c].sock = @ \o t]
  BY <1>2 DEF SendChunk
<1>4. /\ conn[c].cursor + chunk.missed = From(c)
      /\ chunk.buffer \in Seq(Bytes)
      /\ From(c) + Len(chunk.buffer) <= write_pos
      /\ \A k \in 1..Len(chunk.buffer) : chunk.buffer[k] = From(c) + k - 1
  BY ChunkFacts
<1>5. conn \in [Clients -> ConnRecord] /\ peer \in [Clients -> PeerRecord]
  BY DEF ServerInv, ServerTypes
<1>6. Len(peer[c].sock) \in Nat /\ From(c) \in Nat /\ write_pos \in Nat
  BY <1>5, FromFacts DEF PeerRecord
<1> HIDE DEF chunk
<1>7. n \in 0..Len(chunk.buffer) /\ n \in Nat /\ Len(chunk.buffer) \in Nat
  <2>1. n > 0 /\ room \in Int /\ Len(chunk.buffer) \in Nat
    BY <1>3, <1>4, <1>6, BytesFacts, SMTT(30)
  <2> HIDE DEF room
  <2> QED
    BY <2>1
<1> HIDE DEF n
<1>8. t = LogFrom(From(c), n)
  <2>1. t = [k \in 1..n |-> chunk.buffer[k]]
    BY <1>4, <1>7
  <2>2. \A k \in 1..n : chunk.buffer[k] = From(c) + k - 1
    BY <1>4, <1>7
  <2> QED
    BY <2>1, <2>2 DEF LogFrom
<1>9. From(c) + n <= write_pos
  BY <1>4, <1>6, <1>7
<1> HIDE DEF t
<1>10. conn' = [conn EXCEPT ![c] = Moved(conn[c], From(c) + n)]
  BY <1>3, <1>4, <1>5 DEF Moved
<1>11. peer' = [peer EXCEPT ![c] = SentMore(peer[c], peer[c].sock \o LogFrom(From(c), n))]
  BY <1>3, <1>5, <1>8 DEF SentMore
<1>12. n > 0 /\ n \in Nat
  BY <1>3, <1>7
<1> QED
  BY <1>2, <1>9, <1>10, <1>11, <1>12

(* try_send sends the log on, verbatim. *)
LEMMA SendChunkInv ==
    ASSUME ServerInv, SendChunk
    PROVE  ServerInv'
<1>1. pc = "send" /\ UNCHANGED <<ringVars, ready, backlog, pc, job, todo>>
  BY DEF SendChunk
<1>a. PICK c \in Clients, n \in Nat :
         /\ c = job[2] /\ n > 0 /\ From(c) + n <= write_pos
         /\ conn' = [conn EXCEPT ![c] = Moved(conn[c], From(c) + n)]
         /\ peer' = [peer EXCEPT ![c] =
                       SentMore(peer[c], peer[c].sock \o LogFrom(From(c), n))]
  BY SendFacts
<1>3. ServerTypes /\ Paired(c) /\ Verbatim(c) /\ Streaming(c)
  BY <1>1, <1>a DEF ServerInv, Serving
<1>4. conn[c] \in ConnRecord /\ peer[c] \in PeerRecord
  BY <1>3 DEF ServerTypes
<1>5. peer[c].sock \in Seq(Bytes) /\ peer[c].got \in Seq(Bytes)
  BY <1>4 DEF PeerRecord
<1>6. /\ conn[c].cursor \in Nat /\ StartPos \in Nat /\ write_pos \in Nat
      /\ From(c) \in Nat /\ conn[c].cursor <= From(c)
  BY FromFacts
<1>7. From(c) + n \in Bytes
  <2>1. write_pos \in 0..MaxBytes
    BY <1>3 DEF ServerTypes, Bytes
  <2> QED
    BY <1>a, <1>6, <2>1, BytesFacts DEF Bytes
<1>b. PICK t \in Seq(Bytes) :
         t = LogFrom(From(c), n) /\ n = Len(t) /\ \A k \in 1..n : t[k] = From(c) + k - 1
  BY <1>6, <1>7, LogFromFacts
<1>2. /\ c = job[2] /\ n > 0 /\ n = Len(t) /\ From(c) + n <= write_pos
      /\ \A k \in 1..n : t[k] = From(c) + k - 1
      /\ conn' = [conn EXCEPT ![c] = Moved(conn[c], From(c) + n)]
      /\ peer' = [peer EXCEPT ![c] = SentMore(peer[c], peer[c].sock \o t)]
  BY <1>a, <1>b
<1>8. /\ conn'[c] = Moved(conn[c], From(c) + n)
      /\ peer'[c] = SentMore(peer[c], peer[c].sock \o t)
      /\ \A d \in Clients \ {c} : conn'[d] = conn[d] /\ peer'[d] = peer[d]
  BY <1>2, <1>3 DEF ServerTypes
<1>9. peer[c].sock \o t \in Seq(Bytes)
  BY <1>5
<1>10. /\ conn'[c] \in ConnRecord /\ conn'[c].cursor = From(c) + n
       /\ conn'[c].state = conn[c].state
       /\ conn'[c].write_blocked = conn[c].write_blocked
       /\ conn'[c].writable_registered = conn[c].writable_registered
       /\ conn'[c].close_after_flush = conn[c].close_after_flush
       /\ peer'[c] \in PeerRecord /\ peer'[c].sock = peer[c].sock \o t
       /\ peer'[c].got = peer[c].got /\ peer'[c].st = peer[c].st
  <2>1. PICK k \in ConnRecord : k = conn[c]
    BY <1>4
  <2>2. PICK p \in PeerRecord : p = peer[c]
    BY <1>4
  <2>3. PICK s \in Seq(Bytes) : s = peer[c].sock \o t
    BY <1>9
  <2>4. PICK x \in Bytes : x = From(c) + n
    BY <1>7
  <2>5. conn'[c] = Moved(k, x) /\ peer'[c] = SentMore(p, s)
    BY <1>8, <2>1, <2>2, <2>3, <2>4
  <2>6. /\ conn'[c] \in ConnRecord /\ conn'[c].cursor = x
        /\ conn'[c].state = k.state
        /\ conn'[c].write_blocked = k.write_blocked
        /\ conn'[c].writable_registered = k.writable_registered
        /\ conn'[c].close_after_flush = k.close_after_flush
    BY <2>5, MovedFields
  <2>7. /\ peer'[c] \in PeerRecord /\ peer'[c].sock = s
        /\ peer'[c].got = p.got /\ peer'[c].st = p.st
    BY <2>5, SentMoreFields
  <2> QED
    BY <2>1, <2>2, <2>3, <2>4, <2>6, <2>7
<1>11. ServerTypes'
  BY <1>1, <1>2, <1>3, <1>8, <1>10 DEF ServerTypes, ringVars
<1>12. RingHolds'
  BY <1>1, RingKept DEF ServerInv
<1>13. Streaming(c)' /\ (c \in Connected)'
  BY <1>3, <1>10 DEF Streaming, Connected
<1>14. \A d \in Clients \ {c} : Paired(d)' /\ Verbatim(d)' /\ UpToDate(d)'
                                /\ Streaming(d)' = Streaming(d)
  BY <1>1, <1>8, OthersKept, OthersUpToDate
<1>15. Serving'
  BY <1>1, <1>2, <1>3, <1>13, <1>14 DEF ServerInv, Serving, ServerTypes
<1>16. UpToDate(c)'
  BY <1>1, <1>2 DEF UpToDate, Busy
<1>17. Paired(c)'
  <2>1. peer[c].st \in {"open", "quit"}
    BY <1>3 DEF Paired, Streaming, Connected
  <2>2. conn'[c].state = "streaming"
    BY <1>3, <1>10 DEF Streaming
  <2> QED
    BY <1>3, <1>10, <1>13, <2>1, <2>2 DEF Paired
<1>18. Sent(c)' = Sent(c) \o t /\ Sent(c) \in Seq(Bytes)
  <2>1. (peer[c].got \o peer[c].sock) \o t = peer[c].got \o (peer[c].sock \o t)
    <3>1. PICK g \in Seq(Bytes) : g = peer[c].got
      BY <1>5
    <3>2. PICK s \in Seq(Bytes) : s = peer[c].sock
      BY <1>5
    <3>3. (g \o s) \o t = g \o (s \o t)
      BY ConcatAssociative
    <3> QED
      BY <3>1, <3>2, <3>3
  <2>2. Sent(c)' = peer[c].got \o (peer[c].sock \o t)
    BY <1>10 DEF Sent
  <2>3. Sent(c) \in Seq(Bytes)
    BY <1>5 DEF Sent
  <2> QED
    BY <2>1, <2>2, <2>3 DEF Sent
<1>19. Verbatim(c)'
  <2> DEFINE s == Sent(c)
             u == s \o t
             m == conn[c].cursor
             f == From(c)
  <2>1. s \in Seq(Nat) /\ t \in Seq(Nat)
    <3>1. Bytes \subseteq Nat
      BY BytesFacts DEF Bytes
    <3> QED
      BY <1>18, <3>1, SeqMonotonic
  <2>2. /\ \A i, j \in 1..Len(s) : i < j => s[i] < s[j]
        /\ \A i \in 1..Len(s) : s[i] < m
        /\ \A b \in 0..(m - 1) :
              b < StartPos \/ \E i \in 1..Len(s) : s[i] = b
    BY <1>3 DEF Verbatim
  <2>3. /\ m \in Nat /\ f \in Nat /\ m <= f
        /\ \A k \in 1..Len(t) : t[k] = f + k - 1
    BY <1>2, <1>6
  <2>4. m < f => f = StartPos
    BY <1>6 DEF From
  <2> HIDE DEF s, m, f
  <2>5. /\ \A i, j \in 1..Len(u) : i < j => u[i] < u[j]
        /\ \A i \in 1..Len(u) : u[i] < f + Len(t)
        /\ \A i \in 1..Len(s) : i \in 1..Len(u) /\ u[i] = s[i]
        /\ \A b \in f..(f + Len(t) - 1) : \E i \in 1..Len(u) : u[i] = b
    BY <2>1, <2>2, <2>3, Extended
  <2> HIDE DEF u
  <2>6. ASSUME NEW b \in 0..(f + n - 1)
        PROVE  b < StartPos \/ \E i \in 1..Len(u) : u[i] = b
    <3>1. CASE b < m
      <4>1. b < StartPos \/ \E i \in 1..Len(s) : s[i] = b
        BY <2>2, <2>3, <3>1
      <4> QED
        BY <2>5, <4>1
    <3>2. CASE b >= m /\ b < f
      BY <2>3, <2>4, <3>2
    <3>3. CASE b >= f
      <4>1. b \in f..(f + Len(t) - 1)
        BY <1>2, <2>3, <3>3
      <4> QED
        BY <2>5, <4>1
    <3> QED
      BY <2>3, <3>1, <3>2, <3>3
  <2>7. /\ Sent(c)' = u /\ conn'[c].cursor = f + n /\ f + n <= write_pos
        /\ StartPos' = StartPos /\ write_pos' = write_pos
    BY <1>1, <1>2, <1>10, <1>18 DEF u, s, f, ringVars, StartPos
  <2>8. \A i \in 1..Len(u) : u[i] < f + n
    BY <1>2, <2>5
  <2>9. PICK v, x : v = Sent(c)' /\ x = conn'[c].cursor
    OBVIOUS
  <2>10. v = u /\ x = f + n
    BY <2>7, <2>9
  <2>11. \A i, j \in 1..Len(v) : i < j => v[i] < v[j]
    BY <2>5, <2>10
  <2>12. \A i \in 1..Len(v) : v[i] < x
    BY <2>8, <2>10
  <2>13. \A b \in 0..(x - 1) : b < StartPos \/ \E i \in 1..Len(v) : v[i] = b
    <3> SUFFICES ASSUME NEW b \in 0..(x - 1)
                 PROVE  b < StartPos \/ \E i \in 1..Len(v) : v[i] = b
      OBVIOUS
    <3>1. b \in 0..(f + n - 1)
      BY <2>3, <2>10
    <3>2. b < StartPos \/ \E i \in 1..Len(u) : u[i] = b
      BY <2>6, <3>1
    <3> QED
      BY <2>10, <3>2
  <2>14. x <= write_pos
    BY <2>7, <2>10
  <2> QED
    BY <1>13, <2>7, <2>9, <2>11, <2>12, <2>13, <2>14 DEF Verbatim
<1> QED
  BY <1>11, <1>12, <1>14, <1>15, <1>16, <1>17, <1>19 DEF ServerInv

(* A connection after try_send, and its fields: b tells whether its socket is
   full. *)
Flushed(k, n, b) ==
    [k EXCEPT !.cursor = n, !.write_blocked = b, !.writable_registered = b]

(* Its subscription and its close_after_flush are the same. *)
LEMMA FlushedFields ==
    ASSUME NEW k \in ConnRecord, NEW n \in Bytes, NEW b \in BOOLEAN
    PROVE  /\ Flushed(k, n, b) \in ConnRecord /\ Flushed(k, n, b).cursor = n
           /\ Flushed(k, n, b).state = k.state
           /\ Flushed(k, n, b).follow = k.follow
           /\ Flushed(k, n, b).dump_until = k.dump_until
           /\ Flushed(k, n, b).write_blocked = b
           /\ Flushed(k, n, b).writable_registered = b
           /\ Flushed(k, n, b).close_after_flush = k.close_after_flush
BY DEF Flushed, ConnRecord

(* The end of try_send: the connection is closed, for a client that is gone or
   for a dump that has reached its end, or it stays open with all there is, or
   with its socket full. *)
LEMMA DoneFacts ==
    ASSUME ServerInv, SendDone
    PROVE  \E c \in Clients :
              /\ c = job[2]
              /\ \/ /\ Close(c)
                    /\ \/ peer[c].st = "quit"
                       \/ conn[c].dump_until # NoBound /\ From(c) = write_pos
                 \/ /\ conn' = [conn EXCEPT ![c] =
                                  Flushed(conn[c], From(c), From(c) # write_pos)]
                    /\ ready' \in {ready, ready \cup {c}} /\ UNCHANGED peer
                    /\ \/ From(c) # write_pos \/ conn[c].dump_until = NoBound
                       \/ ~(From(c) >= conn[c].dump_until)
                    /\ \/ From(c) = write_pos
                       \/ /\ peer[c].st # "quit"
                          /\ Len(peer[c].sock) = SocketSize
<1>1. pc = "send"
  BY DEF SendDone
<1>2. PICK c \in Clients : c = job[2]
  BY <1>1 DEF ServerInv, Serving
<1> DEFINE chunk   == ReadFromCursor(conn[c].cursor)
           blocked == chunk.buffer # <<>>
           dumped  == /\ ~blocked /\ conn[c].dump_until # NoBound
                      /\ From(c) >= conn[c].dump_until
           k       == [conn[c] EXCEPT !.cursor = From(c), !.write_blocked = blocked,
                          !.close_after_flush = @ \/ dumped]
<1>3. /\ conn[c].cursor + chunk.missed = From(c)
      /\ blocked <=> From(c) # write_pos
  BY ChunkFacts
<1>4. /\ peer[c].st = "quit" \/ ~blocked \/ Len(peer[c].sock) = SocketSize
      /\ IF blocked /\ peer[c].st = "quit" THEN Close(c) ELSE Reconcile(c, k)
  BY <1>2, <1>3 DEF SendDone
<1>5. conn[c] \in ConnRecord /\ Paired(c)
  BY DEF ServerInv, ServerTypes
<1> HIDE DEF chunk
<1>6. PICK b \in BOOLEAN : b = blocked
  OBVIOUS
<1>7. PICK f \in BOOLEAN : f = (conn[c].close_after_flush \/ dumped)
  OBVIOUS
<1>8. k = [conn[c] EXCEPT !.cursor = From(c), !.write_blocked = b,
                          !.close_after_flush = f]
  BY <1>6, <1>7
<1>9. k.close_after_flush = f /\ k.write_blocked = b
  BY <1>5, <1>8 DEF ConnRecord
<1>10. b = (From(c) # write_pos)
  BY <1>3, <1>6
<1> HIDE DEF k
<1>11. CASE blocked /\ peer[c].st = "quit"
  BY <1>2, <1>4, <1>11
<1>12. CASE ~(blocked /\ peer[c].st = "quit") /\ f /\ ~b
  <2>1. Close(c)
    BY <1>4, <1>9, <1>12 DEF Reconcile
  <2>2. \/ peer[c].st = "quit"
        \/ conn[c].dump_until # NoBound /\ From(c) = write_pos
    BY <1>3, <1>5, <1>6, <1>7, <1>12 DEF Paired
  <2> QED
    BY <1>2, <2>1, <2>2
<1>13. CASE ~(blocked /\ peer[c].st = "quit") /\ ~(f /\ ~b)
  <2>1. /\ conn' = [conn EXCEPT ![c] = [k EXCEPT !.writable_registered = b]]
        /\ ready' \in {ready, ready \cup {c}} /\ UNCHANGED peer
    BY <1>4, <1>9, <1>13 DEF Reconcile
  <2>2. f = conn[c].close_after_flush
    <3>1. conn[c].close_after_flush \in BOOLEAN
      BY <1>5 DEF ConnRecord
    <3> QED
      BY <1>6, <1>7, <1>13, <3>1
  <2>3. [k EXCEPT !.writable_registered = b] = Flushed(conn[c], From(c), b)
    <3>1. PICK r \in ConnRecord : r = conn[c]
      BY <1>5
    <3>2. PICK n : n = From(c)
      OBVIOUS
    <3>3. k = [r EXCEPT !.cursor = n, !.write_blocked = b, !.close_after_flush = f]
      BY <1>8, <3>1, <3>2
    <3>4. [k EXCEPT !.writable_registered = b] = Flushed(r, n, b)
      BY <2>2, <3>1, <3>3 DEF Flushed, ConnRecord
    <3> QED
      BY <3>1, <3>2, <3>4
  <2>4. conn' = [conn EXCEPT ![c] = Flushed(conn[c], From(c), From(c) # write_pos)]
    BY <1>10, <2>1, <2>3
  <2>5. \/ From(c) = write_pos
        \/ peer[c].st # "quit" /\ Len(peer[c].sock) = SocketSize
    BY <1>3, <1>4, <1>13
  <2>6. \/ From(c) # write_pos \/ conn[c].dump_until = NoBound
        \/ ~(From(c) >= conn[c].dump_until)
    BY <1>3, <1>6, <1>7, <1>13
  <2> QED
    BY <1>2, <2>1, <2>4, <2>5, <2>6
<1> QED
  BY <1>11, <1>12, <1>13

(* The other connections when try_send is done with c. *)
LEMMA OthersAfterSend ==
    ASSUME ServerInv, SendDone, NEW c \in Clients, c = job[2],
           \A d \in Clients \ {c} : conn'[d] = conn[d] /\ peer'[d] = peer[d],
           ready \ {c} \subseteq ready'
    PROVE  \A d \in Clients \ {c} : UpToDate(d)'
<1> SUFFICES ASSUME NEW d \in Clients \ {c} PROVE UpToDate(d)'
  OBVIOUS
<1>1. /\ pc = "send" /\ pc' = (IF job[1] = "push" THEN "push" ELSE "events")
      /\ UNCHANGED <<ringVars, todo>>
  BY DEF SendDone
<1>2. UpToDate(d) /\ conn'[d] = conn[d] /\ write_pos' = write_pos
  BY <1>1 DEF ServerInv, ringVars
<1>3. Streaming(d)' = Streaming(d) /\ Writable(d)' = Writable(d)
  BY <1>1, OthersKept
<1>4. ~Busy(d)
  BY DEF Busy
<1>5. Streaming(d) /\ Writable(d) => d \in ready'
  BY <1>2, <1>4 DEF UpToDate
<1>6. pc' \in {"push", "poll"} \/ (pc' = "send" /\ job'[1] = "push")
         => job[1] = "push"
  BY <1>1
<1> QED
  BY <1>1, <1>2, <1>3, <1>4, <1>5, <1>6 DEF UpToDate

(* The end of try_send. *)
LEMMA SendDoneInv ==
    ASSUME ServerInv, SendDone
    PROVE  ServerInv'
<1>1. /\ pc = "send" /\ pc' = (IF job[1] = "push" THEN "push" ELSE "events")
      /\ UNCHANGED <<ringVars, backlog, todo>>
  BY DEF SendDone
<1>2. PICK c \in Clients :
         /\ c = job[2]
         /\ \/ Close(c)
            \/ /\ conn' = [conn EXCEPT ![c] =
                             Flushed(conn[c], From(c), From(c) # write_pos)]
               /\ ready' \in {ready, ready \cup {c}} /\ UNCHANGED peer
               /\ \/ From(c) = write_pos
                  \/ peer[c].st # "quit" /\ Len(peer[c].sock) = SocketSize
  BY DoneFacts
<1>3. /\ ServerTypes /\ Paired(c) /\ Verbatim(c) /\ Streaming(c) /\ c \notin todo
      /\ c \in Connected /\ \A d \in todo : Streaming(d)
      /\ job[1] \in {"event", "push"} /\ (job[1] = "event" => todo = {})
  BY <1>1, <1>2 DEF ServerInv, Serving, Streaming, Connected
<1>4. RingHolds'
  BY <1>1, RingKept DEF ServerInv
<1>5. CASE Close(c)
  <2>1. /\ conn' \in [Clients -> ConnRecord] /\ peer' \in [Clients -> PeerRecord]
        /\ ready' = ready \ {c}
        /\ \A d \in Clients \ {c} : conn'[d] = conn[d] /\ peer'[d] = peer[d]
        /\ Paired(c)' /\ Verbatim(c)' /\ ~Streaming(c)'
    BY <1>1, <1>3, <1>5, CloseFacts
  <2>2. ServerTypes'
    BY <1>1, <1>3, <2>1 DEF ServerTypes, ringVars
  <2>3. \A d \in Clients \ {c} : Paired(d)' /\ Verbatim(d)' /\ UpToDate(d)'
                                 /\ Streaming(d)' = Streaming(d)
    BY <1>1, <1>2, <2>1, OthersKept, OthersAfterSend
  <2>4. Serving'
    BY <1>1, <1>3, <2>3 DEF Serving, ServerTypes
  <2>5. UpToDate(c)'
    BY <2>1 DEF UpToDate
  <2> QED
    BY <1>4, <2>1, <2>2, <2>3, <2>4, <2>5 DEF ServerInv
<1>6. CASE ~Close(c)
  <2>1. PICK b \in BOOLEAN : b = (From(c) # write_pos)
    OBVIOUS
  <2>2. /\ conn' = [conn EXCEPT ![c] = Flushed(conn[c], From(c), b)]
        /\ ready' \in {ready, ready \cup {c}} /\ UNCHANGED peer
        /\ b => peer[c].st # "quit" /\ Len(peer[c].sock) = SocketSize
    BY <1>2, <1>6, <2>1
  <2>3. /\ conn[c].cursor \in Nat /\ StartPos \in Nat /\ write_pos \in Nat
        /\ From(c) \in StartPos..write_pos /\ conn[c].cursor <= From(c)
    BY FromFacts
  <2>4. conn[c] \in ConnRecord /\ write_pos \in Bytes
    BY <1>3 DEF ServerTypes
  <2>5. PICK x \in Bytes : x = From(c)
    BY <2>3, <2>4, BytesFacts DEF Bytes
  <2>6. PICK k \in ConnRecord : k = conn[c]
    BY <2>4
  <2>7. conn' = [conn EXCEPT ![c] = Flushed(k, x, b)]
    BY <2>2, <2>5, <2>6
  <2>8. /\ Flushed(k, x, b) \in ConnRecord /\ Flushed(k, x, b).cursor = x
        /\ Flushed(k, x, b).state = k.state
        /\ Flushed(k, x, b).write_blocked = b
        /\ Flushed(k, x, b).writable_registered = b
        /\ Flushed(k, x, b).close_after_flush = k.close_after_flush
    BY FlushedFields
  <2>9. /\ conn' \in [Clients -> ConnRecord] /\ conn'[c] = Flushed(k, x, b)
        /\ \A d \in Clients \ {c} : conn'[d] = conn[d] /\ peer'[d] = peer[d]
    BY <1>3, <2>2, <2>7, <2>8 DEF ServerTypes
  <2>10. ServerTypes'
    BY <1>1, <1>3, <2>2, <2>9 DEF ServerTypes, ringVars
  <2>11. \A d \in Clients \ {c} : Paired(d)' /\ Verbatim(d)' /\ UpToDate(d)'
                                  /\ Streaming(d)' = Streaming(d)
    BY <1>1, <1>2, <2>2, <2>9, OthersKept, OthersAfterSend
  <2>12. Streaming(c)' /\ (c \in Connected)' /\ Sent(c)' = Sent(c)
    BY <1>3, <2>2, <2>6, <2>8, <2>9 DEF Streaming, Connected, Sent
  <2>13. Serving'
    BY <1>1, <1>3, <2>11, <2>12 DEF Serving, ServerTypes
  <2>14. Paired(c)'
    <3>1. conn'[c].state = "streaming" /\ peer' = peer
      BY <2>2, <2>12 DEF Streaming
    <3>2. peer[c].st \in {"open", "quit"}
      BY <1>3 DEF Paired
    <3> QED
      BY <1>3, <2>6, <2>8, <2>9, <2>12, <3>1, <3>2 DEF Paired
  <2>15. UpToDate(c)'
    <3>1. ~Writable(c)'
      <4>1. conn'[c].writable_registered = b /\ peer'[c] = peer[c]
        BY <2>2, <2>8, <2>9
      <4>2. SocketSize \in Nat
        BY BytesFacts
      <4> QED
        BY <2>2, <4>1, <4>2 DEF Writable
    <3>2. ~b => x = write_pos
      BY <2>1, <2>5
    <3>3. conn'[c].write_blocked = b /\ conn'[c].cursor = x /\ write_pos' = write_pos
      BY <1>1, <2>8, <2>9 DEF ringVars
    <3> QED
      BY <3>1, <3>2, <3>3 DEF UpToDate
  <2>16. Verbatim(c)'
    <3>1. /\ \A i, j \in 1..Len(Sent(c)) : i < j => Sent(c)[i] < Sent(c)[j]
          /\ \A i \in 1..Len(Sent(c)) : Sent(c)[i] < conn[c].cursor
          /\ \A e \in 0..(conn[c].cursor - 1) :
                e < StartPos \/ \E i \in 1..Len(Sent(c)) : Sent(c)[i] = e
      BY <1>3 DEF Verbatim
    <3>2. /\ conn'[c].cursor = x /\ x <= write_pos /\ x \in Nat
          /\ conn[c].cursor <= x
          /\ StartPos' = StartPos /\ write_pos' = write_pos
      BY <1>1, <2>3, <2>5, <2>8, <2>9 DEF ringVars, StartPos
    <3>3. Sent(c) \in Seq(Nat)
      <4>1. peer[c] \in PeerRecord
        BY <1>3 DEF ServerTypes
      <4> QED
        BY <4>1, BytesFacts DEF PeerRecord, Sent, Bytes
    <3>4. \A i \in 1..Len(Sent(c)) : Sent(c)[i] < x
      BY <2>3, <3>1, <3>2, <3>3
    <3>5. ASSUME NEW e \in 0..(x - 1)
          PROVE  e < StartPos \/ \E i \in 1..Len(Sent(c)) : Sent(c)[i] = e
      <4>1. CASE e < conn[c].cursor
        BY <2>3, <3>1, <4>1
      <4>2. CASE e >= conn[c].cursor
        BY <2>3, <2>5, <3>2, <4>2 DEF From
      <4> QED
        BY <2>3, <4>1, <4>2
    <3> QED
      BY <2>12, <3>1, <3>2, <3>4, <3>5 DEF Verbatim
  <2> QED
    BY <1>4, <2>10, <2>11, <2>13, <2>14, <2>15, <2>16 DEF ServerInv
<1> QED
  BY <1>5, <1>6

(* push_updates starts, goes on to the next follower and ends, and the loop
   waits: only pc, job and todo change. *)
LEMMA PushInv ==
    ASSUME ServerInv,
           StartPush \/ (\E c \in Clients : PushOne(c)) \/ EndPush \/ Poll
    PROVE  ServerInv'
<1>1. UNCHANGED <<ringVars, conn, peer, ready, backlog>>
  BY DEF StartPush, PushOne, EndPush, Poll
<1>2. ServerTypes /\ Serving
  BY DEF ServerInv
<1>3. \A d \in Clients : Streaming(d)' = Streaming(d) /\ Writable(d)' = Writable(d)
  BY <1>1 DEF Streaming, Writable
<1>4. ASSUME NEW d \in Clients PROVE Paired(d)' /\ Verbatim(d)'
  <2>1. Paired(d) /\ Verbatim(d)
    BY DEF ServerInv
  <2>2. /\ Sent(d)' = Sent(d) /\ StartPos' = StartPos
        /\ (d \in Connected)' = (d \in Connected)
    BY <1>1 DEF Sent, StartPos, Connected, ringVars
  <2> QED
    BY <1>1, <1>3, <2>1, <2>2 DEF Paired, Verbatim, ringVars
<1>5. RingHolds'
  BY <1>1, RingKept DEF ServerInv
<1>6. ASSUME NEW d \in Clients
      PROVE  /\ UpToDate(d) /\ conn'[d] = conn[d]
             /\ write_pos' = write_pos /\ ready' = ready
  BY <1>1 DEF ServerInv, ringVars
<1>7. CASE StartPush
  <2>1. /\ pc = "events" /\ pc' = "push" /\ job' = job
        /\ todo' = {d \in Connected : Streaming(d) /\ conn[d].follow}
    BY <1>7 DEF StartPush
  <2>2. ServerTypes'
    BY <1>1, <1>2, <2>1 DEF ServerTypes, ringVars, Connected
  <2>3. Serving'
    <3>1. \A d \in todo' : d \in Clients /\ Streaming(d)
      BY <2>1 DEF Connected
    <3> QED
      BY <1>3, <2>1, <3>1 DEF Serving
  <2>4. ASSUME NEW d \in Clients PROVE UpToDate(d)'
    <3>1. Streaming(d) => d \in Connected
      BY DEF Streaming, Connected
    <3>2. ~Busy(d)
      BY <2>1 DEF Busy
    <3>3. Streaming(d) /\ d \notin todo' => ~conn[d].follow
      BY <2>1, <3>1
    <3> QED
      BY <1>3, <1>6, <3>2, <3>3 DEF UpToDate
  <2> QED
    BY <1>4, <1>5, <2>2, <2>3, <2>4 DEF ServerInv
<1>8. ASSUME NEW c \in Clients, PushOne(c) PROVE ServerInv'
  <2>1. /\ pc = "push" /\ c \in todo /\ todo' = todo \ {c}
        /\ pc' = "send" /\ job' = <<"push", c>>
    BY <1>8 DEF PushOne
  <2>2. ServerTypes'
    BY <1>1, <1>2, <2>1 DEF ServerTypes, ringVars
  <2>3. Serving'
    <3>1. /\ job' \in {"event", "push"} \X Clients /\ job'[2] = c /\ job'[1] = "push"
      BY <2>1
    <3>2. \A d \in todo : d \in Clients /\ Streaming(d)
      BY <1>2 DEF Serving, ServerTypes
    <3>3. Streaming(c)' /\ \A d \in todo' : Streaming(d)'
      BY <1>3, <2>1, <3>2
    <3> QED
      BY <2>1, <3>1, <3>3 DEF Serving
  <2>4. ASSUME NEW d \in Clients PROVE UpToDate(d)'
    <3>1. ~Busy(d) /\ (~Busy(d)' => d # c)
      BY <2>1 DEF Busy
    <3> QED
      BY <1>3, <1>6, <2>1, <3>1 DEF UpToDate
  <2> QED
    BY <1>4, <1>5, <2>2, <2>3, <2>4 DEF ServerInv
<1>9. CASE EndPush \/ Poll
  <2>1. /\ todo = {} /\ job' = job /\ todo' = {}
        /\ \/ pc = "push" /\ pc' = "poll"
           \/ pc = "poll" /\ pc' = "events"
    BY <1>2, <1>9 DEF EndPush, Poll, Serving
  <2>2. ServerTypes'
    BY <1>1, <1>2, <2>1 DEF ServerTypes, ringVars
  <2>3. Serving'
    BY <2>1 DEF Serving
  <2>4. ASSUME NEW d \in Clients PROVE UpToDate(d)'
    <3>1. ~Busy(d) /\ ~Busy(d)'
      BY <2>1 DEF Busy
    <3>2. pc' \in {"push", "poll"} \/ (pc' = "send" /\ job'[1] = "push") => pc = "push"
      BY <2>1
    <3> QED
      BY <1>3, <1>6, <2>1, <3>1, <3>2 DEF UpToDate
  <2> QED
    BY <1>4, <1>5, <2>2, <2>3, <2>4 DEF ServerInv
<1> QED
  BY <1>7, <1>8, <1>9

(* The log is empty and nobody is connected. *)
LEMMA ServerInit == Init => ServerInv
<1> SUFFICES ASSUME Init PROVE ServerInv
  OBVIOUS
<1>1. /\ mem = [i \in 0..(Capacity - 1) |-> NoByte] /\ write_pos = 0
      /\ conn = [c \in Clients |-> Absent]
      /\ ready = {} /\ pc = "events" /\ todo = {}
  BY DEF Init, RingInit
<1>2. /\ Absent \in ConnRecord /\ Absent.state = "absent" /\ Absent.cursor = 0
      /\ Absent.dump_until = NoBound /\ ~Absent.write_blocked
      /\ ~Absent.close_after_flush
      /\ Absent.writable_registered = Absent.write_blocked
  BY BytesFacts DEF Absent, ConnRecord, Bytes
<1>3. ASSUME NEW c \in Clients
      PROVE  /\ peer[c] \in PeerRecord /\ peer[c].st = "idle"
             /\ peer[c].sock = <<>> /\ peer[c].got = <<>>
  <2>1. PICK f \in BOOLEAN, k \in BOOLEAN : peer[c] = Idle(f, k)
    BY DEF Init
  <2> QED
    BY <2>1 DEF Idle, PeerRecord
<1>4. ServerTypes
  <2>1. peer = [c \in Clients |-> peer[c]]
    BY DEF Init
  <2>2. peer \in [Clients -> PeerRecord]
    BY <1>3, <2>1
  <2>3. write_pos \in Bytes
    BY <1>1, BytesFacts DEF Bytes
  <2> QED
    BY <1>1, <1>2, <2>2, <2>3 DEF ServerTypes
<1>5. RingHolds
  BY <1>1 DEF RingHolds
<1>6. Serving
  BY <1>1 DEF Serving
<1>7. ASSUME NEW c \in Clients PROVE Paired(c) /\ Verbatim(c) /\ UpToDate(c)
  <2>1. Sent(c) = <<>>
    BY <1>3 DEF Sent
  <2>2. ~Streaming(c) /\ c \notin Connected /\ conn[c] = Absent
    BY <1>1, <1>2 DEF Streaming, Connected
  <2>3. Paired(c)
    BY <1>2, <1>3, <2>1, <2>2 DEF Paired
  <2>4. Verbatim(c)
    BY <1>1, <1>2, <2>1, <2>2 DEF Verbatim
  <2>5. UpToDate(c)
    BY <2>2 DEF UpToDate
  <2> QED
    BY <2>3, <2>4, <2>5
<1> QED
  BY <1>4, <1>5, <1>6, <1>7 DEF ServerInv

(* Every step of the log server and of its clients preserves the invariant. *)
LEMMA ServerStep == ServerInv /\ [Next]_vars => ServerInv'
<1> SUFFICES ASSUME ServerInv, [Next]_vars PROVE ServerInv'
  OBVIOUS
<1>1. CASE Capture
  BY <1>1, CaptureInv
<1>2. ASSUME NEW c \in Clients,
             Connect(c) \/ SendRequest(c) \/ Receive(c) \/ HangUp(c)
      PROVE  ServerInv'
  BY <1>2, EnvironmentInv
<1>3. CASE AcceptAll
  BY <1>3, AcceptInv
<1>4. CASE SendChunk
  BY <1>4, SendChunkInv
<1>5. CASE SendDone
  BY <1>5, SendDoneInv
<1>6. ASSUME NEW c \in Clients, HandleEvent(c) PROVE ServerInv'
  BY <1>6, HandleEventInv
<1>7. CASE StartPush \/ (\E c \in Clients : PushOne(c)) \/ EndPush \/ Poll
  BY <1>7, PushInv
<1>8. CASE UNCHANGED vars
  <2>1. UNCHANGED <<ringVars, conn, peer, ready, pc, job, todo>>
    BY <1>8 DEF vars
  <2>2. ServerTypes' /\ RingHolds'
    BY <2>1, RingKept DEF ServerInv, ServerTypes, ringVars
  <2>3. Serving'
    BY <2>1 DEF ServerInv, Serving, Streaming
  <2>4. ASSUME NEW c \in Clients PROVE Paired(c)' /\ Verbatim(c)' /\ UpToDate(c)'
    <3>1. Paired(c) /\ Verbatim(c) /\ UpToDate(c)
      BY DEF ServerInv
    <3>2. /\ Sent(c)' = Sent(c) /\ StartPos' = StartPos /\ Streaming(c)' = Streaming(c)
          /\ (c \in Connected)' = (c \in Connected) /\ Writable(c)' = Writable(c)
          /\ Busy(c)' = Busy(c)
      BY <2>1 DEF Sent, StartPos, Connected, ringVars, Streaming, Writable, Busy
    <3>3. Paired(c)'
      BY <2>1, <3>1, <3>2 DEF Paired
    <3>4. Verbatim(c)'
      BY <2>1, <3>1, <3>2 DEF Verbatim, ringVars
    <3>5. UpToDate(c)'
      BY <2>1, <3>1, <3>2 DEF UpToDate, ringVars
    <3> QED
      BY <3>3, <3>4, <3>5
  <2> QED
    BY <2>2, <2>3, <2>4 DEF ServerInv
<1> QED
  BY <1>1, <1>2, <1>3, <1>4, <1>5, <1>6, <1>7, <1>8 DEF Next, Daemon, Environment

-----------------------------------------------------------------------------
(* What the invariant says of the runs' properties *)

(* The inductive invariant holds throughout. *)
LEMMA ServerInvariant == Spec => []ServerInv
  BY ServerInit, ServerStep, PTL DEF Spec

(* Every variable of the log server keeps its type; no client is ever sent
   memory of the ring (log_buffer.rs) that was not written yet. *)
THEOREM LogServerTypes == Spec => []TypeOK
<1>1. ServerInv => TypeOK
  <2> SUFFICES ASSUME ServerInv PROVE TypeOK
    OBVIOUS
  <2>1. ServerTypes
    BY DEF ServerInv
  <2>2. ASSUME NEW c \in Clients
        PROVE  /\ conn[c].state \in {"absent", "awaiting", "streaming"}
               /\ conn[c].cursor \in Bytes
               /\ conn[c].dump_until \in Bytes \cup {NoBound}
               /\ peer[c].st \in {"idle", "queued", "open", "quit", "closed",
                                  "dropped"}
               /\ peer[c].req \in {"none", "part", "full", "read"}
               /\ Sent(c) \in Seq(Bytes)
    BY <2>1 DEF ServerTypes, ConnRecord, PeerRecord, Sent
  <2> QED
    BY <2>1, <2>2 DEF TypeOK, ServerTypes, Bytes
<1> QED
  BY <1>1, ServerInvariant, PTL

(* A client gets the log verbatim, whatever the ring overwrites while try_send
   waits for its socket: in order, no byte twice, none left out but those that
   were gone before they could be sent, none that was never logged. *)
THEOREM ClientsGetTheLog == Spec => []StreamVerbatim
<1>1. ServerInv => StreamVerbatim
  <2> SUFFICES ASSUME ServerInv, NEW c \in Clients
               PROVE  /\ \A i \in 1..(Len(Sent(c)) - 1) : Sent(c)[i] < Sent(c)[i + 1]
                      /\ \A b \in 0..(conn[c].cursor - 1) :
                            Contains(Sent(c), b) \/ b < StartPos
                      /\ \A b \in Range(Sent(c)) : b \in 0..(write_pos - 1)
    BY DEF StreamVerbatim
  <2>1. Verbatim(c)
    BY DEF ServerInv
  <2>2. PICK s \in Seq(Nat) : s = Sent(c)
    <3>1. peer[c] \in PeerRecord
      BY DEF ServerInv, ServerTypes
    <3>2. Sent(c) \in Seq(Nat)
      BY <3>1, BytesFacts DEF PeerRecord, Sent, Bytes
    <3> QED
      BY <3>2
  <2>3. \A i, j \in 1..Len(s) : i < j => s[i] < s[j]
    BY <2>1, <2>2 DEF Verbatim
  <2>4. \A i \in 1..(Len(s) - 1) : s[i] < s[i + 1]
    BY <2>3
  <2>5. ASSUME NEW b \in 0..(conn[c].cursor - 1)
        PROVE  Contains(s, b) \/ b < StartPos
    BY <2>1, <2>2 DEF Verbatim, Contains
  <2>6. conn[c].cursor \in Nat /\ write_pos \in Nat /\ conn[c].cursor <= write_pos
    BY <2>1, FromFacts DEF Verbatim
  <2>7. \A i \in 1..Len(s) : s[i] < write_pos
    BY <2>1, <2>2, <2>6 DEF Verbatim
  <2>8. \A b \in Range(s) : b \in 0..(write_pos - 1)
    BY <2>6, <2>7 DEF Range
  <2> QED
    BY <2>2, <2>4, <2>5, <2>8
<1> QED
  BY <1>1, ServerInvariant, PTL

(* When the loop waits for events no follower is behind, unless its socket is
   full, and then epoll will report it: push_updates and reconcile miss none. *)
THEOREM NoFollowerBehind == Spec => []FollowersCurrent
<1>1. ServerInv => FollowersCurrent
  <2> SUFFICES ASSUME ServerInv, pc = "poll", NEW c \in Connected, Streaming(c)
               PROVE  /\ conn[c].follow /\ ~conn[c].write_blocked
                            => conn[c].cursor = write_pos
                      /\ conn[c].write_blocked => conn[c].writable_registered
                      /\ Writable(c) => c \in ready
    BY DEF FollowersCurrent
  <2>1. c \in Clients /\ UpToDate(c) /\ Paired(c) /\ todo = {}
    BY DEF ServerInv, Connected, Serving
  <2>2. ~Busy(c)
    BY DEF Busy
  <2> QED
    BY <2>1, <2>2 DEF UpToDate, Paired
<1> QED
  BY <1>1, ServerInvariant, PTL

-----------------------------------------------------------------------------
(* Dumps that keep up *)

(* A dump that was never blocked is being sent, and nothing was logged since it
   began: what it may send ends at dump_until. *)
OnTime(c) ==
    conn[c].dump_until # NoBound =>
       /\ conn[c].dump_until <= write_pos
       /\ conn[c].write_blocked \/ (Busy(c) /\ conn[c].dump_until = write_pos)

OnTimeInv == \A c \in Clients : OnTime(c)

(* What the application writes makes the log longer, while no connection is
   being served. *)
LEMMA CaptureGrows ==
    ASSUME ServerInv, Capture
    PROVE  /\ write_pos \in Nat /\ write_pos' \in Nat /\ write_pos' > write_pos
           /\ pc = "events" /\ UNCHANGED <<conn, peer>>
<1>1. PICK n \in 1..MaxCapture :
         write_pos + n <= MaxBytes /\ RingWrite([k \in 1..n |-> write_pos + k - 1])
  BY DEF Capture
<1>2. write_pos \in Nat /\ n \in Nat \ {0}
  BY LogServerAssumption, BytesFacts DEF ServerInv, ServerTypes, Bytes
<1> DEFINE bs == [k \in 1..n |-> write_pos + k - 1]
<1>3. Len(bs) = n
  <2>1. bs \in [1..n -> Nat]
    BY <1>2
  <2> QED
    BY <1>2, <2>1, IsSequence
<1>4. write_pos' = (write_pos + n) % PosLimit
  <2> HIDE DEF bs
  <2>1. write_pos' = (write_pos + Len(bs)) % PosLimit
    BY <1>1 DEF RingWrite, bs
  <2> QED
    BY <1>3, <2>1
<1>5. write_pos + n \in 0..(PosLimit - 1)
  BY <1>1, <1>2, BytesFacts
<1>6. (write_pos + n) % PosLimit = write_pos + n
  BY <1>5, BytesFacts, ModSmall
<1>7. pc = "events" /\ UNCHANGED <<conn, peer>>
  BY DEF Capture
<1> QED
  BY <1>2, <1>4, <1>6, <1>7

(* A connection whose subscription a step leaves alone. *)
LEMMA OnTimeKept ==
    ASSUME NEW c \in Clients, OnTime(c), UNCHANGED ringVars,
           conn'[c].dump_until = conn[c].dump_until,
           conn'[c].write_blocked = conn[c].write_blocked,
           Busy(c) => Busy(c)'
    PROVE  OnTime(c)'
<1>1. write_pos' = write_pos
  BY DEF ringVars
<1> QED
  BY <1>1 DEF OnTime

(* accept_all gives a connection no subscription. *)
LEMMA AcceptOnTime ==
    ASSUME ServerInv, OnTimeInv, AcceptAll
    PROVE  OnTimeInv'
<1> SUFFICES ASSUME NEW d \in Clients PROVE OnTime(d)'
  BY DEF OnTimeInv
<1>1. PICK c \in Queued :
         conn' = conn \/ conn' = [conn EXCEPT ![c].state = "awaiting"]
  BY DEF AcceptAll
<1>2. PICK k \in ConnRecord : k = conn[d]
  BY DEF ServerInv, ServerTypes
<1>3. conn'[d] = k \/ conn'[d] = [k EXCEPT !.state = "awaiting"]
  BY <1>1, <1>2 DEF ServerInv, ServerTypes
<1>4. /\ conn'[d].dump_until = conn[d].dump_until
      /\ conn'[d].write_blocked = conn[d].write_blocked
  BY <1>2, <1>3 DEF ConnRecord
<1>5. UNCHANGED ringVars /\ Busy(d)' = Busy(d) /\ OnTime(d)
  BY DEF AcceptAll, Busy, OnTimeInv
<1> QED
  BY <1>4, <1>5, OnTimeKept

(* A dump that begins is served at once, and ends at the write position. *)
LEMMA EventOnTime ==
    ASSUME ServerInv, OnTimeInv, NEW c \in Clients, HandleEvent(c)
    PROVE  OnTimeInv'
<1> SUFFICES ASSUME NEW d \in Clients PROVE OnTime(d)'
  BY DEF OnTimeInv
<1>1. pc = "events" /\ c \in Connected /\ UNCHANGED ringVars /\ OnTime(d)
  BY DEF HandleEvent, OnTimeInv
<1>2. ~Busy(d)
  BY <1>1 DEF Busy
<1>3. CASE Close(c)
  <2>1. conn'[c] = Absent /\ (d # c => conn'[d] = conn[d])
    BY <1>1, <1>3, CloseFacts
  <2>2. CASE d = c
    BY <2>1, <2>2 DEF OnTime, Absent
  <2> QED
    BY <1>1, <1>2, <2>1, <2>2, OnTimeKept
<1>4. CASE UNCHANGED conn
  BY <1>1, <1>2, <1>4, OnTimeKept
<1>5. CASE /\ Streaming(c) \/ IsNew(c)
           /\ conn' = [conn EXCEPT ![c] = Opened(c)]
           /\ pc' = "send" /\ job' = <<"event", c>>
  <2>1. conn'[c] = Opened(c) /\ (d # c => conn'[d] = conn[d])
    BY <1>5 DEF ServerInv, ServerTypes
  <2>2. /\ Opened(c).write_blocked = conn[c].write_blocked
        /\ Streaming(c) => Opened(c).dump_until = conn[c].dump_until
        /\ ~Streaming(c) => Opened(c).dump_until \in {NoBound, write_pos}
    BY <1>5, OpenedFacts
  <2>3. CASE d = c /\ ~Streaming(c)
    <3>1. Busy(c)' /\ write_pos' = write_pos /\ write_pos \in Nat
      BY <1>1, <1>5, FromFacts DEF Busy, ringVars
    <3> QED
      BY <2>1, <2>2, <2>3, <3>1 DEF OnTime
  <2> QED
    BY <1>1, <1>2, <2>1, <2>2, <2>3, OnTimeKept
<1> QED
  BY <1>3, <1>4, <1>5 DEF HandleEvent, IsNew, Opened, Eof

(* A round of try_send touches only the cursor. *)
LEMMA ChunkOnTime ==
    ASSUME ServerInv, OnTimeInv, SendChunk
    PROVE  OnTimeInv'
<1> SUFFICES ASSUME NEW d \in Clients PROVE OnTime(d)'
  BY DEF OnTimeInv
<1>1. PICK c \in Clients, n \in Nat :
         /\ From(c) + n <= write_pos
         /\ conn' = [conn EXCEPT ![c] = Moved(conn[c], From(c) + n)]
  BY SendFacts
<1>2. PICK k \in ConnRecord : k = conn[d]
  BY DEF ServerInv, ServerTypes
<1>3. conn'[d] = k \/ conn'[d] = Moved(k, From(c) + n)
  BY <1>1, <1>2 DEF ServerInv, ServerTypes
<1>4. /\ conn'[d].dump_until = conn[d].dump_until
      /\ conn'[d].write_blocked = conn[d].write_blocked
  BY <1>2, <1>3 DEF ConnRecord, Moved
<1>5. UNCHANGED ringVars /\ Busy(d)' = Busy(d) /\ OnTime(d)
  BY DEF SendChunk, Busy, OnTimeInv
<1> QED
  BY <1>4, <1>5, OnTimeKept

(* When try_send returns, a dump is over or blocked. *)
LEMMA DoneOnTime ==
    ASSUME ServerInv, OnTimeInv, SendDone
    PROVE  OnTimeInv'
<1> SUFFICES ASSUME NEW d \in Clients PROVE OnTime(d)'
  BY DEF OnTimeInv
<1>1. pc = "send" /\ UNCHANGED ringVars /\ OnTime(d)
  BY DEF SendDone, OnTimeInv
<1>2. PICK c \in Clients :
         /\ c = job[2]
         /\ \/ Close(c)
            \/ /\ conn' = [conn EXCEPT ![c] =
                             Flushed(conn[c], From(c), From(c) # write_pos)]
               /\ \/ From(c) # write_pos \/ conn[c].dump_until = NoBound
                  \/ ~(From(c) >= conn[c].dump_until)
  BY DoneFacts
<1>3. c \in Connected
  BY <1>1, <1>2 DEF ServerInv, Serving, Streaming, Connected
<1>4. CASE d # c
  <2>1. ~Busy(d)
    BY <1>2, <1>4 DEF Busy
  <2>2. conn'[d] = conn[d]
    <3>1. CASE Close(c)
      BY <1>1, <1>3, <1>4, <3>1, CloseFacts
    <3> QED
      BY <1>2, <1>4, <3>1 DEF ServerInv, ServerTypes
  <2> QED
    BY <1>1, <2>1, <2>2, OnTimeKept
<1>5. CASE d = c /\ Close(c)
  <2>1. conn'[c] = Absent
    BY <1>1, <1>3, <1>5, CloseFacts
  <2> QED
    BY <1>5, <2>1 DEF OnTime, Absent
<1>6. CASE d = c /\ ~Close(c)
  <2>1. PICK b \in BOOLEAN : b = (From(c) # write_pos)
    OBVIOUS
  <2>2. write_pos \in Nat /\ write_pos \in Bytes /\ From(c) \in Nat
        /\ From(c) <= write_pos
    BY FromFacts DEF ServerInv, ServerTypes
  <2>3. PICK x \in Bytes : x = From(c)
    BY <2>2, BytesFacts DEF Bytes
  <2>4. PICK k \in ConnRecord : k = conn[c]
    BY DEF ServerInv, ServerTypes
  <2>5. conn'[c] = Flushed(k, x, b)
    BY <1>2, <1>6, <2>1, <2>3, <2>4 DEF ServerInv, ServerTypes
  <2>6. conn'[c].dump_until = conn[c].dump_until /\ conn'[c].write_blocked = b
    BY <2>4, <2>5, FlushedFields
  <2>7. conn[c].dump_until # NoBound => b /\ conn[c].dump_until <= write_pos
    BY <1>1, <1>2, <1>6, <2>1, <2>2 DEF OnTime
  <2>8. write_pos' = write_pos
    BY <1>1 DEF ringVars
  <2> QED
    BY <1>6, <2>6, <2>7, <2>8 DEF OnTime
<1> QED
  BY <1>4, <1>5, <1>6

(* The other steps leave the connections and the one that is served alone. *)
LEMMA OnTimeStep == ServerInv /\ OnTimeInv /\ [Next]_vars => OnTimeInv'
<1> SUFFICES ASSUME ServerInv, OnTimeInv, [Next]_vars PROVE OnTimeInv'
  OBVIOUS
<1>1. CASE Capture
  <2> SUFFICES ASSUME NEW c \in Clients PROVE OnTime(c)'
    BY DEF OnTimeInv
  <2>1. /\ write_pos \in Nat /\ write_pos' \in Nat /\ write_pos' > write_pos
        /\ pc = "events" /\ conn' = conn
    BY <1>1, CaptureGrows
  <2>2. OnTime(c) /\ ~Busy(c)
    BY <2>1 DEF OnTimeInv, Busy
  <2>3. conn[c].dump_until \in Nat \cup {NoBound}
    BY BytesFacts DEF ServerInv, ServerTypes, ConnRecord, Bytes
  <2>4. conn[c].dump_until # NoBound
           => conn[c].write_blocked /\ conn[c].dump_until <= write_pos'
    BY <2>1, <2>2, <2>3 DEF OnTime
  <2> QED
    BY <2>1, <2>4 DEF OnTime
<1>2. CASE UNCHANGED <<ringVars, conn, pc, job>>
  <2>1. \A c \in Clients : Busy(c)' = Busy(c) /\ OnTime(c) /\ conn'[c] = conn[c]
    BY <1>2 DEF Busy, OnTimeInv
  <2> QED
    BY <1>2, <2>1, OnTimeKept DEF OnTimeInv
<1>3. CASE UNCHANGED <<ringVars, conn>> /\ pc # "send"
  <2>1. \A c \in Clients : ~Busy(c) /\ OnTime(c) /\ conn'[c] = conn[c]
    BY <1>3 DEF Busy, OnTimeInv
  <2> QED
    BY <1>3, <2>1, OnTimeKept DEF OnTimeInv
<1>4. ASSUME NEW c \in Clients,
             Connect(c) \/ SendRequest(c) \/ Receive(c) \/ HangUp(c)
      PROVE  OnTimeInv'
  BY <1>2, <1>4 DEF Connect, SendRequest, Receive, HangUp, PeerStep
<1>5. CASE StartPush \/ EndPush \/ Poll \/ \E c \in Clients : PushOne(c)
  BY <1>3, <1>5 DEF StartPush, EndPush, Poll, PushOne
<1>6. CASE UNCHANGED vars
  BY <1>2, <1>6 DEF vars
<1>7. ASSUME NEW c \in Clients, HandleEvent(c) PROVE OnTimeInv'
  BY <1>7, EventOnTime
<1> QED
  BY <1>1, <1>4, <1>5, <1>6, <1>7, AcceptOnTime, ChunkOnTime, DoneOnTime
  DEF Next, Daemon, Environment

(* It holds from the start, when there is no dump. *)
LEMMA OnTimeInvariant == Spec => []OnTimeInv
<1>1. Init => OnTimeInv
  BY DEF Init, OnTimeInv, OnTime, Absent
<1> QED
  BY <1>1, ServerInvariant, OnTimeStep, PTL DEF Spec

-----------------------------------------------------------------------------
(* The log server implements LogStream *)

Streams == [c \in Clients |-> SeenStream(c)]
Quitters == {c \in Clients : peer[c].st = "quit"}

(* What LogStream sees of a connection depends on few of its fields. *)
LEMMA SeenKept ==
    ASSUME NEW c \in Clients, conn'[c].state = conn[c].state,
           conn'[c].cursor = conn[c].cursor,
           conn'[c].dump_until = conn[c].dump_until,
           conn'[c].write_blocked = conn[c].write_blocked, Sent(c)' = Sent(c),
           c \in Connected \/ peer'[c].st = peer[c].st
              \/ {peer'[c].st, peer[c].st} \cap {"quit", "closed"} = {}
    PROVE  SeenStream(c)' = SeenStream(c)
<1>1. /\ Streaming(c)' = Streaming(c)
      /\ (c \in Connected)' = (c \in Connected)
  BY DEF Streaming, Connected
<1>2. (c \notin Connected /\ peer[c].st \in {"quit", "closed"})'
         = (c \notin Connected /\ peer[c].st \in {"quit", "closed"})
  BY <1>1
<1> QED
  BY <1>1, <1>2 DEF SeenStream

(* What LogStream sees of a connection. *)
StreamRecord ==
    [st : {"idle", "on", "late", "over"}, next : Bytes, until : Bytes \cup {NoBound},
     sent : Seq(Bytes)]

(* Records of streams are the same when their fields are. *)
LEMMA StreamEqual ==
    ASSUME NEW x \in StreamRecord, NEW y \in StreamRecord, x.st = y.st,
           x.next = y.next, x.until = y.until, x.sent = y.sent
    PROVE  x = y
BY DEF StreamRecord

(* A stream that begins. *)
LEMMA FieldsOfBegin ==
    ASSUME NEW f \in StreamRecord, NEW u \in Bytes \cup {NoBound}
    PROVE  [f EXCEPT !.st = "on", !.until = u]
              = [st |-> "on", next |-> f.next, until |-> u, sent |-> f.sent]
<1> DEFINE x == [f EXCEPT !.st = "on", !.until = u]
           y == [st |-> "on", next |-> f.next, until |-> u, sent |-> f.sent]
<1>1. x \in StreamRecord /\ y \in StreamRecord
  BY DEF StreamRecord
<1>2. x.st = y.st /\ x.next = y.next /\ x.until = y.until /\ x.sent = y.sent
  BY DEF StreamRecord
<1> QED
  BY <1>1, <1>2, StreamEqual

(* A stream that goes on. *)
LEMMA FieldsOfDeliver ==
    ASSUME NEW f \in StreamRecord, NEW n \in Bytes, NEW v \in Seq(Bytes)
    PROVE  [f EXCEPT !.next = n, !.sent = v]
              = [st |-> f.st, next |-> n, until |-> f.until, sent |-> v]
<1> DEFINE x == [f EXCEPT !.next = n, !.sent = v]
           y == [st |-> f.st, next |-> n, until |-> f.until, sent |-> v]
<1>1. x \in StreamRecord /\ y \in StreamRecord
  BY DEF StreamRecord
<1>2. x.st = y.st /\ x.next = y.next /\ x.until = y.until /\ x.sent = y.sent
  BY DEF StreamRecord
<1> QED
  BY <1>1, <1>2, StreamEqual

(* A dump that falls behind. *)
LEMMA FieldsOfLate ==
    ASSUME NEW f \in StreamRecord, NEW n \in Bytes
    PROVE  [f EXCEPT !.st = "late", !.next = n]
              = [st |-> "late", next |-> n, until |-> f.until, sent |-> f.sent]
<1> DEFINE x == [f EXCEPT !.st = "late", !.next = n]
           y == [st |-> "late", next |-> n, until |-> f.until, sent |-> f.sent]
<1>1. x \in StreamRecord /\ y \in StreamRecord
  BY DEF StreamRecord
<1>2. x.st = y.st /\ x.next = y.next /\ x.until = y.until /\ x.sent = y.sent
  BY DEF StreamRecord
<1> QED
  BY <1>1, <1>2, StreamEqual

(* A stream that ends. *)
LEMMA FieldsOfEnd ==
    ASSUME NEW f \in StreamRecord, NEW v \in Seq(Bytes)
    PROVE  [f EXCEPT !.st = "over", !.sent = v]
              = [st |-> "over", next |-> f.next, until |-> f.until, sent |-> v]
<1> DEFINE x == [f EXCEPT !.st = "over", !.sent = v]
           y == [st |-> "over", next |-> f.next, until |-> f.until, sent |-> v]
<1>1. x \in StreamRecord /\ y \in StreamRecord
  BY DEF StreamRecord
<1>2. x.st = y.st /\ x.next = y.next /\ x.until = y.until /\ x.sent = y.sent
  BY DEF StreamRecord
<1> QED
  BY <1>1, <1>2, StreamEqual

(* It is such a record. *)
LEMMA SeenTyped ==
    ASSUME ServerInv, NEW c \in Clients
    PROVE  SeenStream(c) \in StreamRecord /\ Sent(c) \in Seq(Bytes)
<1>1. conn[c] \in ConnRecord /\ peer[c] \in PeerRecord
  BY DEF ServerInv, ServerTypes
<1>2. Sent(c) \in Seq(Bytes)
  BY <1>1 DEF PeerRecord, Sent
<1>3. conn[c].cursor \in Bytes /\ conn[c].dump_until \in Bytes \cup {NoBound}
  BY <1>1 DEF ConnRecord
<1> QED
  BY <1>2, <1>3 DEF SeenStream, StreamRecord

(* A step that changes at most the stream of c. *)
LEMMA StreamOf ==
    ASSUME NEW c \in Clients, NEW r, SeenStream(c)' = r,
           \A d \in Clients \ {c} : SeenStream(d)' = SeenStream(d)
    PROVE  Streams' = [Streams EXCEPT ![c] = r] /\ Streams[c] = SeenStream(c)
<1>1. \A d \in Clients : SeenStream(d)' = IF d = c THEN r ELSE SeenStream(d)
  OBVIOUS
<1> QED
  BY <1>1 DEF Streams

(* A stutter: nothing of what LogStream speaks of changes. *)
LEMMA StreamStutter ==
    ASSUME UNCHANGED ringVars, Quitters' = Quitters,
           \A d \in Clients : SeenStream(d)' = SeenStream(d)
    PROVE  [Stream!StreamNext]_(Stream!streamVars)
<1>1. Streams' = Streams
  BY DEF Streams
<1> QED
  BY <1>1 DEF Stream!streamVars, Streams, Quitters, ringVars

(* The first byte that read_from_cursor can deliver is the first that is kept. *)
LEMMA KeptIsFrom ==
    ASSUME ServerInv, NEW c \in Clients
    PROVE  Stream!Kept(SeenStream(c).next) = From(c)
<1>1. /\ conn[c].cursor \in Nat /\ write_pos \in Nat /\ Capacity \in Nat
      /\ SeenStream(c).next = conn[c].cursor
  BY FromFacts, BytesFacts DEF SeenStream
<1> QED
  BY <1>1 DEF Stream!Kept, From, StartPos

(* What may be sent next ends at the write position, also for a dump that keeps
   up. *)
LEMMA StopsAtWritePos ==
    ASSUME NEW c \in Clients, Streaming(c), OnTime(c)
    PROVE  Stream!Stop(c) = write_pos
<1>1. /\ Streams[c].st = IF conn[c].write_blocked /\ conn[c].dump_until # NoBound
                         THEN "late" ELSE "on"
      /\ Streams[c].until = conn[c].dump_until
  BY DEF Streams, SeenStream
<1>2. Stream!Stop(c) = IF Streams[c].st = "on" /\ Streams[c].until # NoBound
                       THEN Streams[c].until ELSE write_pos
  BY DEF Stream!Stop, Streams
<1>3. CASE conn[c].dump_until = NoBound
  BY <1>1, <1>2, <1>3
<1>4. CASE conn[c].dump_until # NoBound /\ conn[c].write_blocked
  BY <1>1, <1>2, <1>4
<1>5. CASE conn[c].dump_until # NoBound /\ ~conn[c].write_blocked
  BY <1>1, <1>2, <1>5 DEF OnTime
<1> QED
  BY <1>3, <1>4, <1>5

(* A subscription is the beginning of a stream. *)
LEMMA BeginsStream ==
    ASSUME NEW c \in Clients, UNCHANGED ringVars, Quitters' = Quitters,
           \A d \in Clients \ {c} : SeenStream(d)' = SeenStream(d),
           SeenStream(c).st = "idle", NEW u \in {NoBound, write_pos},
           SeenStream(c)' = [SeenStream(c) EXCEPT !.st = "on", !.until = u]
    PROVE  [Stream!StreamNext]_(Stream!streamVars)
<1>1. /\ Streams' = [Streams EXCEPT ![c] =
                        [SeenStream(c) EXCEPT !.st = "on", !.until = u]]
      /\ Streams[c] = SeenStream(c)
  BY StreamOf
<1>2. Streams' = [Streams EXCEPT ![c].st = "on", ![c].until = u]
  BY <1>1 DEF Streams
<1>3. Stream!Begin(c)
  BY <1>1, <1>2 DEF Stream!Begin, Streams, Quitters, ringVars
<1> QED
  BY <1>3 DEF Stream!StreamNext

(* The bytes from From(c) on up to `to` are a delivery. *)
LEMMA DeliversStream ==
    ASSUME ServerInv, NEW c \in Clients, UNCHANGED ringVars, Quitters' = Quitters,
           \A d \in Clients \ {c} : SeenStream(d)' = SeenStream(d),
           Streaming(c), OnTime(c), NEW to \in From(c)..write_pos,
           SeenStream(c)' = [SeenStream(c) EXCEPT !.next = to,
                                !.sent = @ \o LogFrom(From(c), to - From(c))]
    PROVE  [Stream!StreamNext]_(Stream!streamVars)
<1> DEFINE r == [SeenStream(c) EXCEPT !.next = to,
                    !.sent = @ \o LogFrom(From(c), to - From(c))]
<1>1. Streams' = [Streams EXCEPT ![c] = r] /\ Streams[c] = SeenStream(c)
  BY StreamOf
<1>2. Streams' = [Streams EXCEPT ![c].next = to,
                     ![c].sent = @ \o LogFrom(From(c), to - From(c))]
  BY <1>1 DEF Streams
<1>3. Streams'[c].next = to
  <2>1. r.next = to
    BY DEF SeenStream
  <2> QED
    BY <1>1, <2>1 DEF Streams
<1>4. Streams[c].st \in {"on", "late"} /\ Stream!Stop(c) = write_pos
  BY <1>1, StopsAtWritePos DEF SeenStream
<1>5. Stream!Kept(Streams[c].next) = From(c)
  BY <1>1, KeptIsFrom
<1>6. LogFrom(From(c), to - From(c)) = [k \in 1..(to - From(c)) |-> From(c) + k - 1]
  BY DEF LogFrom
<1>7. Stream!Deliver(c)
  <2> DEFINE f == Stream!Kept(Streams[c].next)
             t == Streams'[c].next
  <2>1. Streams' = [Streams EXCEPT ![c].next = to,
                       ![c].sent = @ \o [k \in 1..(to - From(c)) |-> From(c) + k - 1]]
    BY <1>2, <1>6
  <2>2. Streams' = [Streams EXCEPT ![c].next = t,
                       ![c].sent = @ \o [k \in 1..(t - f) |-> f + k - 1]]
    BY <1>3, <1>5, <2>1, Zenon
  <2>3. /\ Streams[c].st \in {"on", "late"} /\ t \in f..Stream!Stop(c)
        /\ UNCHANGED <<write_pos, Quitters>>
    BY <1>3, <1>4, <1>5 DEF ringVars
  <2> QED
    BY <2>2, <2>3, Zenon DEF Stream!Deliver, Streams, Quitters
<1> QED
  BY <1>7 DEF Stream!StreamNext

(* A dump that blocks falls behind, and skips what is lost. *)
LEMMA FallsBehind ==
    ASSUME ServerInv, NEW c \in Clients, UNCHANGED ringVars, Quitters' = Quitters,
           \A d \in Clients \ {c} : SeenStream(d)' = SeenStream(d),
           SeenStream(c).st = "on", SeenStream(c).until # NoBound,
           From(c) < SeenStream(c).until,
           SeenStream(c)' = [SeenStream(c) EXCEPT !.st = "late", !.next = From(c)]
    PROVE  [Stream!StreamNext]_(Stream!streamVars)
<1>1. /\ Streams' = [Streams EXCEPT ![c] =
                        [SeenStream(c) EXCEPT !.st = "late", !.next = From(c)]]
      /\ Streams[c] = SeenStream(c)
  BY StreamOf
<1>2. Streams' = [Streams EXCEPT ![c].st = "late", ![c].next = From(c)]
  BY <1>1 DEF Streams
<1>3. Stream!Kept(Streams[c].next) = From(c)
  BY <1>1, KeptIsFrom
<1>4. Stream!FallBehind(c)
  BY <1>1, <1>2, <1>3 DEF Stream!FallBehind, Streams, Quitters, ringVars
<1> QED
  BY <1>4 DEF Stream!StreamNext

(* What is left of a stream that is over. *)
LEMMA OverRecord ==
    ASSUME NEW x \in Seq(Bytes)
    PROVE  [Stream!NoStream EXCEPT !.st = "over", !.sent = x]
           = [st |-> "over", next |-> 0, until |-> NoBound, sent |-> x]
<1>1. /\ Stream!NoStream \in StreamRecord
      /\ Stream!NoStream.next = 0 /\ Stream!NoStream.until = NoBound
  BY BytesFacts DEF Stream!NoStream, StreamRecord, Bytes
<1> QED
  BY <1>1, FieldsOfEnd

(* A connection that is closed is a stream that is over. *)
LEMMA EndsStream ==
    ASSUME ServerInv, NEW c \in Connected, OnTime(c), UNCHANGED ringVars, Close(c),
           \/ ~Streaming(c) \/ peer[c].st = "quit"
           \/ conn[c].dump_until # NoBound /\ From(c) = write_pos
    PROVE  [Stream!StreamNext]_(Stream!streamVars)
<1>1. c \in Clients
  BY DEF Connected
<1>2. /\ \A d \in Clients \ {c} : conn'[d] = conn[d] /\ peer'[d] = peer[d]
      /\ ~Streaming(c)' /\ c \notin Connected' /\ Sent(c)' = Sent(c)
      /\ conn'[c] = Absent
      /\ peer'[c].st = IF peer[c].st = "quit" THEN "quit" ELSE "closed"
  BY CloseFacts
<1>3. \A d \in Clients \ {c} : SeenStream(d)' = SeenStream(d)
  <2> SUFFICES ASSUME NEW d \in Clients \ {c} PROVE SeenStream(d)' = SeenStream(d)
    OBVIOUS
  <2>1. Sent(d)' = Sent(d)
    BY <1>2 DEF Sent
  <2> QED
    BY <1>2, <2>1, SeenKept
<1>4. Quitters' = Quitters
  BY <1>1, <1>2 DEF Quitters
<1>5. SeenStream(c)' = [st |-> "over", next |-> 0, until |-> NoBound, sent |-> Sent(c)]
  <2>1. conn'[c].cursor = 0 /\ conn'[c].dump_until = NoBound
    BY <1>2 DEF Absent
  <2> QED
    BY <1>2, <2>1 DEF SeenStream
<1>6. SeenStream(c)' = [Stream!NoStream EXCEPT !.st = "over", !.sent = SeenStream(c).sent]
  <2>1. PICK x \in Seq(Bytes) : x = Sent(c)
    BY <1>1, SeenTyped
  <2>2. [Stream!NoStream EXCEPT !.st = "over", !.sent = x]
           = [st |-> "over", next |-> 0, until |-> NoBound, sent |-> x]
    BY OverRecord
  <2>3. SeenStream(c).sent = x
    BY <2>1 DEF SeenStream
  <2> QED
    BY <1>5, <2>1, <2>2, <2>3
<1>7. /\ Streams' = [Streams EXCEPT ![c] =
                        [Stream!NoStream EXCEPT !.st = "over",
                                                !.sent = SeenStream(c).sent]]
      /\ Streams[c] = SeenStream(c)
  BY <1>1, <1>3, <1>6, StreamOf
<1>8. Stream!Kept(Streams[c].next) = From(c)
  BY <1>1, <1>7, KeptIsFrom
<1>9. /\ Streams[c].st \in IF Streaming(c) THEN {"on", "late"} ELSE {"idle"}
      /\ Streams[c].until = conn[c].dump_until
  BY <1>7 DEF SeenStream
<1>10. \/ Streams[c].st = "idle"
       \/ /\ Streams[c].st \in {"on", "late"}
          /\ \/ c \in Quitters
             \/ /\ Streams[c].until # NoBound
                /\ Stream!Kept(Streams[c].next) = Stream!Stop(c)
  <2>1. peer[c].st = "quit" => c \in Quitters
    BY <1>1 DEF Quitters
  <2>2. Streaming(c) => Stream!Stop(c) = write_pos
    BY <1>1, StopsAtWritePos
  <2> QED
    BY <1>8, <1>9, <2>1, <2>2
<1>11. Stream!End(c)
  BY <1>4, <1>7, <1>10 DEF Stream!End, Streams, Quitters, ringVars
<1> QED
  BY <1>1, <1>11 DEF Stream!StreamNext

(* The clients' steps, and accept_all: only hanging up shows. *)
LEMMA PeersStream ==
    ASSUME ServerInv, NEW c \in Clients, UNCHANGED ringVars,
           \A d \in Clients \ {c} : conn'[d] = conn[d] /\ peer'[d] = peer[d],
           conn'[c].cursor = conn[c].cursor,
           conn'[c].dump_until = conn[c].dump_until,
           conn'[c].write_blocked = conn[c].write_blocked, Sent(c)' = Sent(c),
           \/ /\ conn'[c].state = conn[c].state
              /\ \/ peer'[c].st = peer[c].st
                 \/ peer[c].st = "idle" /\ peer'[c].st = "queued"
                 \/ peer[c].st = "open" /\ peer'[c].st = "quit"
           \/ /\ conn[c].state = "absent" /\ peer[c].st = "queued"
              /\ \/ conn'[c].state = "awaiting" /\ peer'[c].st = "open"
                 \/ conn'[c].state = "absent" /\ peer'[c].st = "dropped"
    PROVE  [Stream!StreamNext]_(Stream!streamVars)
<1>1. ASSUME NEW d \in Clients \ {c} PROVE SeenStream(d)' = SeenStream(d)
  <2>1. Sent(d)' = Sent(d) /\ conn'[d] = conn[d] /\ peer'[d] = peer[d]
    BY DEF Sent
  <2> QED
    BY <2>1, SeenKept
<1>2. SeenStream(c)' = SeenStream(c)
  <2>1. CASE conn'[c].state = conn[c].state
    <3>1. peer[c].st = "open" => c \in Connected
      BY DEF ServerInv, Paired
    <3> QED
      BY <2>1, <3>1, SeenKept
  <2>2. CASE /\ conn[c].state = "absent" /\ peer[c].st = "queued"
             /\ \/ conn'[c].state = "awaiting" /\ peer'[c].st = "open"
                \/ conn'[c].state = "absent" /\ peer'[c].st = "dropped"
    <3>1. ~Streaming(c) /\ ~Streaming(c)'
      BY <2>2 DEF Streaming
    <3>2. peer[c].st \notin {"quit", "closed"} /\ peer'[c].st \notin {"quit", "closed"}
      BY <2>2
    <3> QED
      BY <3>1, <3>2 DEF SeenStream
  <2> QED
    BY <2>1, <2>2
<1>3. CASE peer[c].st = "open" /\ peer'[c].st = "quit"
  <2>1. Quitters' = Quitters \cup {c}
    BY <1>3 DEF Quitters
  <2>2. Streams' = Streams
    BY <1>1, <1>2 DEF Streams
  <2>3. Stream!HangUp(c)
    BY <2>1, <2>2 DEF Stream!HangUp, Streams, Quitters, ringVars
  <2> QED
    BY <2>3 DEF Stream!StreamNext
<1>4. CASE ~(peer[c].st = "open" /\ peer'[c].st = "quit")
  <2>1. Quitters' = Quitters
    BY <1>4 DEF Quitters
  <2> QED
    BY <1>1, <1>2, <2>1, StreamStutter
<1> QED
  BY <1>3, <1>4

(* What the environment's steps change. *)
LEMMA EnvironmentStream ==
    ASSUME ServerInv, NEW c \in Clients,
           Connect(c) \/ SendRequest(c) \/ Receive(c) \/ HangUp(c)
    PROVE  [Stream!StreamNext]_(Stream!streamVars)
<1>1. peer[c] \in PeerRecord /\ peer \in [Clients -> PeerRecord]
  BY DEF ServerInv, ServerTypes
<1>2. UNCHANGED ringVars /\ UNCHANGED conn
  BY DEF Connect, SendRequest, Receive, HangUp, PeerStep
<1>3. ASSUME NEW p, PeerStep(c, p)
      PROVE  peer'[c] = p /\ \A d \in Clients \ {c} : peer'[d] = peer[d]
  BY <1>1, <1>3 DEF PeerStep
<1>4. CASE Connect(c) \/ HangUp(c)
  <2>1. PICK s \in {"queued", "quit"} :
           /\ PeerStep(c, [peer[c] EXCEPT !.st = s])
           /\ \/ peer[c].st = "idle" /\ s = "queued"
              \/ peer[c].st = "open" /\ s = "quit"
    BY <1>4 DEF Connect, HangUp
  <2>2. /\ peer'[c] = [peer[c] EXCEPT !.st = s]
        /\ \A d \in Clients \ {c} : peer'[d] = peer[d]
    BY <1>3, <2>1
  <2>3. peer'[c].st = s /\ peer'[c].got = peer[c].got /\ peer'[c].sock = peer[c].sock
    BY <1>1, <2>2 DEF PeerRecord
  <2>4. Sent(c)' = Sent(c)
    BY <2>3 DEF Sent
  <2> QED
    BY <1>2, <2>1, <2>2, <2>3, <2>4, PeersStream
<1>5. CASE SendRequest(c)
  <2>1. PICK r \in {"part", "full"} : PeerStep(c, [peer[c] EXCEPT !.req = r])
    BY <1>5 DEF SendRequest
  <2>2. /\ peer'[c] = [peer[c] EXCEPT !.req = r]
        /\ \A d \in Clients \ {c} : peer'[d] = peer[d]
    BY <1>3, <2>1
  <2>3. /\ peer'[c].st = peer[c].st /\ peer'[c].got = peer[c].got
        /\ peer'[c].sock = peer[c].sock
    BY <1>1, <2>2 DEF PeerRecord
  <2>4. Sent(c)' = Sent(c)
    BY <2>3 DEF Sent
  <2> QED
    BY <1>2, <2>2, <2>3, <2>4, PeersStream
<1>6. CASE Receive(c)
  <2>1. /\ peer'[c] = [peer[c] EXCEPT !.got = @ \o peer[c].sock, !.sock = <<>>]
        /\ \A d \in Clients \ {c} : peer'[d] = peer[d]
    BY <1>3, <1>6 DEF Receive
  <2>2. /\ peer'[c].st = peer[c].st
        /\ peer'[c].got = peer[c].got \o peer[c].sock /\ peer'[c].sock = <<>>
    BY <1>1, <2>1 DEF PeerRecord
  <2>3. Sent(c)' = Sent(c)
    <3>1. peer[c].got \o peer[c].sock \in Seq(Bytes)
      BY <1>1 DEF PeerRecord
    <3>2. PICK g \in Seq(Bytes) : g = peer[c].got \o peer[c].sock
      BY <3>1
    <3> QED
      BY <2>2, <3>2, ConcatEmptySeq DEF Sent
  <2> QED
    BY <1>2, <2>1, <2>2, <2>3, PeersStream
<1> QED
  BY <1>4, <1>5, <1>6

(* accept_all does not show. *)
LEMMA AcceptStream ==
    ASSUME ServerInv, AcceptAll
    PROVE  [Stream!StreamNext]_(Stream!streamVars)
<1> DEFINE free == Cardinality(Connected) < MaxConnections
<1>1. PICK c \in Queued :
         /\ conn' = IF free THEN [conn EXCEPT ![c].state = "awaiting"] ELSE conn
         /\ peer' = [peer EXCEPT ![c].st = IF free THEN "open" ELSE "dropped"]
  BY DEF AcceptAll
<1> HIDE DEF free
<1>2. UNCHANGED ringVars /\ ServerTypes
  BY DEF AcceptAll, ServerInv
<1>3. c \in Clients /\ peer[c].st = "queued" /\ conn[c].state = "absent"
  BY DEF Queued, ServerInv, Paired, Connected
<1>4. conn[c] \in ConnRecord /\ peer[c] \in PeerRecord
  BY <1>2, <1>3 DEF ServerTypes
<1>5. PICK s \in {"open", "dropped"} : s = IF free THEN "open" ELSE "dropped"
  OBVIOUS
<1>6. PICK t \in {"awaiting", "absent"} : t = IF free THEN "awaiting" ELSE "absent"
  OBVIOUS
<1>7. /\ peer'[c] = [peer[c] EXCEPT !.st = s]
      /\ \A d \in Clients \ {c} : peer'[d] = peer[d]
  BY <1>1, <1>2, <1>3, <1>5 DEF ServerTypes
<1>8. /\ conn'[c] = [conn[c] EXCEPT !.state = t]
      /\ \A d \in Clients \ {c} : conn'[d] = conn[d]
  <2>1. CASE free
    BY <1>1, <1>2, <1>3, <1>6, <2>1 DEF ServerTypes
  <2>2. CASE ~free
    <3>1. conn[c] = [conn[c] EXCEPT !.state = "absent"]
      BY <1>3, <1>4 DEF ConnRecord
    <3> QED
      BY <1>1, <1>6, <2>2, <3>1
  <2> QED
    BY <2>1, <2>2
<1>9. peer'[c].st = s /\ peer'[c].got = peer[c].got /\ peer'[c].sock = peer[c].sock
  BY <1>4, <1>7 DEF PeerRecord
<1>10. /\ conn'[c].state = t /\ conn'[c].cursor = conn[c].cursor
       /\ conn'[c].dump_until = conn[c].dump_until
       /\ conn'[c].write_blocked = conn[c].write_blocked
  BY <1>4, <1>8 DEF ConnRecord
<1>11. Sent(c)' = Sent(c)
  BY <1>9 DEF Sent
<1> QED
  BY <1>2, <1>3, <1>5, <1>6, <1>7, <1>8, <1>9, <1>10, <1>11, PeersStream

(* An event opens a stream, ends one, or does not show. *)
LEMMA EventStream ==
    ASSUME ServerInv, OnTimeInv, NEW c \in Clients, HandleEvent(c)
    PROVE  [Stream!StreamNext]_(Stream!streamVars)
<1>1. /\ c \in Connected /\ UNCHANGED ringVars /\ ServerTypes /\ Paired(c)
      /\ OnTime(c)
  BY DEF HandleEvent, ServerInv, OnTimeInv
<1>2. CASE Close(c) /\ (~Streaming(c) \/ peer[c].st = "quit")
  BY <1>1, <1>2, EndsStream
<1>3. CASE UNCHANGED <<conn, peer>>
  <2>1. Quitters' = Quitters
    BY <1>3 DEF Quitters
  <2>2. \A d \in Clients : SeenStream(d)' = SeenStream(d)
    BY <1>3 DEF SeenStream, Streaming, Connected, Sent
  <2> QED
    BY <1>1, <2>1, <2>2, StreamStutter
<1>4. CASE /\ Streaming(c) \/ IsNew(c)
           /\ conn' = [conn EXCEPT ![c] = Opened(c)]
           /\ peer' = [peer EXCEPT ![c].req = "read"]
  <2>1. /\ Opened(c).state = "streaming" /\ Opened(c).cursor = conn[c].cursor
        /\ Opened(c).write_blocked = conn[c].write_blocked
        /\ Streaming(c) => Opened(c).dump_until = conn[c].dump_until
        /\ ~Streaming(c) => Opened(c).dump_until \in {NoBound, write_pos}
    BY <1>4, OpenedFacts
  <2>2. peer[c] \in PeerRecord
    BY <1>1 DEF ServerTypes
  <2>3. /\ peer'[c] = [peer[c] EXCEPT !.req = "read"] /\ conn'[c] = Opened(c)
        /\ \A d \in Clients \ {c} : conn'[d] = conn[d] /\ peer'[d] = peer[d]
    BY <1>1, <1>4 DEF ServerTypes
  <2>4. /\ peer'[c].st = peer[c].st /\ peer'[c].got = peer[c].got
        /\ peer'[c].sock = peer[c].sock
    BY <2>2, <2>3 DEF PeerRecord
  <2>5. Quitters' = Quitters
    BY <2>3, <2>4 DEF Quitters
  <2>6. Sent(c)' = Sent(c)
    BY <2>4 DEF Sent
  <2>7. ASSUME NEW d \in Clients \ {c} PROVE SeenStream(d)' = SeenStream(d)
    <3>1. Sent(d)' = Sent(d) /\ conn'[d] = conn[d] /\ peer'[d] = peer[d]
      BY <2>3 DEF Sent
    <3> QED
      BY <3>1, SeenKept
  <2>8. CASE Streaming(c)
    <3>1. SeenStream(c)' = SeenStream(c)
      BY <2>1, <2>3, <2>4, <2>6, <2>8, SeenKept DEF Streaming
    <3> QED
      BY <1>1, <2>5, <2>7, <3>1, StreamStutter
  <2>9. CASE ~Streaming(c)
    <3>1. PICK u \in {NoBound, write_pos} : u = Opened(c).dump_until
      BY <2>1, <2>9
    <3>2. SeenStream(c) = [st |-> "idle", next |-> conn[c].cursor,
                           until |-> conn[c].dump_until, sent |-> Sent(c)]
      BY <1>1, <2>9 DEF SeenStream
    <3>3. SeenStream(c)' = [st |-> "on", next |-> conn[c].cursor,
                            until |-> u, sent |-> Sent(c)]
      <4>1. ~conn'[c].write_blocked
        BY <1>1, <2>1, <2>3, <2>9 DEF Paired
      <4> QED
        BY <2>1, <2>3, <2>6, <3>1, <4>1 DEF SeenStream, Streaming
    <3>4. /\ SeenStream(c).st = "idle"
          /\ SeenStream(c)' = [SeenStream(c) EXCEPT !.st = "on", !.until = u]
      <4>1. PICK f \in StreamRecord : f = SeenStream(c)
        BY SeenTyped
      <4>2. /\ f.st = "idle" /\ f.next = conn[c].cursor /\ f.sent = Sent(c)
            /\ f.sent \in Seq(Bytes) /\ f.next \in Bytes
        BY <3>2, <4>1 DEF StreamRecord
      <4>3. u \in Bytes \cup {NoBound}
        BY <1>1 DEF ServerTypes
      <4>4. [f EXCEPT !.st = "on", !.until = u]
               = [st |-> "on", next |-> f.next, until |-> u, sent |-> f.sent]
        BY <4>3, FieldsOfBegin
      <4> QED
        BY <3>3, <4>1, <4>2, <4>4
    <3> QED
      BY <1>1, <2>5, <2>7, <3>4, BeginsStream
  <2> QED
    BY <2>8, <2>9
<1> QED
  BY <1>2, <1>3, <1>4 DEF HandleEvent, IsNew, Opened, Eof

(* Every round of try_send is a delivery. *)
LEMMA ChunkStream ==
    ASSUME ServerInv, OnTimeInv, SendChunk
    PROVE  [Stream!StreamNext]_(Stream!streamVars)
<1>1. pc = "send" /\ UNCHANGED ringVars /\ ServerTypes
  BY DEF SendChunk, ServerInv
<1>2. PICK c \in Clients, n \in Nat :
         /\ c = job[2] /\ From(c) + n <= write_pos
         /\ conn' = [conn EXCEPT ![c] = Moved(conn[c], From(c) + n)]
         /\ peer' = [peer EXCEPT ![c] =
                       SentMore(peer[c], peer[c].sock \o LogFrom(From(c), n))]
  BY SendFacts
<1>3. Streaming(c)
  BY <1>1, <1>2 DEF ServerInv, Serving
<1>4. PICK k \in ConnRecord : k = conn[c]
  BY <1>1 DEF ServerTypes
<1>5. PICK p \in PeerRecord : p = peer[c]
  BY <1>1 DEF ServerTypes
<1>6. From(c) \in Nat /\ write_pos \in Nat
  BY FromFacts
<1>7. PICK x \in Bytes : x = From(c) + n
  <2>1. write_pos \in 0..MaxBytes
    BY <1>1 DEF ServerTypes, Bytes
  <2>2. From(c) + n \in Bytes
    BY <1>2, <1>6, <2>1, BytesFacts DEF Bytes
  <2> QED
    BY <2>2
<1>8. PICK t \in Seq(Bytes) : t = LogFrom(From(c), n)
  BY <1>6, <1>7, LogFromFacts
<1>9. p.sock \in Seq(Bytes) /\ p.got \in Seq(Bytes)
  BY DEF PeerRecord
<1>10. PICK s \in Seq(Bytes) : s = p.sock \o t
  <2>1. p.sock \o t \in Seq(Bytes)
    BY <1>9
  <2> QED
    BY <2>1
<1>11. /\ conn'[c] = Moved(k, x) /\ peer'[c] = SentMore(p, s)
       /\ \A d \in Clients \ {c} : conn'[d] = conn[d] /\ peer'[d] = peer[d]
  BY <1>1, <1>2, <1>4, <1>5, <1>7, <1>8, <1>10 DEF ServerTypes
<1>12. /\ conn'[c].cursor = x /\ conn'[c].state = k.state
       /\ conn'[c].dump_until = k.dump_until
       /\ conn'[c].write_blocked = k.write_blocked
  BY <1>11, MovedFields
<1>13. peer'[c].sock = s /\ peer'[c].got = p.got /\ peer'[c].st = p.st
  BY <1>11, SentMoreFields
<1>14. Quitters' = Quitters
  BY <1>5, <1>11, <1>13 DEF Quitters
<1>15. ASSUME NEW d \in Clients \ {c} PROVE SeenStream(d)' = SeenStream(d)
  <2>1. Sent(d)' = Sent(d) /\ conn'[d] = conn[d] /\ peer'[d] = peer[d]
    BY <1>11 DEF Sent
  <2> QED
    BY <2>1, SeenKept
<1>16. Sent(c)' = Sent(c) \o t
  <2>1. PICK g \in Seq(Bytes) : g = p.got
    BY <1>9
  <2>2. PICK q \in Seq(Bytes) : q = p.sock
    BY <1>9
  <2>3. (g \o q) \o t = g \o (q \o t)
    BY ConcatAssociative
  <2> QED
    BY <1>5, <1>10, <1>13, <2>1, <2>2, <2>3 DEF Sent
<1> DEFINE st == IF conn[c].write_blocked /\ conn[c].dump_until # NoBound
                 THEN "late" ELSE "on"
<1>17. SeenStream(c) = [st |-> st, next |-> conn[c].cursor,
                        until |-> conn[c].dump_until, sent |-> Sent(c)]
  BY <1>3 DEF SeenStream
<1>18. SeenStream(c)' = [st |-> st, next |-> x,
                         until |-> conn[c].dump_until, sent |-> Sent(c) \o t]
  BY <1>3, <1>4, <1>12, <1>16 DEF SeenStream, Streaming
<1> HIDE DEF st
<1>19. /\ SeenStream(c)' = [SeenStream(c) EXCEPT !.next = x, !.sent = @ \o t]
       /\ t = LogFrom(From(c), x - From(c)) /\ x \in From(c)..write_pos
  <2>1. SeenStream(c)' = [SeenStream(c) EXCEPT !.next = x, !.sent = @ \o t]
    <3>1. PICK f \in StreamRecord : f = SeenStream(c)
      BY SeenTyped
    <3>2. PICK v \in Seq(Bytes) : v = Sent(c) \o t
      <4>1. Sent(c) \o t \in Seq(Bytes)
        BY SeenTyped
      <4> QED
        BY <4>1
    <3>3. f.st = st /\ f.until = conn[c].dump_until /\ f.sent = Sent(c)
      BY <1>17, <3>1
    <3>4. [f EXCEPT !.next = x, !.sent = v]
             = [st |-> f.st, next |-> x, until |-> f.until, sent |-> v]
      BY FieldsOfDeliver
    <3>5. [f EXCEPT !.next = x, !.sent = @ \o t] = [f EXCEPT !.next = x, !.sent = v]
      BY <3>2, <3>3
    <3> QED
      BY <1>18, <3>1, <3>2, <3>3, <3>4, <3>5
  <2>2. x - From(c) = n /\ x \in From(c)..write_pos
    BY <1>2, <1>6, <1>7
  <2> QED
    BY <1>8, <2>1, <2>2
<1>20. OnTime(c)
  BY DEF OnTimeInv
<1> QED
  BY <1>1, <1>3, <1>14, <1>15, <1>19, <1>20, DeliversStream

(* The end of try_send ends the stream, or skips what is lost. *)
LEMMA DoneStream ==
    ASSUME ServerInv, OnTimeInv, SendDone
    PROVE  [Stream!StreamNext]_(Stream!streamVars)
<1>1. pc = "send" /\ UNCHANGED ringVars /\ ServerTypes
  BY DEF SendDone, ServerInv
<1>2. PICK c \in Clients :
         /\ c = job[2]
         /\ \/ /\ Close(c)
               /\ \/ peer[c].st = "quit"
                  \/ conn[c].dump_until # NoBound /\ From(c) = write_pos
            \/ /\ conn' = [conn EXCEPT ![c] =
                             Flushed(conn[c], From(c), From(c) # write_pos)]
               /\ UNCHANGED peer
               /\ \/ From(c) # write_pos \/ conn[c].dump_until = NoBound
                  \/ ~(From(c) >= conn[c].dump_until)
  BY DoneFacts
<1>3. Streaming(c) /\ c \in Connected /\ OnTime(c)
  BY <1>1, <1>2 DEF ServerInv, Serving, Streaming, Connected, OnTimeInv
<1>4. CASE Close(c) /\ (\/ peer[c].st = "quit"
                        \/ conn[c].dump_until # NoBound /\ From(c) = write_pos)
  BY <1>1, <1>3, <1>4, EndsStream
<1>5. CASE /\ conn' = [conn EXCEPT ![c] =
                         Flushed(conn[c], From(c), From(c) # write_pos)]
           /\ UNCHANGED peer
           /\ \/ From(c) # write_pos \/ conn[c].dump_until = NoBound
              \/ ~(From(c) >= conn[c].dump_until)
  <2>1. PICK b \in BOOLEAN : b = (From(c) # write_pos)
    OBVIOUS
  <2>2. From(c) \in Nat /\ write_pos \in Nat /\ From(c) <= write_pos
    BY FromFacts
  <2>3. PICK x \in Bytes : x = From(c)
    <3>1. write_pos \in 0..MaxBytes
      BY <1>1 DEF ServerTypes, Bytes
    <3> QED
      BY <2>2, <3>1, BytesFacts DEF Bytes
  <2>4. PICK k \in ConnRecord : k = conn[c]
    BY <1>1 DEF ServerTypes
  <2>5. /\ conn'[c] = Flushed(k, x, b)
        /\ \A d \in Clients \ {c} : conn'[d] = conn[d] /\ peer'[d] = peer[d]
    BY <1>1, <1>5, <2>1, <2>3, <2>4 DEF ServerTypes
  <2>6. /\ conn'[c].cursor = x /\ conn'[c].state = k.state
        /\ conn'[c].dump_until = k.dump_until /\ conn'[c].write_blocked = b
    BY <2>5, FlushedFields
  <2>7. Quitters' = Quitters
    BY <1>5 DEF Quitters
  <2>8. ASSUME NEW d \in Clients \ {c} PROVE SeenStream(d)' = SeenStream(d)
    <3>1. Sent(d)' = Sent(d) /\ conn'[d] = conn[d] /\ peer'[d] = peer[d]
      BY <2>5 DEF Sent
    <3> QED
      BY <3>1, SeenKept
  <2> DEFINE st == IF conn[c].write_blocked /\ conn[c].dump_until # NoBound
                   THEN "late" ELSE "on"
             su == IF b /\ conn[c].dump_until # NoBound THEN "late" ELSE "on"
  <2>9. SeenStream(c) = [st |-> st, next |-> conn[c].cursor,
                         until |-> conn[c].dump_until, sent |-> Sent(c)]
    BY <1>3 DEF SeenStream
  <2>10. SeenStream(c)' = [st |-> su, next |-> x,
                           until |-> conn[c].dump_until, sent |-> Sent(c)]
    BY <1>3, <1>5, <2>4, <2>6 DEF SeenStream, Streaming, Sent
  <2>11. LogFrom(From(c), x - From(c)) = <<>>
    <3>1. x - From(c) = 0
      BY <2>2, <2>3
    <3> QED
      BY <2>2, <3>1 DEF LogFrom
  <2>12. Sent(c) \o <<>> = Sent(c)
    <3>1. peer[c] \in PeerRecord
      BY <1>1 DEF ServerTypes
    <3>2. Sent(c) \in Seq(Bytes)
      BY <3>1 DEF PeerRecord, Sent
    <3> QED
      BY <3>2, ConcatEmptySeq
  <2>13. conn[c].dump_until # NoBound => b
    BY <1>3, <1>5, <2>1, <2>2 DEF OnTime
  <2>14. CASE conn[c].dump_until # NoBound /\ ~conn[c].write_blocked
    <3>1. st = "on" /\ su = "late"
      BY <2>13, <2>14
    <3>2. From(c) < conn[c].dump_until
      <4>1. conn[c].dump_until = write_pos
        BY <1>3, <2>14 DEF OnTime
      <4>2. From(c) # write_pos
        BY <2>1, <2>13, <2>14
      <4> QED
        BY <2>2, <4>1, <4>2
    <3>3. SeenStream(c)' = [SeenStream(c) EXCEPT !.st = "late", !.next = From(c)]
      <4>1. PICK f \in StreamRecord : f = SeenStream(c)
        BY SeenTyped
      <4>2. f.until = conn[c].dump_until /\ f.sent = Sent(c)
        BY <2>9, <4>1
      <4>3. [f EXCEPT !.st = "late", !.next = x]
               = [st |-> "late", next |-> x, until |-> f.until, sent |-> f.sent]
        BY FieldsOfLate
      <4> QED
        BY <2>3, <2>10, <3>1, <4>1, <4>2, <4>3
    <3>4. SeenStream(c).st = "on" /\ SeenStream(c).until = conn[c].dump_until
      BY <2>9, <3>1
    <3> QED
      BY <1>1, <2>7, <2>8, <2>14, <3>2, <3>3, <3>4, FallsBehind
  <2>15. CASE conn[c].dump_until = NoBound \/ conn[c].write_blocked
    <3>1. su = st
      BY <2>13, <2>15
    <3> HIDE DEF st, su
    <3>2. PICK f \in StreamRecord : f = SeenStream(c)
      BY SeenTyped
    <3>3. PICK v \in Seq(Bytes) : v = Sent(c)
      BY SeenTyped
    <3>4. f.st = st /\ f.until = conn[c].dump_until /\ f.sent = v
      BY <2>9, <3>2, <3>3
    <3>5. [f EXCEPT !.next = x, !.sent = v]
             = [st |-> f.st, next |-> x, until |-> f.until, sent |-> v]
      BY FieldsOfDeliver
    <3>6. [f EXCEPT !.next = x, !.sent = @ \o LogFrom(From(c), x - From(c))]
             = [f EXCEPT !.next = x, !.sent = v]
      <4>1. f.sent \o LogFrom(From(c), x - From(c)) = v
        BY <2>11, <2>12, <3>3, <3>4
      <4> QED
        BY <4>1
    <3>7. x \in From(c)..write_pos
      BY <2>2, <2>3
    <3>8. SeenStream(c)' = [SeenStream(c) EXCEPT !.next = x,
                              !.sent = @ \o LogFrom(From(c), x - From(c))]
      BY <2>10, <3>1, <3>2, <3>3, <3>4, <3>5, <3>6
    <3> QED
      BY <1>1, <1>3, <2>7, <2>8, <3>7, <3>8, DeliversStream
  <2> QED
    BY <2>14, <2>15
<1> QED
  BY <1>2, <1>4, <1>5

(* Every step of the log server is one of LogStream, or does not show. *)
LEMMA StreamStep ==
    ServerInv /\ OnTimeInv /\ [Next]_vars => [Stream!StreamNext]_(Stream!streamVars)
<1> SUFFICES ASSUME ServerInv, OnTimeInv, [Next]_vars
             PROVE  [Stream!StreamNext]_(Stream!streamVars)
  OBVIOUS
<1>1. CASE Capture
  <2>1. write_pos' > write_pos /\ UNCHANGED <<conn, peer>>
    BY <1>1, CaptureGrows
  <2>2. Streams' = Streams
    BY <2>1 DEF Streams, SeenStream, Streaming, Connected, Sent
  <2>3. Quitters' = Quitters
    BY <2>1 DEF Quitters
  <2>4. Stream!Grow
    BY <2>1, <2>2, <2>3 DEF Stream!Grow, Streams, Quitters
  <2> QED
    BY <2>4 DEF Stream!StreamNext
<1>2. ASSUME NEW c \in Clients,
             Connect(c) \/ SendRequest(c) \/ Receive(c) \/ HangUp(c)
      PROVE  [Stream!StreamNext]_(Stream!streamVars)
  BY <1>2, EnvironmentStream
<1>3. CASE AcceptAll
  BY <1>3, AcceptStream
<1>4. CASE SendChunk
  BY <1>4, ChunkStream
<1>5. CASE SendDone
  BY <1>5, DoneStream
<1>6. ASSUME NEW c \in Clients, HandleEvent(c)
      PROVE  [Stream!StreamNext]_(Stream!streamVars)
  BY <1>6, EventStream
<1>7. CASE UNCHANGED <<ringVars, conn, peer>>
  <2>1. Quitters' = Quitters
    BY <1>7 DEF Quitters
  <2>2. \A d \in Clients : SeenStream(d)' = SeenStream(d)
    BY <1>7 DEF SeenStream, Streaming, Connected, Sent
  <2> QED
    BY <1>7, <2>1, <2>2, StreamStutter
<1>8. CASE UNCHANGED vars \/ StartPush \/ EndPush \/ Poll \/ \E c \in Clients : PushOne(c)
  BY <1>7, <1>8 DEF vars, StartPush, EndPush, Poll, PushOne
<1> QED
  BY <1>1, <1>2, <1>3, <1>4, <1>5, <1>6, <1>8 DEF Next, Daemon, Environment

(* The log server starts where LogStream does: with no stream. *)
LEMMA StreamStart == Init => Stream!StreamInit
<1> SUFFICES ASSUME Init PROVE Stream!StreamInit
  OBVIOUS
<1>1. write_pos = 0 /\ conn = [c \in Clients |-> Absent]
  BY DEF Init, RingInit
<1>2. ASSUME NEW c \in Clients
      PROVE  peer[c].st = "idle" /\ peer[c].sock = <<>> /\ peer[c].got = <<>>
  <2>1. PICK f \in BOOLEAN, k \in BOOLEAN : peer[c] = Idle(f, k)
    BY DEF Init
  <2> QED
    BY <2>1 DEF Idle
<1>3. ASSUME NEW c \in Clients PROVE SeenStream(c) = Stream!NoStream
  <2>1. Sent(c) = <<>>
    BY <1>2 DEF Sent
  <2>2. ~Streaming(c) /\ conn[c].cursor = 0 /\ conn[c].dump_until = NoBound
    BY <1>1 DEF Streaming, Absent
  <2>3. peer[c].st = "idle"
    BY <1>2
  <2> QED
    BY <2>1, <2>2, <2>3 DEF SeenStream, Stream!NoStream
<1>4. Streams = [c \in Clients |-> Stream!NoStream]
  BY <1>3 DEF Streams
<1>5. Quitters = {}
  BY <1>2 DEF Quitters
<1> QED
  BY <1>1, <1>4, <1>5 DEF Stream!StreamInit, Streams, Quitters

(* log_ipc.rs implements LogStream: however the ring, the sockets and epoll's
   events interleave, every client sees a stream that begins with its request,
   goes on with what is next in the log and skips only what is no longer kept.
   A dump sends nothing past dump_until while its client keeps up, and ends, for
   a client that is still there, at dump_until or where a client that fell behind
   has caught up. *)
THEOREM ServerImplementsLogStream == Spec => ImplementsLogStream
BY ServerInvariant, OnTimeInvariant, StreamStart, StreamStep, PTL
DEF Spec, ImplementsLogStream, Stream!StreamSpec
=============================================================================
