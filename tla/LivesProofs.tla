----------------------------- MODULE LivesProofs -----------------------------
(***************************************************************************)
(* Proofs about the lives of the daemon: what a daemon that is the only    *)
(* one does with whatever the daemons before it left behind.  For any      *)
(* number of lives and processes and any configurations.                   *)
(***************************************************************************)
EXTENDS Lives, FiniteSetTheorems, SequenceTheorems, WellFoundedInduction, TLAPS

-----------------------------------------------------------------------------
(* The parts of the inductive invariant *)

LifeRecord ==
    [pc : Ended \cup {"create", "check", "remove", "bind", "serve", "unlink", "rmdir"},
     config : Option(ConfigFiles), own : Owners \cup {Refused},
     apps : Seq(AppEntries), run : Seq(Procs \cup {NoProc}),
     sock : {1, 2}, stale : BOOLEAN,
     leftover : SUBSET Names, reaped : SUBSET Names]

ProcRecord ==
    {FreeProc} \cup [st : {"live", "zombie"}, life : Lives,
                     path : Names, ids : [uid : Int, gid : Int]]

LivesTypes ==
    /\ life \in [Lives -> LifeRecord]
    /\ file \in [{"control", "log"} -> Lives \cup {NobodysFile}]
    /\ main_cg \in BOOLEAN /\ cg \in SUBSET Names
    /\ proc \in [Procs -> ProcRecord]
    /\ met \in SUBSET Lives

(* The lives begin in their order, and nothing has happened before. *)
InOrder ==
    \A d \in Lives : At(d, "off") =>
       /\ \A e \in Lives : d < e => At(e, "off")
       /\ life[d].reaped = {} /\ life[d].run = <<>>

(* A daemon that never overlapped with another is the only one, and so were
   those before it over when it began. *)
Alone ==
    \A d \in Lives \ met, e \in Lives :
       /\ Alive(d) /\ Alive(e) => d = e
       /\ ~At(d, "off") /\ e < d => ~Alive(e)

(* What a daemon has read of its configuration, and how far it has got with
   it. *)
Configured(d) ==
    Alive(d) => /\ life[d].own \in Owners
                /\ \E f \in ConfigFiles :
                      /\ Loads(f) /\ life[d].config = <<f>>
                      /\ \E entries \in Listings(f) :
                            life[d].apps = AllApps(f, entries)
                /\ Len(life[d].run) <= Len(life[d].apps)
                /\ ~At(d, "create") => Len(life[d].run) = Len(life[d].apps)

Params(d, i) == AppParams(life[d].apps[i], life[d].config[1], life[d].own)

(* The applications that a daemon runs are its own, each with a process of its
   own, and as configured. *)
RunsOwn(d) ==
    Alive(d) =>
       /\ \A i, j \in DOMAIN life[d].run :
             life[d].run[i] = life[d].run[j] /\ life[d].run[i] # NoProc => i = j
       /\ \A i \in Running(d) :
             LET r == proc[life[d].run[i]] IN
             /\ r.st # "free" /\ r.life = d /\ r.path = Params(d, i).name
             /\ r.ids = ChildIds(life[d].own, Params(d, i).uid, Params(d, i).gid)
             /\ At(d, "create") => life[d].apps[i].autostart

(* Whatever lives is in a cgroup, and whatever ended waits for its parent. *)
ProcsPlaced ==
    \A p \in Procs :
       /\ proc[p].st = "live" => proc[p].path \in cg
       /\ proc[p].st = "zombie" => proc[p].life \in Lives /\ Alive(proc[p].life)

(* The socket files of a daemon that is the only one. *)
SocketsRight(d) ==
    Alive(d) =>
       /\ At(d, "remove") => (life[d].stale <=> file[Socket(d)] # NobodysFile)
       /\ At(d, "bind") => file[Socket(d)] = NobodysFile
       /\ life[d].pc \in {"check", "remove", "bind"} /\ life[d].sock = 2
             => file["control"] = d
       /\ At(d, "serve") => life[d].sock = 1 /\ file = [s \in {"control", "log"} |-> d]
       /\ At(d, "unlink") /\ life[d].sock = 2 => file["control"] = NobodysFile
       /\ At(d, "rmdir") => file = [s \in {"control", "log"} |-> NobodysFile]
       /\ life[d].pc \in {"unlink", "rmdir"} => Running(d) = {}
       /\ main_cg

(* A path of several parts makes directories that nobody removes. *)
LongPath(d) ==
    \/ \E path \in life[d].leftover \cup life[d].reaped : Len(path) > 1
    \/ \E i \in Running(d) : Len(proc[life[d].run[i]].path) > 1

(* The cgroups that a daemon that is the only one finds at its end. *)
CgroupsExplained(d) ==
    Alive(d) =>
       \/ LongPath(d)
       \/ \A q \in cg : \/ q \in life[d].leftover \ life[d].reaped
                        \/ \E i \in Running(d) : proc[life[d].run[i]].path = q

-----------------------------------------------------------------------------
(* Induction *)

(* A set of natural numbers that is not empty has a least one. *)
LEMMA LeastNatural ==
    ASSUME NEW T \in SUBSET Nat, T # {}
    PROVE  \E x \in T : \A y \in T : x <= y
<1>1. PICK R : R = OpToRel(<, Nat)
  OBVIOUS
<1>2. IsWellFoundedOn(R, Nat)
  BY <1>1, NatLessThanWellFounded
<1>3. PICK x \in T : \A y \in T : ~(<<y, x>> \in R)
  BY <1>2, WFMin
<1>4. R = {ss \in Nat \X Nat : ss[1] < ss[2]}
  BY <1>1 DEF OpToRel
<1>5. ASSUME NEW y \in T PROVE x <= y
  <2>1. y < x => <<y, x>> \in R
    BY <1>4
  <2> QED
    BY <1>3, <2>1
<1> QED
  BY <1>3, <1>5

(* A set with 0 and with the successor of each of its members has all the
   natural numbers. *)
LEMMA InductiveSet ==
    ASSUME NEW S, 0 \in S, \A n \in Nat : n \in S => n + 1 \in S
    PROVE  \A n \in Nat : n \in S
<1> SUFFICES ASSUME NEW n \in Nat, n \notin S PROVE FALSE
  OBVIOUS
<1>1. PICK T : T = {k \in Nat : k \notin S}
  OBVIOUS
<1>2. T \in SUBSET Nat /\ T # {}
  BY <1>1
<1>3. PICK x \in T : \A y \in T : x <= y
  BY <1>2, LeastNatural
<1>4. x \in Nat /\ x # 0 /\ x \notin S
  BY <1>1
<1>5. x - 1 \in Nat /\ x - 1 \notin T
  BY <1>3, <1>4
<1>6. x - 1 \in S
  BY <1>1, <1>5
<1>7. (x - 1) + 1 \in S
  BY <1>5, <1>6
<1> QED
  BY <1>4, <1>7

-----------------------------------------------------------------------------
(* scan_apps_dir *)

(* How s comes from the first n entries: g tells which entry each application
   of s is from, and every entry that is an application is in s once. *)
SiftedBy(entries, n, s, g) ==
    /\ \A i \in 1..Len(s) : /\ entries[g[i]].kind = "app"
                            /\ s[i] = entries[g[i]].app
    /\ \A i, j \in 1..Len(s) : g[i] = g[j] => i = j
    /\ \A k \in 1..n : entries[k].kind = "app" => \E i \in 1..Len(s) : g[i] = k

Sifted(entries, n, s) ==
    /\ s \in Seq(AppEntries)
    /\ \E g \in [1..Len(s) -> 1..n] : SiftedBy(entries, n, s, g)

(* One more entry. *)
LEMMA SiftOne ==
    ASSUME NEW entries \in Seq(DirEntries), NEW n \in Nat, n + 1 \in 1..Len(entries),
           NEW s, Sifted(entries, n, s)
    PROVE  Sifted(entries, n + 1,
                  IF entries[n + 1].kind = "app"
                  THEN Append(s, entries[n + 1].app) ELSE s)
<1>1. PICK e \in DirEntries : e = entries[n + 1]
  OBVIOUS
<1>2. s \in Seq(AppEntries) /\ Len(s) \in Nat
  BY DEF Sifted
<1>3. PICK g \in [1..Len(s) -> 1..n] : SiftedBy(entries, n, s, g)
  BY DEF Sifted
<1>4. CASE e.kind # "app"
  <2>1. g \in [1..Len(s) -> 1..(n + 1)]
    BY <1>2
  <2>2. SiftedBy(entries, n + 1, s, g)
    <3>1. ASSUME NEW k \in 1..(n + 1), entries[k].kind = "app"
          PROVE  \E i \in 1..Len(s) : g[i] = k
      <4>1. k \in 1..n
        BY <1>1, <1>4, <3>1
      <4> QED
        BY <1>3, <3>1, <4>1 DEF SiftedBy
    <3> QED
      BY <1>3, <3>1 DEF SiftedBy
  <2> QED
    BY <1>1, <1>2, <1>4, <2>1, <2>2 DEF Sifted
<1>5. CASE e.kind = "app"
  <2>1. e.app \in AppEntries
    BY <1>1, <1>5 DEF DirEntries
  <2>2. PICK t : t = Append(s, e.app)
    OBVIOUS
  <2>3. /\ t \in Seq(AppEntries) /\ Len(t) = Len(s) + 1
        /\ \A i \in 1..Len(s) : t[i] = s[i]
        /\ t[Len(s) + 1] = e.app
    BY <1>2, <2>1, <2>2
  <2>4. PICK h : h = [i \in 1..Len(t) |-> IF i = Len(t) THEN n + 1 ELSE g[i]]
    OBVIOUS
  <2>5. ASSUME NEW i \in 1..Len(t), i # Len(t)
        PROVE  i \in 1..Len(s) /\ h[i] = g[i] /\ g[i] \in 1..n /\ t[i] = s[i]
    BY <1>2, <2>3, <2>4, <2>5
  <2>6. h[Len(t)] = n + 1 /\ Len(t) \in 1..Len(t)
    BY <1>2, <2>3, <2>4
  <2>7. h \in [1..Len(t) -> 1..(n + 1)]
    <3>1. ASSUME NEW i \in 1..Len(t) PROVE h[i] \in 1..(n + 1)
      BY <2>5, <2>6
    <3> QED
      BY <2>4, <3>1
  <2>8. ASSUME NEW i \in 1..Len(t)
        PROVE  entries[h[i]].kind = "app" /\ t[i] = entries[h[i]].app
    <3>1. CASE i = Len(t)
      BY <1>1, <1>5, <2>3, <2>6, <3>1
    <3>2. CASE i # Len(t)
      BY <1>3, <2>5, <3>2 DEF SiftedBy
    <3> QED
      BY <3>1, <3>2
  <2>9. ASSUME NEW i \in 1..Len(t), NEW j \in 1..Len(t), h[i] = h[j] PROVE i = j
    <3>1. CASE i # Len(t) /\ j # Len(t)
      <4>1. /\ i \in 1..Len(s) /\ h[i] = g[i]
            /\ j \in 1..Len(s) /\ h[j] = g[j]
        BY <2>5, <3>1
      <4> QED
        BY <1>3, <2>9, <4>1 DEF SiftedBy
    <3>2. CASE i = Len(t) /\ j # Len(t)
      BY <2>5, <2>6, <2>9, <3>2
    <3>3. CASE i # Len(t) /\ j = Len(t)
      BY <2>5, <2>6, <2>9, <3>3
    <3> QED
      BY <3>1, <3>2, <3>3
  <2>10. ASSUME NEW k \in 1..(n + 1), entries[k].kind = "app"
         PROVE  \E i \in 1..Len(t) : h[i] = k
    <3>1. CASE k = n + 1
      BY <2>6, <3>1
    <3>2. CASE k # n + 1
      <4>1. k \in 1..n
        BY <3>2
      <4>2. PICK i \in 1..Len(s) : g[i] = k
        BY <1>3, <2>10, <4>1 DEF SiftedBy
      <4>3. i \in 1..Len(t) /\ i # Len(t)
        BY <1>2, <2>3
      <4> QED
        BY <2>5, <4>2, <4>3
    <3> QED
      BY <3>1, <3>2
  <2>11. SiftedBy(entries, n + 1, t, h)
    BY <2>8, <2>9, <2>10 DEF SiftedBy
  <2>12. Sifted(entries, n + 1, t)
    BY <2>3, <2>7, <2>11 DEF Sifted
  <2> QED
    BY <1>1, <1>5, <2>2, <2>12
<1> QED
  BY <1>4, <1>5

(* The value of the loop after each entry. *)
ScanOf(entries, s, n) ==
    IF n = 0 THEN <<>>
    ELSE IF entries[n].kind = "app" THEN Append(s[n - 1], entries[n].app)
    ELSE s[n - 1]

(* scan_apps_dir passes over what is no application, and nothing else. *)
LEMMA ScanSifts ==
    ASSUME NEW entries \in Seq(DirEntries)
    PROVE  Sifted(entries, Len(entries), ScanAppsDir(entries))
<1>1. PICK N \in Nat : N = Len(entries)
  OBVIOUS
<1>2. PICK S : S = {n \in Nat : n <= N =>
                      \E s : /\ s = [i \in 0..n |-> s[i]]
                             /\ \A i \in 0..n : /\ s[i] = ScanOf(entries, s, i)
                                                /\ Sifted(entries, i, s[i])}
  OBVIOUS
<1>3. 0 \in S
  <2>1. PICK s : s = [i \in 0..0 |-> <<>>]
    OBVIOUS
  <2>2. s = [i \in 0..0 |-> s[i]]
    BY <2>1
  <2>3. ASSUME NEW i \in 0..0 PROVE s[i] = ScanOf(entries, s, i) /\ Sifted(entries, i, s[i])
    <3>1. i = 0 /\ s[i] = <<>>
      BY <2>1
    <3>2. SiftedBy(entries, 0, <<>>, <<>>) /\ <<>> \in Seq(AppEntries)
      BY DEF SiftedBy
    <3>3. <<>> \in [1..Len(<<>>) -> 1..0]
      OBVIOUS
    <3>4. Sifted(entries, 0, <<>>)
      BY <3>2, <3>3 DEF Sifted
    <3> QED
      BY <3>1, <3>4 DEF ScanOf
  <2> QED
    BY <1>2, <2>2, <2>3, Zenon
<1>4. ASSUME NEW n \in Nat, n \in S PROVE n + 1 \in S
  <2> SUFFICES ASSUME n + 1 <= N
               PROVE  \E s : /\ s = [i \in 0..(n + 1) |-> s[i]]
                             /\ \A i \in 0..(n + 1) :
                                   /\ s[i] = ScanOf(entries, s, i)
                                   /\ Sifted(entries, i, s[i])
    <3>1. n + 1 \in Nat
      OBVIOUS
    <3> QED
      BY <1>2, <3>1, Zenon
  <2>1. n <= N
    BY <1>1
  <2>2. PICK s : /\ s = [i \in 0..n |-> s[i]]
                 /\ \A i \in 0..n : /\ s[i] = ScanOf(entries, s, i)
                                    /\ Sifted(entries, i, s[i])
    BY <1>2, <1>4, <2>1, Zenon
  <2>3. PICK x : x = IF entries[n + 1].kind = "app"
                     THEN Append(s[n], entries[n + 1].app) ELSE s[n]
    OBVIOUS
  <2>4. Sifted(entries, n + 1, x)
    <3>1. n + 1 \in 1..Len(entries) /\ n \in 0..n
      BY <1>1
    <3>2. PICK y : y = s[n]
      OBVIOUS
    <3>3. Sifted(entries, n, y)
      BY <2>2, <3>1, <3>2
    <3> QED
      BY <2>3, <3>1, <3>2, <3>3, SiftOne
  <2>5. PICK t : t = [i \in 0..(n + 1) |-> IF i = n + 1 THEN x ELSE s[i]]
    OBVIOUS
  <2>6. ASSUME NEW i \in 0..n PROVE i \in 0..(n + 1) /\ i # n + 1 /\ t[i] = s[i]
    BY <2>5
  <2>7. n + 1 \in 0..(n + 1) /\ t[n + 1] = x /\ (n + 1) - 1 = n /\ n \in 0..n
    BY <2>5
  <2>8. ASSUME NEW i \in 0..(n + 1)
        PROVE  t[i] = ScanOf(entries, t, i) /\ Sifted(entries, i, t[i])
    <3>1. CASE i = n + 1
      <4>1. t[n] = s[n]
        BY <2>6, <2>7
      <4>2. i # 0 /\ i - 1 = n
        BY <3>1
      <4>3. t[i] = ScanOf(entries, t, i)
        BY <2>3, <2>7, <3>1, <4>1, <4>2 DEF ScanOf
      <4> QED
        BY <2>4, <2>7, <3>1, <4>3
    <3>2. CASE i # n + 1
      <4>1. i \in 0..n /\ (i # 0 => i - 1 \in 0..n)
        BY <3>2
      <4>2. t[i] = s[i] /\ (i # 0 => t[i - 1] = s[i - 1])
        BY <2>6, <4>1
      <4>3. s[i] = ScanOf(entries, s, i) /\ Sifted(entries, i, s[i])
        BY <2>2, <4>1
      <4> QED
        BY <4>2, <4>3 DEF ScanOf
    <3> QED
      BY <3>1, <3>2
  <2>9. t = [i \in 0..(n + 1) |-> t[i]]
    BY <2>5
  <2> QED
    BY <2>8, <2>9, Zenon
<1>5. N \in S
  BY <1>3, <1>4, InductiveSet
<1>6. PICK s : /\ s = [i \in 0..N |-> s[i]]
               /\ \A i \in 0..N : /\ s[i] = ScanOf(entries, s, i)
                                  /\ Sifted(entries, i, s[i])
  <2>1. N <= N
    OBVIOUS
  <2> QED
    BY <1>2, <1>5, <2>1, Zenon
<1>7. s = [i \in 0..N |-> ScanOf(entries, s, i)]
  BY <1>6
<1>8. PICK q : q = CHOOSE f : f = [i \in 0..N |-> ScanOf(entries, f, i)]
  OBVIOUS
<1>9. q = [i \in 0..N |-> ScanOf(entries, q, i)]
  BY <1>7, <1>8, Zenon
<1>10. ScanAppsDir(entries) = q[N]
  BY <1>1, <1>8, Zenon DEF ScanAppsDir, ScanOf
<1>11. PICK T : T = {n \in Nat : n <= N => q[n] = s[n]}
  OBVIOUS
<1>12. 0 \in T
  <2>1. 0 \in 0..N
    OBVIOUS
  <2>2. q[0] = ScanOf(entries, q, 0) /\ s[0] = ScanOf(entries, s, 0)
    BY <1>6, <1>9, <2>1
  <2> QED
    BY <1>11, <2>2 DEF ScanOf
<1>13. ASSUME NEW n \in Nat, n \in T PROVE n + 1 \in T
  <2> SUFFICES ASSUME n + 1 <= N PROVE q[n + 1] = s[n + 1]
    BY <1>11
  <2>1. n + 1 \in 0..N /\ (n + 1) - 1 = n /\ q[n] = s[n] /\ n + 1 # 0
    BY <1>11, <1>13
  <2>2. q[n + 1] = ScanOf(entries, q, n + 1) /\ s[n + 1] = ScanOf(entries, s, n + 1)
    BY <1>6, <1>9, <2>1
  <2> QED
    BY <2>1, <2>2 DEF ScanOf
<1>14. N \in T
  BY <1>12, <1>13, InductiveSet
<1>15. q[N] = s[N] /\ N \in 0..N
  BY <1>11, <1>14
<1> QED
  BY <1>1, <1>6, <1>10, <1>15

-----------------------------------------------------------------------------
(* all_apps *)

(* read_dir lists every file once. *)
LEMMA ListingsFacts ==
    ASSUME NEW f \in ConfigFiles, f.kind = "config", NEW entries \in Listings(f)
    PROVE  /\ entries \in Seq(DirEntries)
           /\ \A i \in 1..Len(entries) : entries[i] \in f.apps_dir
           /\ \A i, j \in 1..Len(entries) : entries[i] = entries[j] => i = j
           /\ \A e \in f.apps_dir : \E i \in 1..Len(entries) : entries[i] = e
<1>1. f.apps_dir \in SUBSET DirEntries /\ IsFiniteSet(f.apps_dir)
  BY LivesAssumption DEF Files
<1>2. PICK D : D = f.apps_dir
  OBVIOUS
<1>3. PICK n \in Nat : n = Cardinality(D)
  BY <1>1, <1>2, FS_CardinalityType
<1>4. entries \in [1..n -> D] /\ \A i, j \in 1..n : i # j => entries[i] # entries[j]
  BY <1>2, <1>3 DEF Listings, SetToSeqs
<1>5. entries \in Seq(D) /\ Len(entries) = n
  BY <1>4
<1>6. entries \in Injection(1..n, D)
  BY <1>4 DEF Injection, IsInjective
<1>7. IsFiniteSet(1..n) /\ Cardinality(1..n) = n
  <2>1. 1 \in Int /\ n \in Int
    OBVIOUS
  <2>2. IsFiniteSet(1..n) /\ Cardinality(1..n) = IF 1 > n THEN 0 ELSE n - 1 + 1
    BY <2>1, FS_Interval
  <2> QED
    BY <2>2
<1>8. entries \in Surjection(1..n, D)
  BY <1>1, <1>2, <1>3, <1>6, <1>7, FS_Injection
<1>9. \A e \in D : \E i \in 1..n : entries[i] = e
  BY <1>8 DEF Surjection
<1> QED
  BY <1>1, <1>2, <1>4, <1>5, <1>9

(* The applications that autostart, each by an entry of its own. *)
Starting(apps) == {i \in 1..Len(apps) : apps[i].autostart}
OneEntryEach(f, apps) ==
    \E h \in [Starting(apps) -> Autostarted(f)] :
       \A i, j \in Starting(apps) : h[i] = h[j] => i = j

(* What a daemon is given are the applications that its configuration
   describes, and each autostarts only by an entry of its own. *)
LEMMA AllAppsFacts ==
    ASSUME NEW f \in ConfigFiles, f.kind = "config", NEW entries \in Listings(f),
           NEW apps, apps = AllApps(f, entries)
    PROVE  /\ apps \in Seq(AppEntries)
           /\ Range(apps) = Described(f)
           /\ OneEntryEach(f, apps)
<1>1. PICK s : s = ScanAppsDir(entries)
  OBVIOUS
<1>2. /\ entries \in Seq(DirEntries)
      /\ \A i \in 1..Len(entries) : entries[i] \in f.apps_dir
      /\ \A i, j \in 1..Len(entries) : entries[i] = entries[j] => i = j
      /\ \A e \in f.apps_dir : \E i \in 1..Len(entries) : entries[i] = e
  BY ListingsFacts
<1>3. Sifted(entries, Len(entries), s)
  BY <1>1, <1>2, ScanSifts
<1>4. s \in Seq(AppEntries)
  BY <1>3 DEF Sifted
<1>5. PICK g \in [1..Len(s) -> 1..Len(entries)] : SiftedBy(entries, Len(entries), s, g)
  BY <1>3 DEF Sifted
<1>6. f.apps \in Seq(AppEntries)
  BY LivesAssumption DEF Files
<1>7. PICK a \in Seq(AppEntries) : a = f.apps
  BY <1>6
<1>8. PICK n \in Nat, m \in Nat : n = Len(a) /\ m = Len(s)
  BY <1>4
<1>9. apps = a \o s
  BY <1>1, <1>7 DEF AllApps
<1>10. /\ apps \in Seq(AppEntries) /\ Len(apps) = n + m
       /\ \A i \in 1..(n + m) : apps[i] = IF i <= n THEN a[i] ELSE s[i - n]
  BY <1>4, <1>8, <1>9, ConcatProperties
<1>11. \A i \in 1..n : i \in 1..(n + m) /\ apps[i] = a[i]
  BY <1>10
<1>12. ASSUME NEW i \in 1..m
       PROVE  /\ i + n \in 1..(n + m) /\ apps[i + n] = s[i]
              /\ entries[g[i]] \in f.apps_dir /\ entries[g[i]].kind = "app"
              /\ s[i] = entries[g[i]].app
  <2>1. i + n \in 1..(n + m) /\ ~(i + n <= n) /\ (i + n) - n = i
    OBVIOUS
  <2>2. g[i] \in 1..Len(entries)
    BY <1>5, <1>8
  <2>3. entries[g[i]].kind = "app" /\ s[i] = entries[g[i]].app
    BY <1>5, <1>8 DEF SiftedBy
  <2> QED
    BY <1>2, <1>10, <2>1, <2>2, <2>3
<1>13. \A i \in 1..(n + m) : i \in 1..n \/ (i - n \in 1..m /\ (i - n) + n = i)
  OBVIOUS
<1>14. Range(apps) = Described(f)
  <2>1. DOMAIN apps = 1..(n + m) /\ DOMAIN a = 1..n
    BY <1>8, <1>10
  <2>2. ASSUME NEW x \in Range(apps) PROVE x \in Described(f)
    <3>1. PICK i \in 1..(n + m) : apps[i] = x
      BY <2>1, <2>2 DEF Range
    <3>2. CASE i \in 1..n
      BY <1>7, <1>11, <2>1, <3>1, <3>2 DEF Described, Range
    <3>3. CASE i \notin 1..n
      <4>1. PICK j \in 1..m : j = i - n
        BY <1>13, <3>3
      <4>2. j + n = i
        BY <4>1
      <4>3. x = entries[g[j]].app /\ entries[g[j]] \in {e \in f.apps_dir : e.kind = "app"}
        BY <1>12, <3>1, <4>2
      <4> QED
        BY <4>3 DEF Described
    <3> QED
      BY <3>2, <3>3
  <2>3. ASSUME NEW x \in Range(f.apps) PROVE x \in Range(apps)
    <3>1. PICK i \in 1..n : a[i] = x
      BY <1>7, <2>1, <2>3 DEF Range
    <3> QED
      BY <1>11, <2>1, <3>1 DEF Range
  <2>4. ASSUME NEW e \in f.apps_dir, e.kind = "app" PROVE e.app \in Range(apps)
    <3>1. PICK k \in 1..Len(entries) : entries[k] = e
      BY <1>2
    <3>2. PICK i \in 1..m : g[i] = k
      BY <1>5, <1>8, <2>4, <3>1 DEF SiftedBy
    <3>3. apps[i + n] = e.app /\ i + n \in 1..(n + m)
      BY <1>12, <3>1, <3>2
    <3> QED
      BY <2>1, <3>3 DEF Range
  <2>5. ASSUME NEW x \in Described(f) PROVE x \in Range(apps)
    BY <2>3, <2>4, <2>5 DEF Described
  <2> QED
    BY <2>2, <2>5
<1>15. PICK A : A = {i \in 1..(n + m) : apps[i].autostart}
  OBVIOUS
<1>16. PICK h : h = [i \in A |-> IF i <= n THEN <<"file", i>>
                                 ELSE <<"dir", entries[g[i - n]]>>]
  OBVIOUS
<1>17. ASSUME NEW i \in A
       PROVE  /\ i \in 1..n => h[i] = <<"file", i>>
              /\ i \notin 1..n => /\ i - n \in 1..m /\ (i - n) + n = i
                                  /\ h[i] = <<"dir", entries[g[i - n]]>>
  BY <1>13, <1>15, <1>16
<1>18. h \in [A -> Autostarted(f)]
  <2>1. ASSUME NEW i \in A PROVE h[i] \in Autostarted(f)
    <3>1. i \in 1..(n + m) /\ apps[i].autostart
      BY <1>15
    <3>2. CASE i \in 1..n
      <4>1. i \in {j \in DOMAIN f.apps : f.apps[j].autostart}
        BY <1>7, <1>8, <1>11, <3>1, <3>2
      <4> QED
        BY <1>17, <3>2, <4>1 DEF Autostarted
    <3>3. CASE i \notin 1..n
      <4>1. PICK j \in 1..m : j = i - n
        BY <1>17, <3>3
      <4>2. j + n = i
        BY <1>17, <3>3, <4>1
      <4>3. entries[g[j]] \in {x \in f.apps_dir : x.kind = "app" /\ x.app.autostart}
        BY <1>12, <3>1, <4>2
      <4>4. h[i] = <<"dir", entries[g[j]]>>
        BY <1>17, <3>3, <4>1
      <4> QED
        BY <4>3, <4>4 DEF Autostarted
    <3> QED
      BY <3>2, <3>3
  <2> QED
    BY <1>16, <2>1
<1>19. ASSUME NEW i \in A, NEW j \in A, h[i] = h[j] PROVE i = j
  <2>1. CASE i \in 1..n /\ j \in 1..n
    BY <1>17, <1>19, <2>1
  <2>2. CASE i \in 1..n /\ j \notin 1..n
    <3>1. h[i] = <<"file", i>> /\ h[j] = <<"dir", entries[g[j - n]]>>
      BY <1>17, <2>2
    <3>2. h[i][1] = "file" /\ h[j][1] = "dir"
      BY <3>1
    <3> QED
      BY <1>19, <3>2
  <2>3. CASE i \notin 1..n /\ j \in 1..n
    <3>1. h[j] = <<"file", j>> /\ h[i] = <<"dir", entries[g[i - n]]>>
      BY <1>17, <2>3
    <3>2. h[j][1] = "file" /\ h[i][1] = "dir"
      BY <3>1
    <3> QED
      BY <1>19, <3>2
  <2>4. CASE i \notin 1..n /\ j \notin 1..n
    <3>1. PICK k \in 1..m, l \in 1..m : k = i - n /\ l = j - n
      BY <1>17, <2>4
    <3>2. h[i] = <<"dir", entries[g[k]]>> /\ h[j] = <<"dir", entries[g[l]]>>
      BY <1>17, <2>4, <3>1
    <3>3. entries[g[k]] = entries[g[l]]
      <4>1. h[i][2] = entries[g[k]] /\ h[j][2] = entries[g[l]]
        BY <3>2
      <4> QED
        BY <1>19, <4>1
    <3>4. g[k] \in 1..Len(entries) /\ g[l] \in 1..Len(entries)
      BY <1>5, <1>8
    <3>5. g[k] = g[l]
      BY <1>2, <3>3, <3>4
    <3>6. k = l
      BY <1>5, <1>8, <3>5 DEF SiftedBy
    <3>7. k + n = i /\ l + n = j
      BY <1>17, <2>4, <3>1
    <3> QED
      BY <3>6, <3>7
  <2> QED
    BY <2>1, <2>2, <2>3, <2>4
<1>20. A = Starting(apps)
  BY <1>10, <1>15 DEF Starting
<1>21. \E k \in [A -> Autostarted(f)] : \A i, j \in A : k[i] = k[j] => i = j
  BY <1>18, <1>19, Zenon
<1>22. OneEntryEach(f, apps)
  BY <1>20, <1>21, ZenonT(60) DEF OneEntryEach
<1> QED
  BY <1>10, <1>14, <1>22

(* A configuration has finitely many applications. *)
LEMMA AutostartedFinite ==
    ASSUME NEW f \in ConfigFiles, f.kind = "config"
    PROVE  IsFiniteSet(Autostarted(f))
<1>1. f.apps \in Seq(AppEntries) /\ IsFiniteSet(f.apps_dir)
  BY LivesAssumption DEF Files
<1>2. PICK n \in Nat : n = Len(f.apps) /\ DOMAIN f.apps = 1..n
  BY <1>1
<1>3. PICK J : J = {j \in DOMAIN f.apps : f.apps[j].autostart}
  OBVIOUS
<1>4. PICK E : E = {x \in f.apps_dir : x.kind = "app" /\ x.app.autostart}
  OBVIOUS
<1>5. IsFiniteSet(J)
  <2>1. IsFiniteSet(1..n)
    BY FS_Interval
  <2>2. J \in SUBSET (1..n)
    BY <1>2, <1>3
  <2> QED
    BY <2>1, <2>2, FS_Subset
<1>6. IsFiniteSet(E)
  <2>1. E \in SUBSET f.apps_dir
    BY <1>4
  <2> QED
    BY <1>1, <2>1, FS_Subset
<1>7. PICK T : T = {<<"file", i>> : i \in J}
  OBVIOUS
<1>8. PICK U : U = {<<"dir", e>> : e \in E}
  OBVIOUS
<1>9. IsFiniteSet(T)
  <2>1. PICK h : h = [i \in J |-> <<"file", i>>]
    OBVIOUS
  <2>2. h \in Surjection(J, T)
    BY <1>7, <2>1 DEF Surjection
  <2> QED
    BY <1>5, <2>2, FS_Surjection
<1>10. IsFiniteSet(U)
  <2>1. PICK h : h = [e \in E |-> <<"dir", e>>]
    OBVIOUS
  <2>2. h \in Surjection(E, U)
    BY <1>8, <2>1 DEF Surjection
  <2> QED
    BY <1>6, <2>2, FS_Surjection
<1>11. IsFiniteSet(T \cup U)
  BY <1>9, <1>10, FS_Union
<1>12. Autostarted(f) = T \cup U
  BY <1>3, <1>4, <1>7, <1>8, Zenon DEF Autostarted
<1> QED
  BY <1>11, <1>12

(* No more applications autostart than have an entry that says so. *)
LEMMA CountStarts ==
    ASSUME NEW f \in ConfigFiles, f.kind = "config", NEW entries \in Listings(f),
           NEW apps, apps = AllApps(f, entries),
           NEW R, R \subseteq Starting(apps)
    PROVE  IsFiniteSet(R) /\ Cardinality(R) <= Cardinality(Autostarted(f))
<1>1. OneEntryEach(f, apps)
  BY AllAppsFacts
<1>2. PICK h \in [Starting(apps) -> Autostarted(f)] :
         \A i, j \in Starting(apps) : h[i] = h[j] => i = j
  BY <1>1 DEF OneEntryEach
<1>3. PICK k : k = [i \in R |-> h[i]]
  OBVIOUS
<1>4. k \in [R -> Autostarted(f)] /\ \A i, j \in R : k[i] = k[j] => i = j
  BY <1>2, <1>3
<1>5. k \in Injection(R, Autostarted(f))
  BY <1>4 DEF Injection, IsInjective
<1>6. PICK T : T = Autostarted(f)
  OBVIOUS
<1>7. IsFiniteSet(T) /\ k \in Injection(R, T)
  BY <1>5, <1>6, AutostartedFinite
<1>8. IsFiniteSet(R) /\ Cardinality(R) <= Cardinality(T)
  BY <1>7, FS_Injection
<1> QED
  BY <1>6, <1>8

-----------------------------------------------------------------------------
(* What becomes of an entry *)

(* What main makes of an entry of the configuration has the right types. *)
LEMMA ParamsFacts ==
    ASSUME NEW entry \in AppEntries, NEW f \in Files, f.kind = "config",
           NEW own \in Owners
    PROVE  /\ AppParams(entry, f, own).name \in Names
           /\ AppParams(entry, f, own).uid \in Nat
           /\ AppParams(entry, f, own).gid \in Nat
           /\ AppParams(entry, f, own).log_buffer_size \in Nat
           /\ AppParams(entry, f, own).autostart = entry.autostart
<1>1. \A S : \A o \in Option(S) : o = None \/ o[1] \in S
  BY DEF Option, None
<1>2. ASSUME NEW id \in UserOrGroup, NEW table, \A n \in DOMAIN table : table[n] \in Nat,
             NEW x \in Nat
      PROVE  OrElse(Resolved(id, table), x) \in Nat
  <2>1. CASE id.by = "id"
    <3>1. id.id \in Nat /\ Resolved(id, table) = <<id.id>>
      BY <2>1 DEF UserOrGroup, Resolved
    <3> QED
      BY <3>1 DEF OrElse, None
  <2>2. CASE id.by = "name"
    <3>1. CASE id.name \in DOMAIN table
      <4>1. Resolved(id, table) = <<table[id.name]>>
        BY <2>2, <3>1 DEF Resolved
      <4> QED
        BY <1>2, <3>1, <4>1 DEF OrElse, None
    <3>2. CASE id.name \notin DOMAIN table
      BY <2>2, <3>2 DEF Resolved, OrElse, None
    <3> QED
      BY <3>1, <3>2
  <2>3. CASE id.by = "unset"
    BY <2>3 DEF Resolved, OrElse, None
  <2> QED
    BY <2>1, <2>2, <2>3 DEF UserOrGroup
<1>3. own.uid \in Nat /\ own.gid \in Nat /\ f.log_buffer_size \in Nat
  BY LivesAssumption DEF Files
<1>4. /\ entry.name \in Option(Names) /\ entry.prog \in Names
      /\ entry.user \in UserOrGroup /\ entry.group \in UserOrGroup
      /\ entry.log_buffer_size \in Option(Nat)
  BY DEF AppEntries
<1>5. OrElse(entry.name, entry.prog) \in Names
  BY <1>1, <1>4 DEF OrElse
<1>6. OrElse(entry.log_buffer_size, f.log_buffer_size) \in Nat
  BY <1>1, <1>3, <1>4 DEF OrElse
<1>7. OrElse(Resolved(entry.user, Users), own.uid) \in Nat
  BY <1>2, <1>3, <1>4, ConfigAssumption
<1>8. OrElse(Resolved(entry.group, Groups), own.gid) \in Nat
  BY <1>2, <1>3, <1>4, ConfigAssumption
<1> QED
  BY <1>5, <1>6, <1>7, <1>8 DEF AppParams

(* The directories of a path. *)
LEMMA DirectoriesFacts ==
    ASSUME NEW path \in Names
    PROVE  /\ Directories(path) \subseteq Names
           /\ path \in Directories(path)
           /\ \A q \in Directories(path) : Len(q) <= Len(path)
           /\ Len(path) = 1 => Directories(path) = {path}
<1>1. path \in Seq(STRING) /\ path # <<>> /\ Len(path) \in Nat \ {0}
  BY DEF Names
<1>2. ASSUME NEW l \in 0..Len(path)
      PROVE  SubSeq(path, 1, l) \in Seq(STRING) /\ Len(SubSeq(path, 1, l)) = l
  BY <1>1
<1>3. SubSeq(path, 1, Len(path)) = path
  BY <1>1, SubSeqFull
<1>4. path \in Directories(path)
  <2>1. Len(path) \in 0..Len(path)
    BY <1>1
  <2>2. path \in Prefixes(path)
    BY <1>3, <2>1, Zenon DEF Prefixes
  <2> QED
    BY <1>1, <2>2 DEF Directories
<1>5. ASSUME NEW q \in Directories(path)
      PROVE  q \in Names /\ Len(q) <= Len(path) /\ (Len(path) = 1 => q = path)
  <2>1. PICK l \in 0..Len(path) : q = SubSeq(path, 1, l)
    BY DEF Directories, Prefixes
  <2>2. q # <<>> /\ q \in Seq(STRING) /\ Len(q) = l
    BY <1>2, <2>1 DEF Directories
  <2>3. l # 0
    BY <2>2, EmptySeq
  <2>4. Len(path) = 1 => l = Len(path)
    BY <1>1, <2>3
  <2>5. Len(path) = 1 => q = path
    BY <1>3, <2>1, <2>4, Zenon
  <2> QED
    BY <1>1, <2>2, <2>5 DEF Names
<1> QED
  BY <1>4, <1>5

(* setup_child gives a program the ids it was asked for, or it does not start;
   that of root always does. *)
LEMMA ChildIdsFacts ==
    ASSUME NEW own \in Owners, NEW uid \in Nat, NEW gid \in Nat
    PROVE  /\ ChildIds(own, uid, gid) \in [uid : Int, gid : Int]
           /\ \/ ChildIds(own, uid, gid) = [uid |-> uid, gid |-> gid]
              \/ own.uid # 0 /\ ChildIds(own, uid, gid) = Refused
<1>1. own \in [uid : Nat, gid : Nat]
  BY LivesAssumption
<1>2. Refused \in [uid : Int, gid : Int] /\ Refused.uid = -1
  BY DEF Refused
<1>3. PICK g : g = SetGid(own, gid)
  OBVIOUS
<1>4. \/ g = [uid |-> own.uid, gid |-> gid]
      \/ own.uid # 0 /\ g = Refused
  BY <1>1, <1>3 DEF SetGid
<1>5. CASE g = Refused /\ own.uid # 0
  BY <1>2, <1>3, <1>5 DEF ChildIds, SetUid
<1>6. CASE g = [uid |-> own.uid, gid |-> gid]
  <2>1. g.uid = own.uid /\ own.uid \in Nat
    BY <1>1, <1>6
  <2>2. g # Refused
    BY <1>2, <2>1
  <2>3. CASE own.uid = 0 \/ own.uid = uid
    <3>1. SetUid(g, uid) = [g EXCEPT !.uid = uid]
      BY <2>1, <2>2, <2>3 DEF SetUid
    <3>2. [g EXCEPT !.uid = uid] = [uid |-> uid, gid |-> gid]
      BY <1>6
    <3> QED
      BY <1>3, <3>1, <3>2 DEF ChildIds
  <2>4. CASE ~(own.uid = 0 \/ own.uid = uid)
    <3>1. SetUid(g, uid) = Refused
      BY <2>1, <2>2, <2>4 DEF SetUid
    <3> QED
      BY <1>2, <1>3, <2>4, <3>1 DEF ChildIds
  <2> QED
    BY <2>3, <2>4
<1> QED
  BY <1>4, <1>5, <1>6

-----------------------------------------------------------------------------
(* The types, and what each step does to the daemons and the processes *)

(* A daemon ends, and nothing else of it changes. *)
LEMMA EndsFacts ==
    ASSUME LivesTypes, NEW d \in Lives, NEW how \in Ended,
           NEW procs \in [Procs -> ProcRecord], Ends(d, how, procs)
    PROVE  /\ life' \in [Lives -> LifeRecord] /\ proc' \in [Procs -> ProcRecord]
           /\ \A e \in Lives : e # d => life'[e] = life[e]
           /\ life'[d] = [life[d] EXCEPT !.pc = how]
           /\ \A p \in Procs :
                 proc'[p] = IF procs[p].life = d /\ procs[p].st = "zombie"
                            THEN FreeProc ELSE procs[p]
<1>1. FreeProc \in ProcRecord
  BY DEF ProcRecord
<1>2. life[d] \in LifeRecord
  BY DEF LivesTypes
<1>3. [life[d] EXCEPT !.pc = how] \in LifeRecord
  BY <1>2 DEF LifeRecord
<1>4. life' = [life EXCEPT ![d] = [life[d] EXCEPT !.pc = how]]
  BY DEF Ends
<1>5. \A p \in Procs :
         proc'[p] = IF procs[p].life = d /\ procs[p].st = "zombie"
                    THEN FreeProc ELSE procs[p]
  BY DEF Ends
<1>6. proc' \in [Procs -> ProcRecord]
  BY <1>1 DEF Ends
<1> QED
  BY <1>3, <1>4, <1>5, <1>6 DEF LivesTypes

(* A boot. *)
BootsWith(d, f, own, entries) ==
    /\ Loads(f)
    /\ life'[d] = [life[d] EXCEPT
          !.pc = "create", !.config = <<f>>, !.own = own,
          !.apps = AllApps(f, entries), !.leftover = cg]
    /\ main_cg' = TRUE

BootFails(d, f) ==
    /\ ~Loads(f)
    /\ life'[d] = [life[d] EXCEPT !.pc = "failed", !.config = <<f>>]
    /\ main_cg' = main_cg

(* A daemon boots in one of these two ways, and no other daemon notices. *)
LEMMA BootFacts ==
    ASSUME LivesTypes, NEW d \in Lives, Boot(d)
    PROVE  /\ life' \in [Lives -> LifeRecord]
           /\ \A e \in Lives : e # d => life'[e] = life[e]
           /\ \/ \E f \in ConfigFiles : BootFails(d, f)
              \/ \E f \in ConfigFiles, own \in Owners :
                    \E entries \in Listings(f) : BootsWith(d, f, own, entries)
           /\ main_cg' \in BOOLEAN
<1>1. life[d] \in LifeRecord /\ main_cg \in BOOLEAN /\ cg \in SUBSET Names
  BY DEF LivesTypes
<1>2. ASSUME NEW f \in ConfigFiles PROVE <<f>> \in Option(ConfigFiles)
  BY DEF Option
<1>3. ASSUME NEW f \in ConfigFiles, ~Loads(f),
             life' = [life EXCEPT ![d].pc = "failed", ![d].config = <<f>>],
             UNCHANGED main_cg
      PROVE  /\ life' \in [Lives -> LifeRecord]
             /\ \A e \in Lives : e # d => life'[e] = life[e]
             /\ BootFails(d, f)
  <2>1. PICK r : r = [life[d] EXCEPT !.pc = "failed", !.config = <<f>>]
    OBVIOUS
  <2>2. r \in LifeRecord
    BY <1>1, <1>2, <2>1 DEF LifeRecord, Ended
  <2>3. life' = [life EXCEPT ![d] = r]
    BY <1>3, <2>1 DEF LivesTypes
  <2> QED
    BY <1>3, <2>1, <2>2, <2>3 DEF LivesTypes, BootFails
<1>4. ASSUME NEW f \in ConfigFiles, NEW own \in Owners, NEW entries \in Listings(f),
             Loads(f), main_cg' = TRUE,
             life' = [life EXCEPT
                ![d].pc = "create", ![d].config = <<f>>, ![d].own = own,
                ![d].apps = AllApps(f, entries), ![d].leftover = cg]
      PROVE  /\ life' \in [Lives -> LifeRecord]
             /\ \A e \in Lives : e # d => life'[e] = life[e]
             /\ BootsWith(d, f, own, entries)
  <2>1. PICK r : r = [life[d] EXCEPT
                        !.pc = "create", !.config = <<f>>, !.own = own,
                        !.apps = AllApps(f, entries), !.leftover = cg]
    OBVIOUS
  <2>2. AllApps(f, entries) \in Seq(AppEntries)
    <3>1. f.kind = "config"
      BY <1>4 DEF Loads
    <3>2. PICK apps : apps = AllApps(f, entries)
      OBVIOUS
    <3> QED
      BY <3>1, <3>2, AllAppsFacts
  <2>3. r \in LifeRecord
    BY <1>1, <1>2, <2>1, <2>2 DEF LifeRecord
  <2>4. life' = [life EXCEPT ![d] = r]
    BY <1>4, <2>1 DEF LivesTypes
  <2> QED
    BY <1>4, <2>1, <2>3, <2>4 DEF LivesTypes, BootsWith
<1> QED
  BY <1>1, <1>3, <1>4, ZenonT(60) DEF Boot

(* What every step of a running daemon leaves as it is. *)
Works(d) ==
    /\ Alive(d) /\ met' = met
    /\ \A e \in Lives : e # d => life'[e] = life[e]
    /\ life'[d].pc # "off"
    /\ life'[d].config = life[d].config /\ life'[d].own = life[d].own
    /\ life'[d].apps = life[d].apps /\ life'[d].leftover = life[d].leftover

(* A running daemon ends. *)
LEMMA EndsWorks ==
    ASSUME LivesTypes, NEW d \in Lives, NEW how \in Ended, how # "off",
           NEW procs \in [Procs -> ProcRecord], Ends(d, how, procs),
           Alive(d), met' = met, file' = file, main_cg' \in BOOLEAN, cg' \in SUBSET Names
    PROVE  Works(d) /\ LivesTypes'
<1>1. life[d] \in LifeRecord
  BY DEF LivesTypes
<1>2. /\ life' \in [Lives -> LifeRecord] /\ proc' \in [Procs -> ProcRecord]
      /\ \A e \in Lives : e # d => life'[e] = life[e]
      /\ life'[d] = [life[d] EXCEPT !.pc = how]
  BY EndsFacts
<1>3. Works(d)
  BY <1>1, <1>2 DEF Works, LifeRecord
<1> QED
  BY <1>2, <1>3 DEF LivesTypes

(* Otherwise its record is replaced. *)
LEMMA ChangeWorks ==
    ASSUME LivesTypes, NEW d \in Lives, NEW r \in LifeRecord,
           life' = [life EXCEPT ![d] = r], Alive(d), met' = met,
           r.pc # "off", r.config = life[d].config, r.own = life[d].own,
           r.apps = life[d].apps, r.leftover = life[d].leftover
    PROVE  Works(d) /\ life' \in [Lives -> LifeRecord] /\ life'[d] = r
BY DEF Works, LivesTypes

(* What a daemon that runs has read. *)
LEMMA ConfiguredFacts ==
    ASSUME LivesTypes, NEW d \in Lives, Configured(d), Alive(d)
    PROVE  /\ life[d].own \in Owners
           /\ life[d].config[1] \in ConfigFiles /\ life[d].config[1] \in Files
           /\ life[d].config[1].kind = "config"
           /\ life[d].apps \in Seq(AppEntries) /\ Len(life[d].apps) \in Nat
           /\ life[d].run \in Seq(Procs \cup {NoProc}) /\ Len(life[d].run) \in Nat
           /\ DOMAIN life[d].run = 1..Len(life[d].run)
           /\ Len(life[d].run) <= Len(life[d].apps)
           /\ ~At(d, "create") => Len(life[d].run) = Len(life[d].apps)
<1>1. life[d] \in LifeRecord
  BY DEF LivesTypes
<1>2. life[d].own \in Owners
  BY DEF Configured
<1>3. PICK f \in ConfigFiles : Loads(f) /\ life[d].config = <<f>>
  BY DEF Configured
<1>4. life[d].config[1] = f /\ f.kind = "config"
  BY <1>3 DEF Loads
<1>5. life[d].config[1] \in ConfigFiles /\ life[d].config[1] \in Files
  BY <1>3, <1>4, LivesAssumption
<1>6. life[d].apps \in Seq(AppEntries) /\ life[d].run \in Seq(Procs \cup {NoProc})
  BY <1>1 DEF LifeRecord
<1>7. /\ Len(life[d].run) <= Len(life[d].apps)
      /\ ~At(d, "create") => Len(life[d].run) = Len(life[d].apps)
  BY DEF Configured
<1> QED
  BY <1>2, <1>4, <1>5, <1>6, <1>7, LenProperties

(* The parameters of one of its applications, and the process it gets. *)
LEMMA SpawnedFacts ==
    ASSUME LivesTypes, NEW d \in Lives, Configured(d), Alive(d),
           NEW i \in 1..Len(life[d].apps)
    PROVE  /\ Params(d, i).name \in Names
           /\ Params(d, i).uid \in Nat /\ Params(d, i).gid \in Nat
           /\ Params(d, i).log_buffer_size \in Nat
           /\ Params(d, i).autostart = life[d].apps[i].autostart
           /\ Spawned(d, Params(d, i)) \in ProcRecord
           /\ Spawned(d, Params(d, i)).st \in {"live", "zombie"}
           /\ Spawned(d, Params(d, i)).life = d
           /\ Spawned(d, Params(d, i)).path = Params(d, i).name
           /\ Spawned(d, Params(d, i)).ids
                = ChildIds(life[d].own, Params(d, i).uid, Params(d, i).gid)
<1>1. PICK a \in AppEntries : a = life[d].apps[i]
  BY ConfiguredFacts
<1>2. PICK own \in Owners : own = life[d].own
  BY ConfiguredFacts
<1>3. PICK f \in Files : f = life[d].config[1] /\ f.kind = "config"
  BY ConfiguredFacts
<1>4. PICK q : q = Params(d, i)
  OBVIOUS
<1>5. q = AppParams(a, f, own)
  BY <1>1, <1>2, <1>3, <1>4 DEF Params
<1>6. /\ q.name \in Names /\ q.uid \in Nat /\ q.gid \in Nat
      /\ q.log_buffer_size \in Nat /\ q.autostart = a.autostart
  BY <1>3, <1>5, ParamsFacts
<1>7. PICK ids : ids = ChildIds(own, q.uid, q.gid)
  OBVIOUS
<1>8. ids \in [uid : Int, gid : Int]
  <2>1. PICK u \in Nat, g \in Nat : u = q.uid /\ g = q.gid
    BY <1>6
  <2> QED
    BY <1>7, <2>1, ChildIdsFacts
<1>9. q.name \in Names
  BY <1>6
<1>10. Spawned(d, q) = [st |-> IF ids = Refused THEN "zombie" ELSE "live",
                        life |-> d, path |-> q.name, ids |-> ids]
  BY <1>2, <1>7 DEF Spawned
<1>11. Spawned(d, q) \in ProcRecord
  BY <1>8, <1>9, <1>10 DEF ProcRecord
<1> QED
  BY <1>1, <1>2, <1>4, <1>6, <1>7, <1>10, <1>11

(* A turn of the loop that creates the applications. *)
HasTokens(d) ==
    3 * (Cardinality(Running(d)) + 1) <= life[d].config[1].max_mio_tokens

CreateEffect(d, n) ==
    \/ /\ ~RingMapped(Params(d, n).log_buffer_size)
       /\ Ends(d, "failed", proc) /\ UNCHANGED <<main_cg, cg>>
    \/ /\ life'[d] = [life[d] EXCEPT !.run = Append(life[d].run, NoProc)]
       /\ UNCHANGED <<proc, main_cg, cg>>
    \/ /\ life[d].apps[n].autostart
       /\ main_cg' = TRUE /\ cg' = cg \cup Directories(Params(d, n).name)
       /\ \E p \in FreeProcs :
             \/ /\ life'[d] = [life[d] EXCEPT !.run = Append(life[d].run, p)]
                /\ proc' = [proc EXCEPT ![p] = Spawned(d, Params(d, n))]
             \/ /\ ~(HasTokens(d) /\ RingMapped(Params(d, n).log_buffer_size))
                /\ Ends(d, "failed", [proc EXCEPT ![p] = Spawned(d, Params(d, n))])

(* Such a turn starts the application, or lists it, or is the end. *)
LEMMA CreateFacts ==
    ASSUME LivesTypes, NEW d \in Lives, Configured(d), CreateApp(d)
    PROVE  /\ Works(d) /\ LivesTypes' /\ At(d, "create") /\ file' = file
           /\ Len(life[d].run) + 1 \in 1..Len(life[d].apps)
           /\ CreateEffect(d, Len(life[d].run) + 1)
<1>1. At(d, "create") /\ Alive(d) /\ file' = file /\ met' = met
  BY DEF CreateApp, At, Alive, Ended
<1>2. PICK n : n = Len(life[d].run) + 1
  OBVIOUS
<1>3. /\ life[d].apps \in Seq(AppEntries) /\ Len(life[d].apps) \in Nat
      /\ life[d].run \in Seq(Procs \cup {NoProc}) /\ Len(life[d].run) \in Nat
  BY <1>1, ConfiguredFacts
<1>4. n \in 1..Len(life[d].apps)
  BY <1>2, <1>3 DEF CreateApp
<1>5. PICK q : q = Params(d, n)
  OBVIOUS
<1>6. q = AppParams(life[d].apps[n], life[d].config[1], life[d].own)
  BY <1>5 DEF Params
<1>7. /\ q.name \in Names /\ q.autostart = life[d].apps[n].autostart
      /\ Spawned(d, q) \in ProcRecord
  BY <1>1, <1>4, <1>5, SpawnedFacts
<1>8. life[d] \in LifeRecord /\ cg \in SUBSET Names /\ main_cg \in BOOLEAN
  BY DEF LivesTypes
<1>9. ASSUME NEW p \in Procs \cup {NoProc},
             life' = [life EXCEPT ![d].run = Append(@, p)]
      PROVE  /\ Works(d) /\ life' \in [Lives -> LifeRecord]
             /\ life'[d] = [life[d] EXCEPT !.run = Append(life[d].run, p)]
  <2>1. PICK r : r = [life[d] EXCEPT !.run = Append(life[d].run, p)]
    OBVIOUS
  <2>2. Append(life[d].run, p) \in Seq(Procs \cup {NoProc})
    BY <1>3
  <2>3. r \in LifeRecord
    BY <1>8, <2>1, <2>2 DEF LifeRecord
  <2>4. /\ r.pc # "off" /\ r.config = life[d].config /\ r.own = life[d].own
        /\ r.apps = life[d].apps /\ r.leftover = life[d].leftover
    BY <1>1, <1>8, <2>1 DEF LifeRecord, At
  <2>5. life' = [life EXCEPT ![d] = r]
    BY <1>9, <2>1
  <2> QED
    BY <1>1, <2>1, <2>3, <2>4, <2>5, ChangeWorks
<1>10. CASE Ends(d, "failed", proc) /\ UNCHANGED <<main_cg, cg>>
            /\ ~RingMapped(q.log_buffer_size)
  <2>1. Works(d) /\ LivesTypes'
    <3>1. "failed" \in Ended /\ "failed" # "off" /\ proc \in [Procs -> ProcRecord]
          /\ main_cg' \in BOOLEAN /\ cg' \in SUBSET Names
      BY <1>8, <1>10 DEF Ended, LivesTypes
    <3> QED
      BY <1>1, <1>10, <3>1, EndsWorks
  <2> QED
    BY <1>1, <1>2, <1>4, <1>5, <1>10, <2>1 DEF CreateEffect
<1>11. CASE life' = [life EXCEPT ![d].run = Append(@, NoProc)]
            /\ UNCHANGED <<proc, main_cg, cg>>
  <2>1. /\ Works(d) /\ life' \in [Lives -> LifeRecord]
        /\ life'[d] = [life[d] EXCEPT !.run = Append(life[d].run, NoProc)]
    BY <1>9, <1>11
  <2>2. LivesTypes'
    BY <1>1, <1>11, <2>1 DEF LivesTypes
  <2> QED
    BY <1>1, <1>2, <1>4, <1>11, <2>1, <2>2 DEF CreateEffect
<1>12. ASSUME q.autostart, main_cg' = TRUE, cg' = cg \cup Directories(q.name),
              NEW p \in FreeProcs,
              NEW procs, procs = [proc EXCEPT ![p] = Spawned(d, q)],
              \/ /\ life' = [life EXCEPT ![d].run = Append(@, p)]
                 /\ proc' = procs
              \/ /\ ~(HasTokens(d) /\ RingMapped(q.log_buffer_size))
                 /\ Ends(d, "failed", procs)
       PROVE  Works(d) /\ LivesTypes' /\ CreateEffect(d, n)
  <2>1. cg' \in SUBSET Names /\ main_cg' \in BOOLEAN
    BY <1>7, <1>8, <1>12, DirectoriesFacts
  <2>2. p \in Procs /\ procs \in [Procs -> ProcRecord]
    BY <1>7, <1>12 DEF FreeProcs, LivesTypes
  <2>3. CASE life' = [life EXCEPT ![d].run = Append(@, p)] /\ proc' = procs
    <3>1. /\ Works(d) /\ life' \in [Lives -> LifeRecord]
          /\ life'[d] = [life[d] EXCEPT !.run = Append(life[d].run, p)]
      BY <1>9, <2>2, <2>3
    <3>2. LivesTypes'
      BY <1>1, <2>1, <2>2, <2>3, <3>1 DEF LivesTypes
    <3> QED
      BY <1>5, <1>7, <1>12, <2>3, <3>1, <3>2 DEF CreateEffect
  <2>4. CASE ~(HasTokens(d) /\ RingMapped(q.log_buffer_size)) /\ Ends(d, "failed", procs)
    <3>1. "failed" \in Ended /\ "failed" # "off"
      BY DEF Ended
    <3>2. Works(d) /\ LivesTypes'
      BY <1>1, <2>1, <2>2, <2>4, <3>1, EndsWorks
    <3> QED
      BY <1>5, <1>7, <1>12, <2>4, <3>2 DEF CreateEffect
  <2> QED
    BY <1>12, <2>3, <2>4
<1>13. \/ Ends(d, "failed", proc) /\ UNCHANGED <<main_cg, cg>>
             /\ ~RingMapped(q.log_buffer_size)
       \/ /\ life' = [life EXCEPT ![d].run = Append(@, NoProc)]
          /\ UNCHANGED <<proc, main_cg, cg>>
       \/ /\ q.autostart /\ main_cg' = TRUE /\ cg' = cg \cup Directories(q.name)
          /\ \E p \in FreeProcs :
                \/ /\ life' = [life EXCEPT ![d].run = Append(@, p)]
                   /\ proc' = [proc EXCEPT ![p] = Spawned(d, q)]
                \/ /\ ~(HasTokens(d) /\ RingMapped(q.log_buffer_size))
                   /\ Ends(d, "failed", [proc EXCEPT ![p] = Spawned(d, q)])
  BY <1>2, <1>6 DEF CreateApp, HasTokens, ValidLogBufferSize, RingMapped
<1> QED
  BY <1>1, <1>2, <1>4, <1>10, <1>11, <1>12, <1>13

(* The steps of the two binds and of the end, up to the removal of the main
   cgroup: what they do to the record of the daemon. *)
Moved(d, pc, sock, stale) ==
    life'[d] = [life[d] EXCEPT !.pc = pc, !.sock = sock, !.stale = stale]

(* Such a step keeps the types. *)
LEMMA MovedWorks ==
    ASSUME LivesTypes, NEW d \in Lives, Alive(d), NEW r \in LifeRecord, r.pc # "off",
           r.config = life[d].config, r.own = life[d].own, r.apps = life[d].apps,
           r.leftover = life[d].leftover, life' = [life EXCEPT ![d] = r],
           UNCHANGED <<main_cg, cg, proc, met>>,
           file' \in [{"control", "log"} -> Lives \cup {NobodysFile}]
    PROVE  Works(d) /\ LivesTypes' /\ life'[d] = r
<1>1. met' = met
  OBVIOUS
<1>2. Works(d) /\ life' \in [Lives -> LifeRecord] /\ life'[d] = r
  BY <1>1, ChangeWorks
<1> QED
  BY <1>2 DEF LivesTypes

(* The socket whose turn it is, and the turn after it. *)
LEMMA SocketFacts ==
    ASSUME LivesTypes, NEW d \in Lives
    PROVE  /\ life[d].sock \in {1, 2} /\ Socket(d) \in {"control", "log"}
           /\ Socket(d) = IF life[d].sock = 1 THEN "control" ELSE "log"
           /\ Len(Sockets) = 2
           /\ (life[d].sock % Len(Sockets)) + 1 = IF life[d].sock = 1 THEN 2 ELSE 1
<1>1. life[d] \in LifeRecord
  BY DEF LivesTypes
<1>2. life[d].sock \in {1, 2}
  BY <1>1 DEF LifeRecord
<1>3. Len(Sockets) = 2 /\ Sockets[1] = "control" /\ Sockets[2] = "log"
  BY DEF Sockets
<1> QED
  BY <1>2, <1>3 DEF Socket

(* There are two of them. *)
LEMMA SocketsRange == Range(Sockets) = {"control", "log"}
<1>1. DOMAIN Sockets = {1, 2} /\ Sockets[1] = "control" /\ Sockets[2] = "log"
  BY DEF Sockets
<1> QED
  BY <1>1 DEF Range

(* The applications have been created. *)
LEMMA CreatedFacts ==
    ASSUME LivesTypes, NEW d \in Lives, AppsCreated(d)
    PROVE  /\ Works(d) /\ LivesTypes' /\ At(d, "create")
           /\ Len(life[d].run) = Len(life[d].apps)
           /\ Moved(d, "check", 1, life[d].stale)
           /\ UNCHANGED <<file, main_cg, cg, proc>>
<1>1. /\ At(d, "create") /\ Alive(d) /\ Len(life[d].run) = Len(life[d].apps)
      /\ UNCHANGED <<file, main_cg, cg, proc, met>>
  BY DEF AppsCreated, At, Alive, Ended
<1>2. life[d] \in LifeRecord /\ file' \in [{"control", "log"} -> Lives \cup {NobodysFile}]
  BY <1>1 DEF LivesTypes
<1>3. PICK r : r = [life[d] EXCEPT !.pc = "check", !.sock = 1, !.stale = life[d].stale]
  OBVIOUS
<1>4. r \in LifeRecord
  BY <1>2, <1>3 DEF LifeRecord
<1>5. /\ r.pc # "off" /\ r.config = life[d].config /\ r.own = life[d].own
      /\ r.apps = life[d].apps /\ r.leftover = life[d].leftover
  BY <1>2, <1>3 DEF LifeRecord
<1>6. life' = [life EXCEPT ![d] = r]
  BY <1>2, <1>3 DEF AppsCreated, LivesTypes, LifeRecord
<1>7. Works(d) /\ LivesTypes' /\ life'[d] = r
  BY <1>1, <1>2, <1>4, <1>5, <1>6, MovedWorks
<1> QED
  BY <1>1, <1>3, <1>7 DEF Moved

(* The look for a file that is in the way. *)
LEMMA CheckFacts ==
    ASSUME LivesTypes, NEW d \in Lives, Check(d)
    PROVE  /\ Works(d) /\ LivesTypes' /\ At(d, "check")
           /\ Moved(d, "remove", life[d].sock, file[Socket(d)] # NobodysFile)
           /\ UNCHANGED <<file, main_cg, cg, proc>>
<1>1. At(d, "check") /\ Alive(d) /\ UNCHANGED <<file, main_cg, cg, proc, met>>
  BY DEF Check, At, Alive, Ended
<1>2. life[d] \in LifeRecord /\ file' \in [{"control", "log"} -> Lives \cup {NobodysFile}]
  BY <1>1 DEF LivesTypes
<1>3. PICK r : r = [life[d] EXCEPT !.pc = "remove", !.sock = life[d].sock,
                                   !.stale = file[Socket(d)] # NobodysFile]
  OBVIOUS
<1>4. r \in LifeRecord
  BY <1>2, <1>3 DEF LifeRecord
<1>5. /\ r.pc # "off" /\ r.config = life[d].config /\ r.own = life[d].own
      /\ r.apps = life[d].apps /\ r.leftover = life[d].leftover
  BY <1>2, <1>3 DEF LifeRecord
<1>6. life' = [life EXCEPT ![d] = r]
  BY <1>2, <1>3 DEF Check, LivesTypes, LifeRecord
<1>7. Works(d) /\ LivesTypes' /\ life'[d] = r
  BY <1>1, <1>2, <1>4, <1>5, <1>6, MovedWorks
<1> QED
  BY <1>1, <1>3, <1>7 DEF Moved

(* The loop breaks. *)
LEMMA QuitFacts ==
    ASSUME LivesTypes, NEW d \in Lives, Quit(d)
    PROVE  /\ Works(d) /\ LivesTypes' /\ At(d, "serve") /\ Running(d) = {}
           /\ Moved(d, "unlink", life[d].sock, life[d].stale)
           /\ UNCHANGED <<file, main_cg, cg, proc>>
<1>1. /\ At(d, "serve") /\ Alive(d) /\ Running(d) = {}
      /\ UNCHANGED <<file, main_cg, cg, proc, met>>
  BY DEF Quit, At, Alive, Ended
<1>2. life[d] \in LifeRecord /\ file' \in [{"control", "log"} -> Lives \cup {NobodysFile}]
  BY <1>1 DEF LivesTypes
<1>3. PICK r : r = [life[d] EXCEPT !.pc = "unlink", !.sock = life[d].sock,
                                   !.stale = life[d].stale]
  OBVIOUS
<1>4. r \in LifeRecord
  BY <1>2, <1>3 DEF LifeRecord
<1>5. /\ r.pc # "off" /\ r.config = life[d].config /\ r.own = life[d].own
      /\ r.apps = life[d].apps /\ r.leftover = life[d].leftover
  BY <1>2, <1>3 DEF LifeRecord
<1>6. life' = [life EXCEPT ![d] = r]
  BY <1>2, <1>3 DEF Quit, LivesTypes, LifeRecord
<1>7. Works(d) /\ LivesTypes' /\ life'[d] = r
  BY <1>1, <1>2, <1>4, <1>5, <1>6, MovedWorks
<1> QED
  BY <1>1, <1>3, <1>7 DEF Moved

(* The removal of a file that was in the way. *)
LEMMA RemoveFacts ==
    ASSUME LivesTypes, NEW d \in Lives, RemoveStale(d)
    PROVE  /\ Works(d) /\ LivesTypes' /\ At(d, "remove") /\ UNCHANGED <<main_cg, cg>>
           /\ \/ /\ life[d].stale /\ file[Socket(d)] = NobodysFile
                 /\ Ends(d, "failed", proc) /\ file' = file
              \/ /\ Moved(d, "bind", life[d].sock, FALSE) /\ proc' = proc
                 /\ life[d].stale => file[Socket(d)] # NobodysFile
                 /\ file' = IF life[d].stale
                            THEN [file EXCEPT ![Socket(d)] = NobodysFile] ELSE file
<1>1. At(d, "remove") /\ Alive(d) /\ UNCHANGED <<main_cg, cg, met>>
  BY DEF RemoveStale, At, Alive, Ended
<1>2. /\ life[d] \in LifeRecord /\ proc \in [Procs -> ProcRecord]
      /\ file \in [{"control", "log"} -> Lives \cup {NobodysFile}]
      /\ main_cg' \in BOOLEAN /\ cg' \in SUBSET Names
  BY <1>1 DEF LivesTypes
<1>3. CASE /\ life[d].stale /\ file[Socket(d)] = NobodysFile
           /\ Ends(d, "failed", proc) /\ UNCHANGED file
  <2>1. "failed" \in Ended /\ "failed" # "off" /\ met' = met /\ file' = file
    BY <1>1, <1>3 DEF Ended
  <2>2. Works(d) /\ LivesTypes'
    BY <1>1, <1>2, <1>3, <2>1, EndsWorks
  <2> QED
    BY <1>1, <1>3, <2>2
<1>4. CASE /\ life[d].stale => file[Socket(d)] # NobodysFile
           /\ life' = [life EXCEPT ![d].pc = "bind", ![d].stale = FALSE]
           /\ file' = IF life[d].stale
                      THEN [file EXCEPT ![Socket(d)] = NobodysFile] ELSE file
           /\ UNCHANGED proc
  <2>1. file' \in [{"control", "log"} -> Lives \cup {NobodysFile}]
    BY <1>2, <1>4
  <2>2. PICK r : r = [life[d] EXCEPT !.pc = "bind", !.sock = life[d].sock, !.stale = FALSE]
    OBVIOUS
  <2>3. r \in LifeRecord
    BY <1>2, <2>2 DEF LifeRecord
  <2>4. /\ r.pc # "off" /\ r.config = life[d].config /\ r.own = life[d].own
        /\ r.apps = life[d].apps /\ r.leftover = life[d].leftover
    BY <1>2, <2>2 DEF LifeRecord
  <2>5. life' = [life EXCEPT ![d] = r]
    BY <1>2, <1>4, <2>2 DEF LivesTypes, LifeRecord
  <2>6. UNCHANGED <<main_cg, cg, proc, met>>
    BY <1>1, <1>4
  <2>7. Works(d) /\ LivesTypes' /\ life'[d] = r
    BY <1>1, <2>1, <2>3, <2>4, <2>5, <2>6, MovedWorks
  <2> QED
    BY <1>1, <1>4, <2>2, <2>7 DEF Moved
<1> QED
  BY <1>3, <1>4 DEF RemoveStale

(* The bind. *)
LEMMA BindFacts ==
    ASSUME LivesTypes, NEW d \in Lives, Bind(d)
    PROVE  /\ Works(d) /\ LivesTypes' /\ At(d, "bind") /\ UNCHANGED <<main_cg, cg>>
           /\ \/ /\ file[Socket(d)] # NobodysFile
                 /\ Ends(d, "failed", proc) /\ file' = file
              \/ /\ proc' = proc /\ file' = [file EXCEPT ![Socket(d)] = d]
                 /\ IF life[d].sock = 1 THEN Moved(d, "check", 2, life[d].stale)
                    ELSE Moved(d, "serve", 1, life[d].stale)
<1>1. At(d, "bind") /\ Alive(d) /\ UNCHANGED <<main_cg, cg, met>>
  BY DEF Bind, At, Alive, Ended
<1>2. /\ life[d] \in LifeRecord /\ proc \in [Procs -> ProcRecord]
      /\ file \in [{"control", "log"} -> Lives \cup {NobodysFile}]
      /\ main_cg' \in BOOLEAN /\ cg' \in SUBSET Names
  BY <1>1 DEF LivesTypes
<1>3. CASE /\ file[Socket(d)] # NobodysFile
           /\ Ends(d, "failed", proc) /\ UNCHANGED file
  <2>1. "failed" \in Ended /\ "failed" # "off" /\ met' = met /\ file' = file
    BY <1>1, <1>3 DEF Ended
  <2>2. Works(d) /\ LivesTypes'
    BY <1>1, <1>2, <1>3, <2>1, EndsWorks
  <2> QED
    BY <1>1, <1>3, <2>2
<1>4. CASE /\ life' = [life EXCEPT
                 ![d].pc = IF life[d].sock = Len(Sockets) THEN "serve" ELSE "check",
                 ![d].sock = (@ % Len(Sockets)) + 1]
           /\ file' = [file EXCEPT ![Socket(d)] = d]
           /\ UNCHANGED proc
  <2>1. /\ life[d].sock \in {1, 2} /\ Len(Sockets) = 2
        /\ (life[d].sock % Len(Sockets)) + 1 = IF life[d].sock = 1 THEN 2 ELSE 1
    BY SocketFacts
  <2>2. file' \in [{"control", "log"} -> Lives \cup {NobodysFile}]
    BY <1>2, <1>4
  <2>3. PICK pc \in {"check", "serve"}, k \in {1, 2} :
           IF life[d].sock = 1 THEN pc = "check" /\ k = 2 ELSE pc = "serve" /\ k = 1
    OBVIOUS
  <2>4. PICK r : r = [life[d] EXCEPT !.pc = pc, !.sock = k, !.stale = life[d].stale]
    OBVIOUS
  <2>5. r \in LifeRecord
    BY <1>2, <2>3, <2>4 DEF LifeRecord
  <2>6. /\ r.pc # "off" /\ r.config = life[d].config /\ r.own = life[d].own
        /\ r.apps = life[d].apps /\ r.leftover = life[d].leftover
    BY <1>2, <2>3, <2>4 DEF LifeRecord
  <2>7. life' = [life EXCEPT ![d].pc = pc, ![d].sock = k]
    <3>1. life' = [life EXCEPT
             ![d].pc = IF life[d].sock = Len(Sockets) THEN "serve" ELSE "check",
             ![d].sock = (life[d].sock % Len(Sockets)) + 1]
      BY <1>2, <1>4 DEF LivesTypes, LifeRecord
    <3>2. /\ pc = IF life[d].sock = Len(Sockets) THEN "serve" ELSE "check"
          /\ k = (life[d].sock % Len(Sockets)) + 1
      BY <2>1, <2>3
    <3> QED
      BY <3>1, <3>2, Zenon
  <2>8. life' = [life EXCEPT ![d] = r]
    BY <1>2, <2>4, <2>7 DEF LivesTypes, LifeRecord
  <2>9. UNCHANGED <<main_cg, cg, proc, met>>
    BY <1>1, <1>4
  <2>10. Works(d) /\ LivesTypes' /\ life'[d] = r
    BY <1>1, <2>2, <2>5, <2>6, <2>8, <2>9, MovedWorks
  <2> QED
    BY <1>1, <1>4, <2>3, <2>4, <2>10 DEF Moved
<1> QED
  BY <1>3, <1>4 DEF Bind

(* The removal of the socket files. *)
LEMMA UnlinkFacts ==
    ASSUME LivesTypes, NEW d \in Lives, Unlink(d)
    PROVE  /\ Works(d) /\ LivesTypes' /\ At(d, "unlink") /\ UNCHANGED <<main_cg, cg, proc>>
           /\ file' = [file EXCEPT ![Socket(d)] = NobodysFile]
           /\ IF life[d].sock = 1 THEN Moved(d, "unlink", 2, life[d].stale)
              ELSE Moved(d, "rmdir", 1, life[d].stale)
<1>1. At(d, "unlink") /\ Alive(d) /\ UNCHANGED <<main_cg, cg, proc, met>>
  BY DEF Unlink, At, Alive, Ended
<1>2. /\ life[d] \in LifeRecord
      /\ file \in [{"control", "log"} -> Lives \cup {NobodysFile}]
  BY DEF LivesTypes
<1>3. /\ life[d].sock \in {1, 2} /\ Len(Sockets) = 2
      /\ (life[d].sock % Len(Sockets)) + 1 = IF life[d].sock = 1 THEN 2 ELSE 1
  BY SocketFacts
<1>4. file' = [file EXCEPT ![Socket(d)] = NobodysFile]
  BY DEF Unlink
<1>5. file' \in [{"control", "log"} -> Lives \cup {NobodysFile}]
  BY <1>2, <1>4
<1>6. PICK pc \in {"unlink", "rmdir"}, k \in {1, 2} :
         IF life[d].sock = 1 THEN pc = "unlink" /\ k = 2 ELSE pc = "rmdir" /\ k = 1
  OBVIOUS
<1>7. PICK r : r = [life[d] EXCEPT !.pc = pc, !.sock = k, !.stale = life[d].stale]
  OBVIOUS
<1>8. r \in LifeRecord
  BY <1>2, <1>6, <1>7 DEF LifeRecord
<1>9. /\ r.pc # "off" /\ r.config = life[d].config /\ r.own = life[d].own
      /\ r.apps = life[d].apps /\ r.leftover = life[d].leftover
  BY <1>2, <1>6, <1>7 DEF LifeRecord
<1>10. life' = [life EXCEPT ![d].pc = pc, ![d].sock = k]
  <2>1. life' = [life EXCEPT
           ![d].pc = IF life[d].sock = Len(Sockets) THEN "rmdir" ELSE life[d].pc,
           ![d].sock = (life[d].sock % Len(Sockets)) + 1]
    BY <1>2 DEF LivesTypes, LifeRecord, Unlink
  <2>2. /\ pc = IF life[d].sock = Len(Sockets) THEN "rmdir" ELSE life[d].pc
        /\ k = (life[d].sock % Len(Sockets)) + 1
    BY <1>1, <1>3, <1>6 DEF At
  <2> QED
    BY <2>1, <2>2, Zenon
<1>11. life' = [life EXCEPT ![d] = r]
  BY <1>2, <1>7, <1>10 DEF LivesTypes, LifeRecord
<1>12. Works(d) /\ LivesTypes' /\ life'[d] = r
  BY <1>1, <1>5, <1>8, <1>9, <1>11, MovedWorks
<1> QED
  BY <1>1, <1>4, <1>6, <1>7, <1>12 DEF Moved

(* The exit, and the death of a daemon. *)
LEMMA DeleteMainFacts ==
    ASSUME LivesTypes, NEW d \in Lives, DeleteMain(d)
    PROVE  /\ Works(d) /\ LivesTypes' /\ At(d, "rmdir") /\ UNCHANGED <<file, cg>>
           /\ \/ main_cg' = FALSE /\ cg = {} /\ Ends(d, "exited", proc)
              \/ /\ ~main_cg \/ cg # {}
                 /\ main_cg' = main_cg /\ Ends(d, "panicked", proc)
<1>1. At(d, "rmdir") /\ Alive(d) /\ UNCHANGED <<file, cg, met>>
  BY DEF DeleteMain, At, Alive, Ended
<1>2. /\ proc \in [Procs -> ProcRecord] /\ cg' \in SUBSET Names
      /\ main_cg' \in BOOLEAN /\ met' = met /\ file' = file
  BY <1>1 DEF LivesTypes, DeleteMain
<1>3. /\ "exited" \in Ended /\ "exited" # "off"
      /\ "panicked" \in Ended /\ "panicked" # "off"
  BY DEF Ended
<1>4. Ends(d, "exited", proc) => Works(d) /\ LivesTypes'
  BY <1>1, <1>2, <1>3, EndsWorks
<1>5. Ends(d, "panicked", proc) => Works(d) /\ LivesTypes'
  BY <1>1, <1>2, <1>3, EndsWorks
<1> QED
  BY <1>1, <1>4, <1>5 DEF DeleteMain

(* A daemon is killed, with everything left as it is. *)
LEMMA CrashFacts ==
    ASSUME LivesTypes, NEW d \in Lives, Crash(d)
    PROVE  /\ Works(d) /\ LivesTypes' /\ Ends(d, "killed", proc)
           /\ UNCHANGED <<file, main_cg, cg>>
<1>1. Alive(d) /\ Ends(d, "killed", proc) /\ UNCHANGED <<file, main_cg, cg, met>>
  BY DEF Crash
<1>2. /\ proc \in [Procs -> ProcRecord] /\ cg' \in SUBSET Names
      /\ main_cg' \in BOOLEAN /\ met' = met /\ file' = file
      /\ "killed" \in Ended /\ "killed" # "off"
  BY <1>1 DEF LivesTypes, Ended
<1> QED
  BY <1>1, <1>2, EndsWorks

(* A start. *)
StartEffect(d, i) ==
    \E p \in FreeProcs :
       /\ life'[d] = [life[d] EXCEPT !.run = [life[d].run EXCEPT ![i] = p]]
       /\ proc' = [proc EXCEPT ![p] = Spawned(d, Params(d, i))]

(* It takes a free process and makes the cgroup. *)
LEMMA StartFacts ==
    ASSUME LivesTypes, NEW d \in Lives, Configured(d), NEW i \in DOMAIN life[d].run,
           Start(d, i)
    PROVE  /\ Works(d) /\ LivesTypes' /\ At(d, "serve") /\ file' = file
           /\ i \in 1..Len(life[d].run) /\ i \in 1..Len(life[d].apps)
           /\ life[d].run[i] = NoProc
           /\ main_cg' = TRUE /\ cg' = cg \cup Directories(Params(d, i).name)
           /\ StartEffect(d, i)
<1>1. At(d, "serve") /\ Alive(d) /\ file' = file /\ met' = met
  BY DEF Start, At, Alive, Ended
<1>2. i \in 1..Len(life[d].run) /\ i \in 1..Len(life[d].apps)
  BY <1>1, ConfiguredFacts DEF At
<1>3. PICK q : q = Params(d, i)
  OBVIOUS
<1>4. q = AppParams(life[d].apps[i], life[d].config[1], life[d].own)
  BY <1>3 DEF Params
<1>5. q.name \in Names /\ Spawned(d, q) \in ProcRecord
  BY <1>1, <1>2, <1>3, SpawnedFacts
<1>6. life[d].run[i] = NoProc /\ main_cg' = TRUE /\ cg' = cg \cup Directories(q.name)
  BY <1>4 DEF Start
<1>7. PICK p \in FreeProcs :
         /\ life' = [life EXCEPT ![d].run[i] = p]
         /\ proc' = [proc EXCEPT ![p] = Spawned(d, q)]
  BY <1>4 DEF Start
<1>8. life[d] \in LifeRecord /\ p \in Procs
  BY DEF LivesTypes, FreeProcs
<1>9. PICK s : s = [life[d].run EXCEPT ![i] = p]
  OBVIOUS
<1>10. s \in Seq(Procs \cup {NoProc})
  <2>1. PICK u \in Seq(Procs \cup {NoProc}) : u = life[d].run
    BY <1>8 DEF LifeRecord
  <2> QED
    BY <1>2, <1>8, <1>9, <2>1, ExceptSeq
<1>11. PICK r : r = [life[d] EXCEPT !.run = s]
  OBVIOUS
<1>12. r \in LifeRecord
  BY <1>8, <1>10, <1>11 DEF LifeRecord
<1>13. /\ r.pc # "off" /\ r.config = life[d].config /\ r.own = life[d].own
       /\ r.apps = life[d].apps /\ r.leftover = life[d].leftover
  BY <1>1, <1>8, <1>11 DEF LifeRecord, At
<1>14. life' = [life EXCEPT ![d] = r]
  BY <1>7, <1>9, <1>11
<1>15. Works(d) /\ life' \in [Lives -> LifeRecord] /\ life'[d] = r
  BY <1>1, <1>12, <1>13, <1>14, ChangeWorks
<1>16. LivesTypes'
  BY <1>1, <1>5, <1>6, <1>7, <1>8, <1>15, DirectoriesFacts DEF LivesTypes
<1>17. StartEffect(d, i)
  BY <1>3, <1>7, <1>9, <1>11, <1>15 DEF StartEffect
<1> QED
  BY <1>1, <1>2, <1>3, <1>6, <1>15, <1>16, <1>17

(* What the end of a process makes of it. *)
LEMMA DeadFacts ==
    ASSUME NEW r \in ProcRecord, r.st = "live"
    PROVE  /\ Dead(r) \in ProcRecord /\ Dead(r).st # "live"
           /\ r.life \in Lives /\ r.path \in Names
           /\ Alive(r.life) => /\ Dead(r).st = "zombie" /\ Dead(r).life = r.life
                               /\ Dead(r).path = r.path /\ Dead(r).ids = r.ids
           /\ ~Alive(r.life) => Dead(r) = FreeProc
<1>1. r \in [st : {"live", "zombie"}, life : Lives, path : Names,
             ids : [uid : Int, gid : Int]]
  BY DEF ProcRecord, FreeProc
<1>2. [r EXCEPT !.st = "zombie"] \in ProcRecord
  BY <1>1 DEF ProcRecord
<1>3. FreeProc \in ProcRecord /\ FreeProc.st = "free"
  BY DEF ProcRecord, FreeProc
<1>4. CASE Alive(r.life)
  BY <1>1, <1>2, <1>4 DEF Dead
<1>5. CASE ~Alive(r.life)
  BY <1>1, <1>3, <1>5 DEF Dead
<1> QED
  BY <1>4, <1>5

(* A process that was reaped, and the others in its cgroup or below. *)
ReapedProc(p, path, q) ==
    IF q = p THEN FreeProc
    ELSE IF proc[q].st = "live" /\ path \in Prefixes(proc[q].path) THEN Dead(proc[q])
    ELSE proc[q]

ReapEffect(d, i) ==
    \E p \in Procs :
       /\ p = life[d].run[i] /\ proc[p].st = "zombie" /\ proc[p].path \in Names
       /\ life'[d] = [life[d] EXCEPT
             !.run = [life[d].run EXCEPT ![i] = NoProc],
             !.reaped = life[d].reaped \cup {proc[p].path}]
       /\ \A q \in Procs : proc'[q] = ReapedProc(p, proc[p].path, q)
       /\ cg' = CgroupDeleted(proc[p].path)

(* The process is freed, and the cgroup killed and removed. *)
LEMMA ReapFacts ==
    ASSUME LivesTypes, NEW d \in Lives, Configured(d), NEW i \in DOMAIN life[d].run,
           Reap(d, i)
    PROVE  /\ Works(d) /\ LivesTypes' /\ At(d, "serve") /\ UNCHANGED <<file, main_cg>>
           /\ i \in 1..Len(life[d].run)
           /\ ReapEffect(d, i)
<1>1. At(d, "serve") /\ Alive(d) /\ UNCHANGED <<file, main_cg, met>>
  BY DEF Reap, At, Alive, Ended
<1>2. i \in 1..Len(life[d].run) /\ life[d].run \in Seq(Procs \cup {NoProc})
  BY <1>1, ConfiguredFacts
<1>3. PICK p \in Procs : p = life[d].run[i]
  <2>1. life[d].run[i] \in Procs \cup {NoProc} /\ life[d].run[i] # NoProc
    BY <1>2, ElementOfSeq DEF Reap
  <2> QED
    BY <2>1
<1>4. PICK path : path = proc[p].path
  OBVIOUS
<1>5. /\ proc[p].st = "zombie"
      /\ proc' = CgroupKilled([proc EXCEPT ![p] = FreeProc], path, d)
      /\ cg' = IF \E q \in Procs : proc'[q].st = "live" /\ proc'[q].path = path
               THEN cg ELSE CgroupDeleted(path)
      /\ life' = [life EXCEPT ![d].run[i] = NoProc, ![d].reaped = @ \cup {path}]
  BY <1>3, <1>4 DEF Reap
<1>6. life[d] \in LifeRecord /\ proc \in [Procs -> ProcRecord] /\ cg \in SUBSET Names
  BY DEF LivesTypes
<1>7. path \in Names
  BY <1>4, <1>5, <1>6 DEF ProcRecord, FreeProc
<1>8. FreeProc \in ProcRecord /\ FreeProc.st = "free"
  BY DEF ProcRecord, FreeProc
<1>9. ASSUME NEW q \in Procs
      PROVE  /\ proc'[q] = ReapedProc(p, path, q)
             /\ proc'[q] \in ProcRecord
             /\ ~(proc'[q].st = "live" /\ proc'[q].path = path)
  <2>1. proc[q] \in ProcRecord
    BY <1>6
  <2>2. CASE q = p
    <3>1. [proc EXCEPT ![p] = FreeProc][q] = FreeProc
      BY <1>6, <2>2
    <3>2. proc'[q] = FreeProc
      BY <1>5, <1>8, <3>1 DEF CgroupKilled
    <3> QED
      BY <1>8, <2>2, <3>2 DEF ReapedProc
  <2>3. CASE q # p
    <3>1. [proc EXCEPT ![p] = FreeProc][q] = proc[q]
      BY <1>6, <2>3
    <3>2. proc'[q] = IF proc[q].st = "live" /\ path \in Prefixes(proc[q].path)
                     THEN Dead(proc[q]) ELSE proc[q]
      BY <1>5, <3>1 DEF CgroupKilled
    <3>3. proc[q].st = "live" => Dead(proc[q]) \in ProcRecord /\ Dead(proc[q]).st # "live"
      BY <2>1, DeadFacts
    <3>4. path \in Prefixes(path)
      BY <1>7, DirectoriesFacts DEF Directories
    <3> QED
      BY <2>1, <2>3, <3>2, <3>3, <3>4 DEF ReapedProc
  <2> QED
    BY <2>2, <2>3
<1>10. cg' = CgroupDeleted(path)
  BY <1>5, <1>9
<1>11. cg' \in SUBSET Names
  BY <1>6, <1>10 DEF CgroupDeleted
<1>12. proc' \in [Procs -> ProcRecord]
  <2>1. proc' = [q \in Procs |-> proc'[q]]
    BY <1>5 DEF CgroupKilled
  <2> QED
    BY <1>9, <2>1
<1>13. PICK s : s = [life[d].run EXCEPT ![i] = NoProc]
  OBVIOUS
<1>14. s \in Seq(Procs \cup {NoProc})
  <2>1. PICK u \in Seq(Procs \cup {NoProc}) : u = life[d].run
    BY <1>2
  <2> QED
    BY <1>2, <1>13, <2>1, ExceptSeq
<1>15. PICK r : r = [life[d] EXCEPT !.run = s, !.reaped = life[d].reaped \cup {path}]
  OBVIOUS
<1>16. r \in LifeRecord
  BY <1>6, <1>7, <1>14, <1>15 DEF LifeRecord
<1>17. /\ r.pc # "off" /\ r.config = life[d].config /\ r.own = life[d].own
       /\ r.apps = life[d].apps /\ r.leftover = life[d].leftover
  BY <1>1, <1>6, <1>15 DEF LifeRecord, At
<1>18. life' = [life EXCEPT ![d] = r]
  BY <1>5, <1>6, <1>13, <1>15 DEF LivesTypes, LifeRecord
<1>19. Works(d) /\ life' \in [Lives -> LifeRecord] /\ life'[d] = r
  <2>1. met' = met
    BY <1>1
  <2> QED
    BY <1>1, <1>16, <1>17, <1>18, <2>1, ChangeWorks
<1>20. LivesTypes'
  BY <1>1, <1>11, <1>12, <1>19 DEF LivesTypes
<1>21. ReapEffect(d, i)
  BY <1>3, <1>4, <1>5, <1>7, <1>9, <1>10, <1>13, <1>15, <1>19 DEF ReapEffect
<1> QED
  BY <1>1, <1>2, <1>19, <1>20, <1>21

(* A process ends. *)
LEMMA ExitFacts ==
    ASSUME LivesTypes, NEW p \in Procs, ProcExit(p)
    PROVE  /\ LivesTypes' /\ proc[p].st = "live"
           /\ UNCHANGED <<life, file, main_cg, cg, met>>
           /\ proc' = [proc EXCEPT ![p] = Dead(proc[p])]
<1>1. /\ proc[p].st = "live" /\ UNCHANGED <<life, file, main_cg, cg, met>>
      /\ proc' = [proc EXCEPT ![p] = Dead(proc[p])]
  BY DEF ProcExit
<1>2. proc \in [Procs -> ProcRecord]
  BY DEF LivesTypes
<1>3. Dead(proc[p]) \in ProcRecord
  BY <1>1, <1>2, DeadFacts
<1> QED
  BY <1>1, <1>2, <1>3 DEF LivesTypes

-----------------------------------------------------------------------------
(* The lives follow one another, and know their configuration *)

BaseInv == LivesTypes /\ InOrder /\ Alone /\ \A d \in Lives : Configured(d)

(* At first no life has begun. *)
LEMMA BaseInit == Init => BaseInv
<1> SUFFICES ASSUME Init PROVE BaseInv
  OBVIOUS
<1>1. PICK r : r = [pc |-> "off", config |-> None, own |-> Refused, apps |-> <<>>,
                    run |-> <<>>, sock |-> 1, stale |-> FALSE,
                    leftover |-> {}, reaped |-> {}]
  OBVIOUS
<1>2. r \in LifeRecord
  <2>1. None \in Option(ConfigFiles)
    BY DEF None, Option
  <2> QED
    BY <1>1, <2>1 DEF LifeRecord, Ended
<1>3. life = [d \in Lives |-> r]
  BY <1>1, Zenon DEF Init
<1>4. \A d \in Lives : life[d] = r
  BY <1>3
<1>5. r.pc = "off" /\ r.reaped = {} /\ r.run = <<>>
  BY <1>1
<1>6. Range(Sockets) = {"control", "log"}
  BY SocketsRange
<1>7. LivesTypes
  BY <1>2, <1>3, <1>6 DEF Init, LivesTypes, ProcRecord
<1> QED
  BY <1>4, <1>5, <1>7 DEF BaseInv, InOrder, Alone, Configured, Alive, At, Ended

(* A boot: another daemon that runs meets this one. *)
LEMMA BootBase ==
    ASSUME BaseInv, NEW d \in Lives, Boot(d)
    PROVE  BaseInv'
<1>1. /\ LivesTypes /\ InOrder /\ Alone /\ \A e \in Lives : Configured(e)
      /\ \A e \in Lives : e < d => ~At(e, "off")
      /\ At(d, "off") /\ UNCHANGED <<file, cg, proc>>
  BY DEF BaseInv, Boot
<1>2. PICK others : others = {e \in Lives : Alive(e)}
  OBVIOUS
<1>3. met' = met \cup others \cup (IF others = {} THEN {} ELSE {d})
  BY <1>2 DEF Boot
<1>4. /\ life' \in [Lives -> LifeRecord] /\ main_cg' \in BOOLEAN
      /\ \A e \in Lives : e # d => life'[e] = life[e]
      /\ \/ \E f \in ConfigFiles : BootFails(d, f)
         \/ \E f \in ConfigFiles, own \in Owners :
               \E entries \in Listings(f) : BootsWith(d, f, own, entries)
  BY <1>1, BootFacts
<1>5. life[d] \in LifeRecord /\ ~Alive(d) /\ life[d].run = <<>>
  BY <1>1 DEF LivesTypes, At, Alive, Ended, InOrder
<1>6. life'[d].pc # "off"
  BY <1>4, <1>5 DEF BootFails, BootsWith, LifeRecord
<1>7. met' \in SUBSET Lives
  BY <1>1, <1>2, <1>3 DEF LivesTypes
<1>8. LivesTypes'
  BY <1>1, <1>4, <1>7 DEF LivesTypes
<1>9. \A x, y \in Lives : x < y \/ x = y \/ y < x
  BY DEF Lives
<1>10. InOrder'
  <2> SUFFICES ASSUME NEW e \in Lives, life'[e].pc = "off"
               PROVE  /\ \A g \in Lives : e < g => life'[g].pc = "off"
                      /\ life'[e].reaped = {} /\ life'[e].run = <<>>
    BY DEF InOrder, At
  <2>1. e # d /\ life'[e] = life[e] /\ At(e, "off") /\ d < e
    BY <1>1, <1>4, <1>6, <1>9 DEF At
  <2>2. ASSUME NEW g \in Lives, e < g PROVE life'[g].pc = "off"
    <3>1. g # d
      BY <2>1, <2>2 DEF Lives
    <3> QED
      BY <1>1, <1>4, <2>1, <2>2, <3>1 DEF InOrder, At
  <2> QED
    BY <1>1, <2>1, <2>2 DEF InOrder
<1>11. Alone'
  <2> SUFFICES ASSUME NEW x \in Lives, x \notin met', NEW e \in Lives
               PROVE  /\ life'[x].pc \notin Ended /\ life'[e].pc \notin Ended => x = e
                      /\ life'[x].pc # "off" /\ e < x => life'[e].pc \in Ended
    BY DEF Alone, Alive, At
  <2>1. CASE x # d
    <3>1. x \notin met /\ ~Alive(x) /\ life'[x] = life[x]
      BY <1>2, <1>3, <1>4, <2>1
    <3>2. ASSUME life'[x].pc # "off", e < x PROVE life'[e].pc \in Ended
      <4>1. CASE e # d
        BY <1>1, <1>4, <3>1, <3>2, <4>1 DEF Alone, Alive, At
      <4>2. CASE e = d
        BY <1>1, <3>1, <3>2, <4>2 DEF InOrder, At
      <4> QED
        BY <4>1, <4>2
    <3> QED
      BY <3>1, <3>2 DEF Alive
  <2>2. CASE x = d
    <3>1. others = {}
      BY <1>3, <2>2
    <3>2. e # d => life'[e].pc \in Ended
      BY <1>2, <1>4, <3>1 DEF Alive
    <3>3. e < x => e # d
      BY <2>2 DEF Lives
    <3> QED
      BY <2>2, <3>2, <3>3
  <2> QED
    BY <2>1, <2>2
<1>12. ASSUME NEW e \in Lives PROVE Configured(e)'
  <2>1. CASE e # d
    BY <1>1, <1>4, <2>1 DEF Configured, Alive, At
  <2>2. CASE e = d
    <3>1. CASE \E f \in ConfigFiles : BootFails(d, f)
      <4>1. life'[d].pc = "failed"
        BY <1>5, <3>1 DEF BootFails, LifeRecord
      <4> QED
        BY <2>2, <4>1 DEF Configured, Alive, Ended
    <3>2. CASE \E f \in ConfigFiles, own \in Owners :
                  \E entries \in Listings(f) : BootsWith(d, f, own, entries)
      <4>0. PICK f \in ConfigFiles, own \in Owners :
               \E entries \in Listings(f) : BootsWith(d, f, own, entries)
        BY <3>2
      <4>1. PICK entries \in Listings(f) : BootsWith(d, f, own, entries)
        BY <4>0
      <4>2. /\ life'[d].own = own /\ life'[d].config = <<f>> /\ Loads(f)
            /\ life'[d].apps = AllApps(f, entries) /\ life'[d].pc = "create"
            /\ life'[d].run = <<>>
        BY <1>5, <4>1 DEF BootsWith, LifeRecord
      <4>3. life'[d].apps \in Seq(AppEntries)
        BY <1>4 DEF LifeRecord
      <4>4. Len(life'[d].run) <= Len(life'[d].apps)
        BY <4>2, <4>3
      <4> QED
        BY <2>2, <4>2, <4>4 DEF Configured, At
    <3> QED
      BY <1>4, <3>1, <3>2
  <2> QED
    BY <2>1, <2>2
<1> QED
  BY <1>8, <1>10, <1>11, <1>12 DEF BaseInv

(* Any other step of a daemon. *)
LEMMA WorksBase ==
    ASSUME BaseInv, NEW d \in Lives, Works(d), LivesTypes',
           life'[d].pc \notin Ended =>
              /\ Len(life'[d].run) <= Len(life'[d].apps)
              /\ life'[d].pc # "create" => Len(life'[d].run) = Len(life'[d].apps)
    PROVE  BaseInv'
<1>1. /\ LivesTypes /\ InOrder /\ Alone /\ \A e \in Lives : Configured(e)
      /\ Alive(d) /\ ~At(d, "off") /\ life'[d].pc # "off" /\ met' = met
      /\ \A e \in Lives : e # d => life'[e] = life[e]
  BY DEF BaseInv, Works, Alive, At, Ended
<1>2. InOrder'
  <2> SUFFICES ASSUME NEW e \in Lives, life'[e].pc = "off"
               PROVE  /\ \A g \in Lives : e < g => life'[g].pc = "off"
                      /\ life'[e].reaped = {} /\ life'[e].run = <<>>
    BY DEF InOrder, At
  <2>1. life'[e] = life[e] /\ At(e, "off")
    BY <1>1 DEF At
  <2>2. ASSUME NEW g \in Lives, e < g PROVE life'[g].pc = "off"
    BY <1>1, <2>1, <2>2 DEF InOrder, At
  <2> QED
    BY <1>1, <2>1, <2>2 DEF InOrder
<1>3. Alone'
  <2> SUFFICES ASSUME NEW x \in Lives, x \notin met, NEW e \in Lives
               PROVE  /\ life'[x].pc \notin Ended /\ life'[e].pc \notin Ended => x = e
                      /\ life'[x].pc # "off" /\ e < x => life'[e].pc \in Ended
    BY <1>1 DEF Alone, Alive, At
  <2>1. \A y \in Lives : /\ life'[y].pc \notin Ended => Alive(y)
                         /\ life'[y].pc # "off" => ~At(y, "off")
    BY <1>1 DEF Alive, At
  <2> QED
    BY <1>1, <2>1 DEF Alone
<1>4. ASSUME NEW e \in Lives PROVE Configured(e)'
  <2>1. CASE e # d
    BY <1>1, <2>1 DEF Configured, Alive, At
  <2>2. CASE e = d
    <3>1. Configured(d)
      BY <1>1
    <3>2. /\ life'[d].config = life[d].config /\ life'[d].own = life[d].own
          /\ life'[d].apps = life[d].apps
      BY DEF Works
    <3> QED
      BY <1>1, <2>2, <3>1, <3>2 DEF Configured, Alive, At
  <2> QED
    BY <2>1, <2>2
<1> QED
  BY <1>2, <1>3, <1>4 DEF BaseInv

(* The fields of a daemon that moves on, or ends. *)
LEMMA MovedFields ==
    ASSUME LivesTypes, NEW d \in Lives, NEW pc, NEW sock, NEW stale,
           Moved(d, pc, sock, stale)
    PROVE  /\ life'[d].pc = pc /\ life'[d].sock = sock /\ life'[d].stale = stale
           /\ life'[d].run = life[d].run /\ life'[d].reaped = life[d].reaped
BY DEF Moved, LivesTypes, LifeRecord

(* One that ends keeps what it was. *)
LEMMA EndsFields ==
    ASSUME LivesTypes, NEW d \in Lives, NEW how, NEW procs, Ends(d, how, procs)
    PROVE  /\ life'[d].pc = how
           /\ life'[d].run = life[d].run /\ life'[d].reaped = life[d].reaped
           /\ life'[d].config = life[d].config
           /\ life'[d].leftover = life[d].leftover
BY DEF Ends, LivesTypes, LifeRecord

(* Every step keeps the order of the lives and what they have read. *)
LEMMA BaseNext == BaseInv /\ [Next]_vars => BaseInv'
<1> SUFFICES ASSUME BaseInv, [Next]_vars PROVE BaseInv'
  OBVIOUS
<1>1. LivesTypes /\ \A d \in Lives : Configured(d)
  BY DEF BaseInv
<1>2. ASSUME NEW d \in Lives, NEW how \in Ended, NEW procs, Ends(d, how, procs),
             Works(d), LivesTypes'
      PROVE  BaseInv'
  <2>1. life'[d].pc \in Ended
    BY <1>1, <1>2, EndsFields
  <2> QED
    BY <1>2, <2>1, WorksBase
<1>3. ASSUME NEW d \in Lives, NEW pc, NEW sock, NEW stale, Moved(d, pc, sock, stale),
             Works(d), LivesTypes', Len(life[d].run) = Len(life[d].apps)
      PROVE  BaseInv'
  <2>1. life'[d].run = life[d].run /\ life'[d].apps = life[d].apps
    BY <1>1, <1>3, MovedFields DEF Works
  <2>2. /\ life[d].run \in Seq(Procs \cup {NoProc})
        /\ Len(life[d].run) \in Nat
    BY <1>1, <1>3, ConfiguredFacts DEF Works
  <2>3. Len(life'[d].run) <= Len(life'[d].apps) /\ Len(life'[d].run) = Len(life'[d].apps)
    BY <1>3, <2>1, <2>2
  <2> QED
    BY <1>3, <2>3, WorksBase
<1>4. ASSUME NEW d \in Lives, CreateApp(d) PROVE BaseInv'
  <2>1. /\ Works(d) /\ LivesTypes' /\ At(d, "create")
        /\ Len(life[d].run) + 1 \in 1..Len(life[d].apps)
        /\ CreateEffect(d, Len(life[d].run) + 1)
    BY <1>1, <1>4, CreateFacts
  <2>2. /\ Len(life[d].apps) \in Nat /\ life[d].run \in Seq(Procs \cup {NoProc})
        /\ Len(life[d].run) \in Nat
    BY <1>1, <2>1, ConfiguredFacts DEF Works
  <2>3. ASSUME NEW p \in Procs \cup {NoProc},
               life'[d] = [life[d] EXCEPT !.run = Append(life[d].run, p)]
        PROVE  BaseInv'
    <3>1. life[d] \in LifeRecord
      BY <1>1 DEF LivesTypes
    <3>2. /\ life'[d].run = Append(life[d].run, p) /\ life'[d].apps = life[d].apps
          /\ life'[d].pc = life[d].pc
      BY <2>3, <3>1 DEF LifeRecord
    <3>3. Len(life'[d].run) = Len(life[d].run) + 1
      BY <2>2, <3>2
    <3>4. Len(life'[d].run) <= Len(life'[d].apps) /\ life'[d].pc = "create"
      BY <2>1, <2>2, <3>2, <3>3 DEF At
    <3> QED
      BY <2>1, <3>4, WorksBase
  <2>4. CASE \E procs : Ends(d, "failed", procs)
    <3>1. "failed" \in Ended
      BY DEF Ended
    <3> QED
      BY <1>2, <2>1, <2>4, <3>1
  <2>5. CASE \E p \in Procs \cup {NoProc} :
                life'[d] = [life[d] EXCEPT !.run = Append(life[d].run, p)]
    BY <2>3, <2>5
  <2>6. \/ \E procs : Ends(d, "failed", procs)
        \/ \E p \in Procs \cup {NoProc} :
              life'[d] = [life[d] EXCEPT !.run = Append(life[d].run, p)]
    BY <2>1, Zenon DEF CreateEffect, FreeProcs
  <2> QED
    BY <2>4, <2>5, <2>6
<1>5. ASSUME NEW d \in Lives, AppsCreated(d) PROVE BaseInv'
  <2>1. /\ Works(d) /\ LivesTypes' /\ Len(life[d].run) = Len(life[d].apps)
        /\ Moved(d, "check", 1, life[d].stale)
    BY <1>1, <1>5, CreatedFacts
  <2> QED
    BY <1>3, <2>1
<1>6. ASSUME NEW d \in Lives, Works(d), ~At(d, "create")
      PROVE  Len(life[d].run) = Len(life[d].apps)
  BY <1>1, <1>6, ConfiguredFacts DEF Works
<1>7. /\ "failed" \in Ended /\ "exited" \in Ended /\ "panicked" \in Ended
      /\ "killed" \in Ended
  BY DEF Ended
<1>8. ASSUME NEW d \in Lives, Check(d) PROVE BaseInv'
  <2>1. /\ Works(d) /\ LivesTypes' /\ ~At(d, "create")
        /\ Moved(d, "remove", life[d].sock, file[Socket(d)] # NobodysFile)
    BY <1>1, <1>8, CheckFacts DEF At
  <2> QED
    BY <1>3, <1>6, <2>1
<1>9. ASSUME NEW d \in Lives, RemoveStale(d) PROVE BaseInv'
  <2>1. /\ Works(d) /\ LivesTypes' /\ ~At(d, "create")
        /\ Ends(d, "failed", proc) \/ Moved(d, "bind", life[d].sock, FALSE)
    BY <1>1, <1>9, RemoveFacts DEF At
  <2>2. CASE Ends(d, "failed", proc)
    BY <1>2, <1>7, <2>1, <2>2
  <2>3. CASE Moved(d, "bind", life[d].sock, FALSE)
    BY <1>3, <1>6, <2>1, <2>3
  <2> QED
    BY <2>1, <2>2, <2>3
<1>10. ASSUME NEW d \in Lives, Bind(d) PROVE BaseInv'
  <2>1. /\ Works(d) /\ LivesTypes' /\ ~At(d, "create")
        /\ \/ Ends(d, "failed", proc) \/ Moved(d, "check", 2, life[d].stale)
           \/ Moved(d, "serve", 1, life[d].stale)
    BY <1>1, <1>10, BindFacts DEF At
  <2>2. CASE Ends(d, "failed", proc)
    BY <1>2, <1>7, <2>1, <2>2
  <2>3. CASE Moved(d, "check", 2, life[d].stale)
    BY <1>3, <1>6, <2>1, <2>3
  <2>4. CASE Moved(d, "serve", 1, life[d].stale)
    BY <1>3, <1>6, <2>1, <2>4
  <2> QED
    BY <2>1, <2>2, <2>3, <2>4
<1>11. ASSUME NEW d \in Lives, Works(d), LivesTypes', ~At(d, "create"),
              NEW i \in 1..Len(life[d].run), NEW p \in Procs \cup {NoProc},
              life'[d].run = [life[d].run EXCEPT ![i] = p]
       PROVE  BaseInv'
  <2>1. PICK u \in Seq(Procs \cup {NoProc}) : u = life[d].run
    BY <1>1, <1>11, ConfiguredFacts DEF Works
  <2>2. Len([u EXCEPT ![i] = p]) = Len(u) /\ Len(u) \in Nat
    BY <1>11, <2>1, ExceptSeq
  <2>3. Len(life'[d].run) = Len(life[d].run) /\ life'[d].apps = life[d].apps
    BY <1>11, <2>1, <2>2 DEF Works
  <2>4. Len(life'[d].run) <= Len(life'[d].apps) /\ Len(life'[d].run) = Len(life'[d].apps)
    BY <1>6, <1>11, <2>1, <2>2, <2>3
  <2> QED
    BY <1>11, <2>4, WorksBase
<1>12. ASSUME NEW d \in Lives, NEW i \in DOMAIN life[d].run, Start(d, i) PROVE BaseInv'
  <2>1. /\ Works(d) /\ LivesTypes' /\ ~At(d, "create") /\ i \in 1..Len(life[d].run)
        /\ StartEffect(d, i)
    BY <1>1, <1>12, StartFacts DEF At
  <2>2. PICK p \in FreeProcs :
           life'[d] = [life[d] EXCEPT !.run = [life[d].run EXCEPT ![i] = p]]
    BY <2>1 DEF StartEffect
  <2>3. life'[d].run = [life[d].run EXCEPT ![i] = p] /\ p \in Procs
    BY <1>1, <2>2 DEF LivesTypes, LifeRecord, FreeProcs
  <2> QED
    BY <1>11, <2>1, <2>3
<1>13. ASSUME NEW d \in Lives, NEW i \in DOMAIN life[d].run, Reap(d, i) PROVE BaseInv'
  <2>1. /\ Works(d) /\ LivesTypes' /\ ~At(d, "create") /\ i \in 1..Len(life[d].run)
        /\ ReapEffect(d, i)
    BY <1>1, <1>13, ReapFacts DEF At
  <2>2. life'[d].run = [life[d].run EXCEPT ![i] = NoProc]
    BY <1>1, <2>1 DEF LivesTypes, LifeRecord, ReapEffect
  <2> QED
    BY <1>11, <2>1, <2>2
<1>14. ASSUME NEW d \in Lives, Quit(d) PROVE BaseInv'
  <2>1. /\ Works(d) /\ LivesTypes' /\ ~At(d, "create")
        /\ Moved(d, "unlink", life[d].sock, life[d].stale)
    BY <1>1, <1>14, QuitFacts DEF At
  <2> QED
    BY <1>3, <1>6, <2>1
<1>15. ASSUME NEW d \in Lives, Unlink(d) PROVE BaseInv'
  <2>1. /\ Works(d) /\ LivesTypes' /\ ~At(d, "create")
        /\ Moved(d, "unlink", 2, life[d].stale) \/ Moved(d, "rmdir", 1, life[d].stale)
    BY <1>1, <1>15, UnlinkFacts DEF At
  <2> QED
    BY <1>3, <1>6, <2>1
<1>16. ASSUME NEW d \in Lives, DeleteMain(d) PROVE BaseInv'
  BY <1>1, <1>2, <1>7, <1>16, DeleteMainFacts
<1>17. ASSUME NEW d \in Lives, Crash(d) PROVE BaseInv'
  BY <1>1, <1>2, <1>7, <1>17, CrashFacts
<1>18. ASSUME LivesTypes', UNCHANGED <<life, met>> PROVE BaseInv'
  BY <1>18 DEF BaseInv, InOrder, Alone, Configured, Alive, At
<1>19. ASSUME NEW p \in Procs, ProcExit(p) PROVE BaseInv'
  BY <1>1, <1>18, <1>19, ExitFacts
<1>20. CASE UNCHANGED vars
  <2>1. LivesTypes' /\ UNCHANGED <<life, met>>
    BY <1>1, <1>20 DEF LivesTypes, vars
  <2> QED
    BY <1>18, <2>1
<1> QED
  BY <1>4, <1>5, <1>8, <1>9, <1>10, <1>12, <1>13, <1>14, <1>15, <1>16, <1>17,
     <1>19, <1>20, BootBase DEF Next

-----------------------------------------------------------------------------
(* Every application that runs has a process of its own *)

(* A process goes on, or waits for its parent. *)
Kept(q) ==
    /\ proc'[q].st # "free" /\ proc'[q].life = proc[q].life
    /\ proc'[q].path = proc[q].path /\ proc'[q].ids = proc[q].ids

(* What a daemon runs after a step is what it ran before. *)
RunKept(e) ==
    life'[e].pc \notin Ended =>
       \A j \in DOMAIN life'[e].run : life'[e].run[j] # NoProc =>
          /\ j \in DOMAIN life[e].run /\ life'[e].run[j] = life[e].run[j]
          /\ Kept(life[e].run[j])

(* The processes of a daemon that runs go on, except perhaps p. *)
AllKept(e, p) ==
    life'[e].pc \notin Ended =>
       \A q \in Procs : q # p /\ proc[q].st # "free" /\ proc[q].life = e => Kept(q)

SameInputs(e) ==
    /\ life'[e].config = life[e].config /\ life'[e].own = life[e].own
    /\ life'[e].apps = life[e].apps
    /\ life'[e].pc \notin Ended => Alive(e)
    /\ life'[e].pc = "create" => At(e, "create")

(* A daemon that starts nothing. *)
LEMMA KeepsRun ==
    ASSUME NEW e \in Lives, RunsOwn(e), RunKept(e), SameInputs(e)
    PROVE  RunsOwn(e)'
<1> SUFFICES ASSUME life'[e].pc \notin Ended PROVE RunsOwn(e)'
  BY DEF RunsOwn, Alive
<1>1. Alive(e)
  BY DEF SameInputs
<1>2. ASSUME NEW j \in DOMAIN life'[e].run, life'[e].run[j] # NoProc
      PROVE  /\ j \in DOMAIN life[e].run /\ life'[e].run[j] = life[e].run[j]
             /\ j \in Running(e)
             /\ Kept(life[e].run[j])
  BY <1>2 DEF RunKept, Running
<1>3. ASSUME NEW i \in DOMAIN life'[e].run, NEW j \in DOMAIN life'[e].run,
             life'[e].run[i] = life'[e].run[j], life'[e].run[i] # NoProc
      PROVE  i = j
  <2>1. /\ i \in DOMAIN life[e].run /\ life'[e].run[i] = life[e].run[i]
        /\ j \in DOMAIN life[e].run /\ life'[e].run[j] = life[e].run[j]
    BY <1>2, <1>3
  <2> QED
    BY <1>1, <1>3, <2>1 DEF RunsOwn
<1>4. \A i \in DOMAIN life'[e].run : Params(e, i)' = Params(e, i)
  BY DEF Params, SameInputs
<1>5. ASSUME NEW i \in Running(e)'
      PROVE  LET r == proc'[life'[e].run[i]] IN
             /\ r.st # "free" /\ r.life = e /\ r.path = Params(e, i)'.name
             /\ r.ids = ChildIds(life'[e].own, Params(e, i)'.uid, Params(e, i)'.gid)
             /\ life'[e].pc = "create" => life'[e].apps[i].autostart
  <2>1. i \in DOMAIN life'[e].run /\ life'[e].run[i] # NoProc
    BY <1>5 DEF Running
  <2>2. PICK q : q = life[e].run[i]
    OBVIOUS
  <2>3. life'[e].run[i] = q /\ i \in Running(e) /\ Kept(q)
    BY <1>2, <2>1, <2>2
  <2>4. /\ proc[q].st # "free" /\ proc[q].life = e /\ proc[q].path = Params(e, i).name
        /\ proc[q].ids = ChildIds(life[e].own, Params(e, i).uid, Params(e, i).gid)
        /\ At(e, "create") => life[e].apps[i].autostart
    BY <1>1, <2>2, <2>3 DEF RunsOwn
  <2> QED
    BY <1>4, <2>1, <2>3, <2>4 DEF Kept, SameInputs
<1> QED
  BY <1>3, <1>5 DEF RunsOwn, At

(* The same, when its list of applications has not changed. *)
LEMMA UntouchedRun ==
    ASSUME LivesTypes, NEW e \in Lives, RunsOwn(e), SameInputs(e), NEW p, AllKept(e, p),
           life'[e].pc \notin Ended => life'[e].run = life[e].run,
           \A j \in DOMAIN life[e].run : life[e].run[j] # NoProc => life[e].run[j] # p
    PROVE  RunsOwn(e)'
<1>1. ASSUME life'[e].pc \notin Ended, NEW j \in DOMAIN life'[e].run,
             life'[e].run[j] # NoProc
      PROVE  /\ j \in DOMAIN life[e].run /\ life'[e].run[j] = life[e].run[j]
             /\ Kept(life[e].run[j])
  <2>1. /\ Alive(e) /\ j \in Running(e) /\ life[e].run[j] # p
        /\ j \in DOMAIN life[e].run /\ life'[e].run[j] = life[e].run[j]
    BY <1>1 DEF SameInputs, Running
  <2>2. life[e].run[j] \in Procs
    <3>1. life[e].run \in Seq(Procs \cup {NoProc})
      BY DEF LivesTypes, LifeRecord
    <3> QED
      BY <1>1, <2>1, <3>1
  <2>3. proc[life[e].run[j]].st # "free" /\ proc[life[e].run[j]].life = e
    BY <2>1 DEF RunsOwn
  <2> QED
    BY <1>1, <2>1, <2>2, <2>3 DEF AllKept
<1>2. RunKept(e)
  BY <1>1 DEF RunKept
<1> QED
  BY <1>2, KeepsRun

(* A daemon that starts an application, as its own process p. *)
SpawnsAt(d, i, p) ==
    /\ p \in FreeProcs /\ proc' = [proc EXCEPT ![p] = Spawned(d, Params(d, i))]
    /\ \A j \in DOMAIN life'[d].run :
          \/ j = i /\ life'[d].run[j] = p
          \/ j # i /\ j \in DOMAIN life[d].run /\ life'[d].run[j] = life[d].run[j]

(* The processes in use, when another one is started. *)
LEMMA SpawnKeeps ==
    ASSUME LivesTypes, NEW d \in Lives, NEW i, NEW p, SpawnsAt(d, i, p)
    PROVE  /\ p \in Procs /\ proc[p].st = "free" /\ proc'[p] = Spawned(d, Params(d, i))
           /\ \A q \in Procs : q # p => proc'[q] = proc[q]
           /\ \A q \in Procs : proc[q].st # "free" => Kept(q)
BY DEF LivesTypes, SpawnsAt, FreeProcs, Kept

(* It is one more of the processes that run as configured. *)
LEMMA SpawnRun ==
    ASSUME LivesTypes, NEW d \in Lives, Configured(d), Alive(d), RunsOwn(d),
           SameInputs(d), NEW i \in 1..Len(life[d].apps), NEW p, SpawnsAt(d, i, p),
           At(d, "create") => life[d].apps[i].autostart
    PROVE  RunsOwn(d)'
<1>1. /\ p \in Procs /\ proc[p].st = "free" /\ proc'[p] = Spawned(d, Params(d, i))
      /\ \A q \in Procs : q # p => proc'[q] = proc[q]
  BY SpawnKeeps
<1>2. ASSUME NEW j \in DOMAIN life'[d].run, life'[d].run[j] # NoProc, j # i
      PROVE  /\ j \in Running(d) /\ life'[d].run[j] = life[d].run[j]
             /\ life[d].run[j] \in Procs /\ life[d].run[j] # p
             /\ proc'[life[d].run[j]] = proc[life[d].run[j]]
  <2>1. /\ j \in DOMAIN life[d].run /\ life'[d].run[j] = life[d].run[j]
        /\ j \in Running(d)
    BY <1>2 DEF SpawnsAt, Running
  <2>2. life[d].run[j] \in Procs
    <3>1. life[d].run \in Seq(Procs \cup {NoProc})
      BY DEF LivesTypes, LifeRecord
    <3> QED
      BY <1>2, <2>1, <3>1
  <2>3. proc[life[d].run[j]].st # "free"
    BY <2>1 DEF RunsOwn
  <2> QED
    BY <1>1, <2>1, <2>2, <2>3
<1>3. ASSUME NEW j \in DOMAIN life'[d].run, NEW k \in DOMAIN life'[d].run,
             life'[d].run[j] = life'[d].run[k], life'[d].run[j] # NoProc
      PROVE  j = k
  <2>1. CASE j = i /\ k # i
    <3>1. life'[d].run[j] = p /\ life'[d].run[k] # p
      BY <1>2, <1>3, <2>1 DEF SpawnsAt
    <3> QED
      BY <1>3, <3>1
  <2>2. CASE k = i /\ j # i
    <3>1. life'[d].run[k] = p /\ life'[d].run[j] # p
      BY <1>2, <1>3, <2>2 DEF SpawnsAt
    <3> QED
      BY <1>3, <3>1
  <2>3. CASE j # i /\ k # i
    <3>1. /\ j \in Running(d) /\ life'[d].run[j] = life[d].run[j]
          /\ k \in Running(d) /\ life'[d].run[k] = life[d].run[k]
      BY <1>2, <1>3, <2>3
    <3> QED
      BY <1>3, <3>1 DEF RunsOwn, Running
  <2> QED
    BY <2>1, <2>2, <2>3
<1>4. \A j \in DOMAIN life'[d].run : Params(d, j)' = Params(d, j)
  BY DEF Params, SameInputs
<1>5. ASSUME NEW j \in Running(d)'
      PROVE  LET r == proc'[life'[d].run[j]] IN
             /\ r.st # "free" /\ r.life = d /\ r.path = Params(d, j)'.name
             /\ r.ids = ChildIds(life'[d].own, Params(d, j)'.uid, Params(d, j)'.gid)
             /\ life'[d].pc = "create" => life'[d].apps[j].autostart
  <2>1. j \in DOMAIN life'[d].run /\ life'[d].run[j] # NoProc
    BY <1>5 DEF Running
  <2>2. CASE j = i
    <3>1. life'[d].run[j] = p
      BY <2>1, <2>2 DEF SpawnsAt
    <3>2. PICK r : r = Spawned(d, Params(d, i))
      OBVIOUS
    <3>3. /\ r.st \in {"live", "zombie"} /\ r.life = d /\ r.path = Params(d, i).name
          /\ r.ids = ChildIds(life[d].own, Params(d, i).uid, Params(d, i).gid)
      BY <3>2, SpawnedFacts
    <3>4. proc'[life'[d].run[j]] = r
      BY <1>1, <3>1, <3>2
    <3> QED
      BY <1>4, <2>1, <2>2, <3>3, <3>4 DEF SameInputs
  <2>3. CASE j # i
    <3>1. PICK q : q = life[d].run[j]
      OBVIOUS
    <3>2. j \in Running(d) /\ life'[d].run[j] = q /\ proc'[q] = proc[q]
      BY <1>2, <2>1, <2>3, <3>1
    <3>3. /\ proc[q].st # "free" /\ proc[q].life = d /\ proc[q].path = Params(d, j).name
          /\ proc[q].ids = ChildIds(life[d].own, Params(d, j).uid, Params(d, j).gid)
          /\ At(d, "create") => life[d].apps[j].autostart
      BY <3>1, <3>2 DEF RunsOwn
    <3> QED
      BY <1>4, <2>1, <3>2, <3>3 DEF SameInputs
  <2> QED
    BY <2>2, <2>3
<1> QED
  BY <1>3, <1>5 DEF RunsOwn, At

OwnedInv == ProcsPlaced /\ \A d \in Lives : RunsOwn(d)

(* The daemons that a step of daemon d does not touch. *)
LEMMA OthersRun ==
    ASSUME LivesTypes, NEW d \in Lives, Works(d), NEW e \in Lives, e # d, RunsOwn(e),
           AllKept(e, NoProc)
    PROVE  RunsOwn(e)'
<1>1. life'[e] = life[e]
  BY DEF Works
<1>2. SameInputs(e)
  BY <1>1 DEF SameInputs, Alive, At
<1> QED
  BY <1>1, <1>2, UntouchedRun

(* A daemon moves on: nothing is started, and nothing ends. *)
LEMMA MovedOwned ==
    ASSUME LivesTypes, OwnedInv, NEW d \in Lives, Works(d), NEW pc, NEW sock, NEW stale,
           Moved(d, pc, sock, stale), pc \notin Ended, pc # "create",
           UNCHANGED <<cg, proc>>
    PROVE  OwnedInv'
<1>1. /\ life'[d].pc = pc /\ life'[d].run = life[d].run
      /\ \A e \in Lives : e # d => life'[e] = life[e]
      /\ Alive(d)
  BY MovedFields DEF Works
<1>2. ASSUME NEW e \in Lives PROVE AllKept(e, NoProc)
  BY DEF AllKept, Kept
<1>3. SameInputs(d)
  BY <1>1 DEF SameInputs, Works
<1>4. RunsOwn(d)'
  BY <1>1, <1>2, <1>3, UntouchedRun DEF OwnedInv
<1>5. ASSUME NEW e \in Lives, e # d PROVE RunsOwn(e)'
  BY <1>2, <1>5, OthersRun DEF OwnedInv
<1>6. \A e \in Lives : Alive(e) => life'[e].pc \notin Ended
  BY <1>1 DEF Alive
<1>7. ProcsPlaced'
  BY <1>6 DEF OwnedInv, ProcsPlaced, Alive
<1> QED
  BY <1>4, <1>5, <1>7 DEF OwnedInv

(* A daemon ends, perhaps right after it started a last process. *)
LEMMA EndsOwned ==
    ASSUME LivesTypes, OwnedInv, NEW d \in Lives, Works(d), NEW how \in Ended,
           NEW procs \in [Procs -> ProcRecord], Ends(d, how, procs),
           cg \subseteq cg',
           \A q \in Procs :
              \/ procs[q] = proc[q]
              \/ /\ proc[q].st = "free" /\ procs[q].life = d
                 /\ procs[q].path \in cg'
    PROVE  OwnedInv'
<1>1. /\ life'[d].pc = how /\ Alive(d)
      /\ \A e \in Lives : e # d => life'[e] = life[e]
  BY EndsFields DEF Works
<1>2. \A q \in Procs :
         proc'[q] = IF procs[q].life = d /\ procs[q].st = "zombie"
                    THEN FreeProc ELSE procs[q]
  BY EndsFacts
<1>3. ASSUME NEW e \in Lives, e # d PROVE RunsOwn(e)'
  <2>1. ASSUME NEW q \in Procs, proc[q].st # "free", proc[q].life = e PROVE Kept(q)
    <3>1. procs[q] = proc[q]
      BY <2>1
    <3>2. proc'[q] = proc[q]
      BY <1>2, <1>3, <2>1, <3>1
    <3> QED
      BY <2>1, <3>2 DEF Kept
  <2>2. AllKept(e, NoProc)
    BY <2>1 DEF AllKept
  <2> QED
    BY <1>3, <2>2, OthersRun DEF OwnedInv
<1>4. RunsOwn(d)'
  BY <1>1 DEF RunsOwn, Alive
<1>5. ASSUME NEW q \in Procs
      PROVE  /\ proc'[q].st = "live" => proc'[q].path \in cg'
             /\ proc'[q].st = "zombie" =>
                   proc'[q].life \in Lives /\ life'[proc'[q].life].pc \notin Ended
  <2>1. CASE procs[q].life = d /\ procs[q].st = "zombie"
    BY <1>2, <2>1 DEF FreeProc
  <2>2. CASE ~(procs[q].life = d /\ procs[q].st = "zombie")
    <3>1. proc'[q] = procs[q]
      BY <1>2, <2>2
    <3>2. CASE procs[q] = proc[q]
      <4>1. /\ proc[q].st = "live" => proc[q].path \in cg
            /\ proc[q].st = "zombie" => proc[q].life \in Lives /\ Alive(proc[q].life)
        BY DEF OwnedInv, ProcsPlaced
      <4> QED
        BY <1>1, <2>2, <3>1, <3>2, <4>1 DEF Alive
    <3>3. CASE proc[q].st = "free" /\ procs[q].life = d /\ procs[q].path \in cg'
      BY <2>2, <3>1, <3>3
    <3> QED
      BY <3>2, <3>3
  <2> QED
    BY <2>1, <2>2
<1>6. ProcsPlaced'
  BY <1>5 DEF ProcsPlaced, Alive
<1> QED
  BY <1>3, <1>4, <1>6 DEF OwnedInv

(* A daemon starts an application. *)
LEMMA SpawnOwned ==
    ASSUME LivesTypes, OwnedInv, NEW d \in Lives, Configured(d), Works(d),
           NEW i \in 1..Len(life[d].apps), NEW p, SpawnsAt(d, i, p),
           life'[d].pc = life[d].pc, At(d, "create") => life[d].apps[i].autostart,
           cg' = cg \cup Directories(Params(d, i).name)
    PROVE  OwnedInv'
<1>1. Alive(d) /\ \A e \in Lives : e # d => life'[e] = life[e]
  BY DEF Works
<1>2. /\ p \in Procs /\ proc[p].st = "free" /\ proc'[p] = Spawned(d, Params(d, i))
      /\ \A q \in Procs : q # p => proc'[q] = proc[q]
      /\ \A q \in Procs : proc[q].st # "free" => Kept(q)
  BY SpawnKeeps
<1>3. SameInputs(d)
  BY <1>1 DEF SameInputs, Works, At
<1>4. RunsOwn(d)'
  BY <1>1, <1>3, SpawnRun DEF OwnedInv
<1>5. ASSUME NEW e \in Lives, e # d PROVE RunsOwn(e)'
  <2>1. AllKept(e, NoProc)
    BY <1>2 DEF AllKept
  <2> QED
    BY <1>5, <2>1, OthersRun DEF OwnedInv
<1>6. \A e \in Lives : Alive(e) => life'[e].pc \notin Ended
  BY <1>1 DEF Alive
<1>7. PICK r : r = Spawned(d, Params(d, i))
  OBVIOUS
<1>8. r.life = d /\ r.path \in cg'
  <2>1. r.life = d /\ r.path = Params(d, i).name /\ Params(d, i).name \in Names
    BY <1>1, <1>7, SpawnedFacts
  <2>2. Params(d, i).name \in Directories(Params(d, i).name)
    BY <2>1, DirectoriesFacts
  <2> QED
    BY <2>1, <2>2
<1>9. ASSUME NEW q \in Procs
      PROVE  /\ proc'[q].st = "live" => proc'[q].path \in cg'
             /\ proc'[q].st = "zombie" =>
                   proc'[q].life \in Lives /\ life'[proc'[q].life].pc \notin Ended
  <2>1. CASE q = p
    BY <1>1, <1>2, <1>6, <1>7, <1>8, <2>1
  <2>2. CASE q # p
    <3>1. /\ proc[q].st = "live" => proc[q].path \in cg
          /\ proc[q].st = "zombie" => proc[q].life \in Lives /\ Alive(proc[q].life)
      BY DEF OwnedInv, ProcsPlaced
    <3> QED
      BY <1>2, <1>6, <2>2, <3>1
  <2> QED
    BY <2>1, <2>2
<1>10. ProcsPlaced'
  BY <1>9 DEF ProcsPlaced, Alive
<1> QED
  BY <1>4, <1>5, <1>10 DEF OwnedInv

(* The last process that a turn of the loop may start before it fails. *)
LastSpawned(d, i, procs) ==
    /\ procs \in [Procs -> ProcRecord]
    /\ \A q \in Procs :
          \/ procs[q] = proc[q]
          \/ /\ proc[q].st = "free" /\ procs[q].life = d
             /\ procs[q].path \in Directories(Params(d, i).name)

(* It is in the cgroup of its application. *)
LEMMA SpawnedProcs ==
    ASSUME LivesTypes, NEW d \in Lives, Configured(d), Alive(d),
           NEW i \in 1..Len(life[d].apps), NEW p \in FreeProcs, NEW procs,
           procs = [proc EXCEPT ![p] = Spawned(d, Params(d, i))]
    PROVE  LastSpawned(d, i, procs)
<1>1. p \in Procs /\ proc[p].st = "free" /\ proc \in [Procs -> ProcRecord]
  BY DEF FreeProcs, LivesTypes
<1>2. PICK r : r = Spawned(d, Params(d, i))
  OBVIOUS
<1>3. /\ r \in ProcRecord /\ r.life = d /\ r.path = Params(d, i).name
      /\ Params(d, i).name \in Names
  BY <1>2, SpawnedFacts
<1>4. r.path \in Directories(Params(d, i).name)
  BY <1>3, DirectoriesFacts
<1> QED
  BY <1>1, <1>2, <1>3, <1>4 DEF LastSpawned

(* The list of applications, one longer. *)
LEMMA AppendRun ==
    ASSUME LivesTypes, NEW d \in Lives, NEW p \in Procs \cup {NoProc},
           life'[d] = [life[d] EXCEPT !.run = Append(life[d].run, p)]
    PROVE  /\ life'[d].pc = life[d].pc /\ life'[d].reaped = life[d].reaped
           /\ life'[d].sock = life[d].sock /\ life'[d].stale = life[d].stale
           /\ \A j \in DOMAIN life'[d].run :
                 \/ j = Len(life[d].run) + 1 /\ life'[d].run[j] = p
                 \/ /\ j # Len(life[d].run) + 1 /\ j \in DOMAIN life[d].run
                    /\ life'[d].run[j] = life[d].run[j]
           /\ \A j \in DOMAIN life[d].run :
                 j \in DOMAIN life'[d].run /\ life'[d].run[j] = life[d].run[j]
           /\ Len(life[d].run) + 1 \in DOMAIN life'[d].run
           /\ life'[d].run[Len(life[d].run) + 1] = p
<1>1. life[d] \in LifeRecord
  BY DEF LivesTypes
<1>2. PICK u \in Seq(Procs \cup {NoProc}) : u = life[d].run
  BY <1>1 DEF LifeRecord
<1>3. life'[d].run = Append(u, p)
  BY <1>1, <1>2 DEF LifeRecord
<1>4. Len(u) \in Nat /\ DOMAIN u = 1..Len(u) /\ DOMAIN Append(u, p) = 1..(Len(u) + 1)
  BY <1>2, AppendProperties, LenProperties
<1>5. \A j \in 1..Len(u) : Append(u, p)[j] = u[j]
  BY <1>2, AppendProperties
<1>6. Append(u, p)[Len(u) + 1] = p
  BY <1>2, AppendProperties
<1>7. \A j \in 1..(Len(u) + 1) : j = Len(u) + 1 \/ (j # Len(u) + 1 /\ j \in 1..Len(u))
  BY <1>4
<1>8. \A j \in 1..Len(u) : j \in 1..(Len(u) + 1)
  BY <1>4
<1>9. Len(u) + 1 \in 1..(Len(u) + 1)
  BY <1>4
<1>10. /\ life'[d].pc = life[d].pc /\ life'[d].reaped = life[d].reaped
       /\ life'[d].sock = life[d].sock /\ life'[d].stale = life[d].stale
  BY <1>1 DEF LifeRecord
<1> QED
  BY <1>2, <1>3, <1>4, <1>5, <1>6, <1>7, <1>8, <1>9, <1>10

(* The list of applications, with another process for one of them. *)
LEMMA ExceptRun ==
    ASSUME LivesTypes, NEW d \in Lives, NEW p \in Procs \cup {NoProc},
           NEW i \in 1..Len(life[d].run),
           life'[d].run = [life[d].run EXCEPT ![i] = p]
    PROVE  /\ DOMAIN life'[d].run = DOMAIN life[d].run /\ i \in DOMAIN life[d].run
           /\ life'[d].run[i] = p
           /\ \A j \in DOMAIN life'[d].run :
                 \/ j = i /\ life'[d].run[j] = p
                 \/ j # i /\ j \in DOMAIN life[d].run /\ life'[d].run[j] = life[d].run[j]
<1>1. life[d].run \in Seq(Procs \cup {NoProc})
  BY DEF LivesTypes, LifeRecord
<1>2. i \in DOMAIN life[d].run
  BY <1>1, LenProperties
<1> QED
  BY <1>2

(* One turn of the loop that creates the applications. *)
LEMMA CreateOwned ==
    ASSUME LivesTypes, OwnedInv, NEW d \in Lives, Configured(d), CreateApp(d)
    PROVE  OwnedInv'
<1>1. PICK n : n = Len(life[d].run) + 1
  OBVIOUS
<1>2. /\ Works(d) /\ At(d, "create") /\ Alive(d)
      /\ n \in 1..Len(life[d].apps) /\ CreateEffect(d, n)
  BY <1>1, CreateFacts DEF Works
<1>3. "failed" \in Ended /\ proc \in [Procs -> ProcRecord]
  BY DEF Ended, LivesTypes
<1>4. CASE Ends(d, "failed", proc) /\ UNCHANGED <<main_cg, cg>>
  <2>1. cg \subseteq cg' /\ \A q \in Procs : proc[q] = proc[q]
    BY <1>4
  <2> QED
    BY <1>2, <1>3, <1>4, <2>1, EndsOwned
<1>5. CASE /\ life'[d] = [life[d] EXCEPT !.run = Append(life[d].run, NoProc)]
           /\ UNCHANGED <<proc, main_cg, cg>>
  <2>1. NoProc \in Procs \cup {NoProc}
    OBVIOUS
  <2>2. /\ life'[d].pc = life[d].pc
        /\ \A j \in DOMAIN life'[d].run :
              \/ life'[d].run[j] = NoProc
              \/ j \in DOMAIN life[d].run /\ life'[d].run[j] = life[d].run[j]
    BY <1>5, <2>1, AppendRun
  <2>3. SameInputs(d)
    BY <1>2, <2>2 DEF SameInputs, Works, At
  <2>4. \A q \in Procs : proc[q].st # "free" => Kept(q)
    BY <1>5 DEF Kept
  <2>5. RunKept(d)
    <3>1. ASSUME NEW j \in DOMAIN life'[d].run, life'[d].run[j] # NoProc
          PROVE  /\ j \in DOMAIN life[d].run /\ life'[d].run[j] = life[d].run[j]
                 /\ Kept(life[d].run[j])
      <4>1. j \in Running(d) /\ life'[d].run[j] = life[d].run[j]
        BY <2>2, <3>1 DEF Running
      <4>2. life[d].run[j] \in Procs
        <5>1. life[d].run \in Seq(Procs \cup {NoProc})
          BY DEF LivesTypes, LifeRecord
        <5> QED
          BY <4>1, <5>1 DEF Running
      <4>3. proc[life[d].run[j]].st # "free"
        BY <1>2, <4>1 DEF OwnedInv, RunsOwn
      <4> QED
        BY <2>4, <4>1, <4>2, <4>3 DEF Running
    <3> QED
      BY <3>1 DEF RunKept
  <2>6. RunsOwn(d)'
    BY <2>3, <2>5, KeepsRun DEF OwnedInv
  <2>7. ASSUME NEW e \in Lives, e # d PROVE RunsOwn(e)'
    <3>1. AllKept(e, NoProc)
      BY <2>4 DEF AllKept
    <3> QED
      BY <1>2, <2>7, <3>1, OthersRun DEF OwnedInv
  <2>8. \A e \in Lives : Alive(e) => life'[e].pc \notin Ended
    BY <1>2, <2>2 DEF Alive, Works
  <2>9. ProcsPlaced'
    BY <1>5, <2>8 DEF OwnedInv, ProcsPlaced, Alive
  <2> QED
    BY <2>6, <2>7, <2>9 DEF OwnedInv
<1>6. CASE /\ life[d].apps[n].autostart
           /\ main_cg' = TRUE /\ cg' = cg \cup Directories(Params(d, n).name)
           /\ \E p \in FreeProcs :
                 \/ /\ life'[d] = [life[d] EXCEPT !.run = Append(life[d].run, p)]
                    /\ proc' = [proc EXCEPT ![p] = Spawned(d, Params(d, n))]
                 \/ Ends(d, "failed", [proc EXCEPT ![p] = Spawned(d, Params(d, n))])
  <2>1. PICK p \in FreeProcs :
           \/ /\ life'[d] = [life[d] EXCEPT !.run = Append(life[d].run, p)]
              /\ proc' = [proc EXCEPT ![p] = Spawned(d, Params(d, n))]
           \/ Ends(d, "failed", [proc EXCEPT ![p] = Spawned(d, Params(d, n))])
    BY <1>6
  <2>2. CASE /\ life'[d] = [life[d] EXCEPT !.run = Append(life[d].run, p)]
             /\ proc' = [proc EXCEPT ![p] = Spawned(d, Params(d, n))]
    <3>1. p \in Procs \cup {NoProc}
      BY DEF FreeProcs
    <3>2. life'[d].pc = life[d].pc /\ SpawnsAt(d, n, p)
      BY <1>1, <2>2, <3>1, AppendRun DEF SpawnsAt
    <3> QED
      BY <1>2, <1>6, <3>2, SpawnOwned
  <2>3. CASE Ends(d, "failed", [proc EXCEPT ![p] = Spawned(d, Params(d, n))])
    <3>1. PICK procs : procs = [proc EXCEPT ![p] = Spawned(d, Params(d, n))]
      OBVIOUS
    <3>2. LastSpawned(d, n, procs)
      BY <1>2, <3>1, SpawnedProcs
    <3>3. \A q \in Procs :
             \/ procs[q] = proc[q]
             \/ proc[q].st = "free" /\ procs[q].life = d /\ procs[q].path \in cg'
      BY <1>6, <3>2 DEF LastSpawned
    <3>4. /\ cg \subseteq cg' /\ Ends(d, "failed", procs)
          /\ procs \in [Procs -> ProcRecord]
      BY <1>6, <2>3, <3>1, <3>2 DEF LastSpawned
    <3> QED
      BY <1>2, <1>3, <3>3, <3>4, EndsOwned
  <2> QED
    BY <2>1, <2>2, <2>3
<1>7. CreateEffect(d, n) =>
         \/ Ends(d, "failed", proc) /\ UNCHANGED <<main_cg, cg>>
         \/ /\ life'[d] = [life[d] EXCEPT !.run = Append(life[d].run, NoProc)]
            /\ UNCHANGED <<proc, main_cg, cg>>
         \/ /\ life[d].apps[n].autostart
            /\ main_cg' = TRUE /\ cg' = cg \cup Directories(Params(d, n).name)
            /\ \E p \in FreeProcs :
                  \/ /\ life'[d] = [life[d] EXCEPT !.run = Append(life[d].run, p)]
                     /\ proc' = [proc EXCEPT ![p] = Spawned(d, Params(d, n))]
                  \/ Ends(d, "failed", [proc EXCEPT ![p] = Spawned(d, Params(d, n))])
  BY Zenon DEF CreateEffect
<1> QED
  BY <1>2, <1>4, <1>5, <1>6, <1>7, Zenon

(* A start for a client, or for a restart. *)
LEMMA StartSpawns ==
    ASSUME LivesTypes, NEW d \in Lives, Configured(d), NEW i \in DOMAIN life[d].run,
           Start(d, i)
    PROVE  /\ life'[d].pc = life[d].pc /\ life'[d].reaped = life[d].reaped
           /\ life'[d].sock = life[d].sock
           /\ DOMAIN life'[d].run = DOMAIN life[d].run
           /\ \E p \in FreeProcs : life'[d].run[i] = p /\ SpawnsAt(d, i, p)
<1>1. i \in 1..Len(life[d].run) /\ StartEffect(d, i)
  BY StartFacts
<1>2. PICK p \in FreeProcs :
         /\ life'[d] = [life[d] EXCEPT !.run = [life[d].run EXCEPT ![i] = p]]
         /\ proc' = [proc EXCEPT ![p] = Spawned(d, Params(d, i))]
  BY <1>1 DEF StartEffect
<1>3. /\ life'[d].run = [life[d].run EXCEPT ![i] = p] /\ p \in Procs \cup {NoProc}
      /\ life'[d].pc = life[d].pc /\ life'[d].reaped = life[d].reaped
      /\ life'[d].sock = life[d].sock
  BY <1>2 DEF LivesTypes, LifeRecord, FreeProcs
<1>4. /\ DOMAIN life'[d].run = DOMAIN life[d].run /\ life'[d].run[i] = p
      /\ \A j \in DOMAIN life'[d].run :
            \/ j = i /\ life'[d].run[j] = p
            \/ j # i /\ j \in DOMAIN life[d].run /\ life'[d].run[j] = life[d].run[j]
  BY <1>1, <1>3, ExceptRun
<1>5. SpawnsAt(d, i, p)
  BY <1>2, <1>4 DEF SpawnsAt
<1> QED
  BY <1>3, <1>4, <1>5

(* A start gives the application a process of its own. *)
LEMMA StartOwned ==
    ASSUME LivesTypes, OwnedInv, NEW d \in Lives, Configured(d),
           NEW i \in DOMAIN life[d].run, Start(d, i)
    PROVE  OwnedInv'
<1>1. /\ Works(d) /\ ~At(d, "create") /\ i \in 1..Len(life[d].apps)
      /\ cg' = cg \cup Directories(Params(d, i).name)
  BY StartFacts DEF At
<1>2. PICK p \in FreeProcs : SpawnsAt(d, i, p)
  BY StartSpawns
<1>3. life'[d].pc = life[d].pc
  BY StartSpawns
<1> QED
  BY <1>1, <1>2, <1>3, SpawnOwned

(* What is left of the processes when one of them is reaped. *)
LEMMA ReapKeeps ==
    ASSUME LivesTypes, NEW p \in Procs, NEW path \in Names, NEW q \in Procs, q # p,
           proc'[q] = ReapedProc(p, path, q)
    PROVE  /\ proc[q].st # "free" /\ Alive(proc[q].life) => Kept(q)
           /\ proc'[q].st = "live" => proc'[q] = proc[q] /\ proc[q].path # path
           /\ proc'[q].st = "zombie" =>
                 /\ proc'[q].life = proc[q].life
                 /\ proc[q].st = "zombie"
                       \/ (proc[q].life \in Lives /\ Alive(proc[q].life))
<1>1. PICK r \in ProcRecord : r = proc[q]
  BY DEF LivesTypes
<1>2. CASE r.st = "live" /\ path \in Prefixes(r.path)
  <2>1. proc'[q] = Dead(r)
    BY <1>1, <1>2 DEF ReapedProc
  <2>2. /\ Dead(r).st # "live" /\ r.life \in Lives
        /\ Alive(r.life) => /\ Dead(r).st = "zombie" /\ Dead(r).life = r.life
                            /\ Dead(r).path = r.path /\ Dead(r).ids = r.ids
        /\ ~Alive(r.life) => Dead(r) = FreeProc
    BY <1>2, DeadFacts
  <2>3. FreeProc.st = "free"
    BY DEF FreeProc
  <2> QED
    BY <1>1, <1>2, <2>1, <2>2, <2>3 DEF Kept
<1>3. CASE ~(r.st = "live" /\ path \in Prefixes(r.path))
  <2>1. proc'[q] = r
    BY <1>1, <1>3 DEF ReapedProc
  <2>2. path \in Prefixes(path)
    BY DirectoriesFacts DEF Directories
  <2> QED
    BY <1>1, <1>3, <2>1, <2>2 DEF Kept
<1> QED
  BY <1>2, <1>3

(* A reaped application has no process, and the others keep theirs. *)
LEMMA ReapOwned ==
    ASSUME LivesTypes, OwnedInv, NEW d \in Lives, Configured(d),
           NEW i \in DOMAIN life[d].run, Reap(d, i)
    PROVE  OwnedInv'
<1>1. /\ Works(d) /\ At(d, "serve") /\ Alive(d) /\ i \in 1..Len(life[d].run)
      /\ ReapEffect(d, i)
  BY ReapFacts DEF Works
<1>2. PICK p \in Procs :
         /\ p = life[d].run[i] /\ proc[p].st = "zombie" /\ proc[p].path \in Names
         /\ life'[d] = [life[d] EXCEPT
               !.run = [life[d].run EXCEPT ![i] = NoProc],
               !.reaped = life[d].reaped \cup {proc[p].path}]
         /\ \A q \in Procs : proc'[q] = ReapedProc(p, proc[p].path, q)
         /\ cg' = CgroupDeleted(proc[p].path)
  BY <1>1 DEF ReapEffect
<1>3. PICK path : path = proc[p].path
  OBVIOUS
<1>4. /\ life'[d].run = [life[d].run EXCEPT ![i] = NoProc] /\ life'[d].pc = life[d].pc
      /\ NoProc \in Procs \cup {NoProc} /\ p # NoProc
  BY <1>2, LivesAssumption DEF LivesTypes, LifeRecord
<1>5. \A j \in DOMAIN life'[d].run :
         \/ j = i /\ life'[d].run[j] = NoProc
         \/ j # i /\ j \in DOMAIN life[d].run /\ life'[d].run[j] = life[d].run[j]
  BY <1>1, <1>4, ExceptRun
<1>6. ASSUME NEW q \in Procs, q # p
      PROVE  /\ proc[q].st # "free" /\ Alive(proc[q].life) => Kept(q)
             /\ proc'[q].st = "live" => proc'[q] = proc[q] /\ proc[q].path # path
             /\ proc'[q].st = "zombie" =>
                   /\ proc'[q].life = proc[q].life
                   /\ proc[q].st = "zombie"
                         \/ (proc[q].life \in Lives /\ Alive(proc[q].life))
  BY <1>2, <1>3, <1>6, ReapKeeps
<1>7. \A e \in Lives : Alive(e) <=> life'[e].pc \notin Ended
  BY <1>1, <1>4 DEF Alive, Works
<1>8. proc[p].life = d /\ i \in Running(d)
  BY <1>1, <1>2, <1>4 DEF OwnedInv, RunsOwn, Running
<1>9. ASSUME NEW e \in Lives, e # d PROVE RunsOwn(e)'
  <2>1. ASSUME NEW q \in Procs, proc[q].st # "free", proc[q].life = e,
               life'[e].pc \notin Ended
        PROVE  Kept(q)
    BY <1>6, <1>7, <1>8, <1>9, <2>1
  <2>2. AllKept(e, NoProc)
    BY <2>1 DEF AllKept
  <2> QED
    BY <1>1, <1>9, <2>2, OthersRun DEF OwnedInv
<1>10. RunsOwn(d)'
  <2>1. ASSUME NEW j \in DOMAIN life'[d].run, life'[d].run[j] # NoProc
        PROVE  /\ j \in DOMAIN life[d].run /\ life'[d].run[j] = life[d].run[j]
               /\ Kept(life[d].run[j])
    <3>1. j # i /\ j \in DOMAIN life[d].run /\ life'[d].run[j] = life[d].run[j]
      BY <1>5, <2>1
    <3>2. j \in Running(d)
      BY <2>1, <3>1 DEF Running
    <3>3. life[d].run[j] # p
      BY <1>1, <1>2, <1>4, <3>1 DEF OwnedInv, RunsOwn
    <3>4. life[d].run[j] \in Procs
      <4>1. life[d].run \in Seq(Procs \cup {NoProc})
        BY DEF LivesTypes, LifeRecord
      <4> QED
        BY <2>1, <3>1, <4>1
    <3>5. proc[life[d].run[j]].st # "free" /\ proc[life[d].run[j]].life = d
      BY <1>1, <3>2 DEF OwnedInv, RunsOwn
    <3> QED
      BY <1>1, <1>6, <3>1, <3>3, <3>4, <3>5
  <2>2. RunKept(d)
    BY <2>1 DEF RunKept
  <2>3. SameInputs(d)
    BY <1>1, <1>4 DEF SameInputs, Works, At
  <2> QED
    BY <2>2, <2>3, KeepsRun DEF OwnedInv
<1>11. ASSUME NEW q \in Procs
       PROVE  /\ proc'[q].st = "live" => proc'[q].path \in cg'
              /\ proc'[q].st = "zombie" =>
                    proc'[q].life \in Lives /\ life'[proc'[q].life].pc \notin Ended
  <2>1. CASE q = p
    <3>1. proc'[q] = FreeProc
      BY <1>2, <2>1 DEF ReapedProc
    <3> QED
      BY <3>1 DEF FreeProc
  <2>2. CASE q # p
    <3>1. /\ proc[q].st = "live" => proc[q].path \in cg
          /\ proc[q].st = "zombie" => proc[q].life \in Lives /\ Alive(proc[q].life)
      BY DEF OwnedInv, ProcsPlaced
    <3>2. proc'[q].st = "live" => proc'[q].path \in cg'
      BY <1>2, <1>3, <1>6, <2>2, <3>1 DEF CgroupDeleted
    <3> QED
      BY <1>6, <1>7, <2>2, <3>1, <3>2
  <2> QED
    BY <2>1, <2>2
<1>12. ProcsPlaced'
  BY <1>11 DEF ProcsPlaced, Alive
<1> QED
  BY <1>9, <1>10, <1>12 DEF OwnedInv

(* A process ends. *)
LEMMA ExitOwned ==
    ASSUME LivesTypes, OwnedInv, NEW p \in Procs, ProcExit(p)
    PROVE  OwnedInv'
<1>1. /\ proc[p].st = "live" /\ UNCHANGED <<life, file, main_cg, cg, met>>
      /\ proc' = [proc EXCEPT ![p] = Dead(proc[p])]
  BY ExitFacts
<1>2. PICK r \in ProcRecord : r = proc[p]
  BY DEF LivesTypes
<1>3. /\ Dead(r).st # "live" /\ r.life \in Lives
      /\ Alive(r.life) => /\ Dead(r).st = "zombie" /\ Dead(r).life = r.life
                          /\ Dead(r).path = r.path /\ Dead(r).ids = r.ids
      /\ ~Alive(r.life) => Dead(r) = FreeProc
  BY <1>1, <1>2, DeadFacts
<1>4. proc'[p] = Dead(r) /\ \A q \in Procs : q # p => proc'[q] = proc[q]
  BY <1>1, <1>2 DEF LivesTypes
<1>5. ASSUME NEW e \in Lives PROVE RunsOwn(e)'
  <2>1. ASSUME NEW q \in Procs, proc[q].st # "free", proc[q].life = e,
               life'[e].pc \notin Ended
        PROVE  Kept(q)
    <3>1. CASE q # p
      BY <1>4, <2>1, <3>1 DEF Kept
    <3>2. CASE q = p
      <4>1. r.life = e /\ Alive(e)
        BY <1>1, <1>2, <2>1, <3>2 DEF Alive
      <4> QED
        BY <1>2, <1>3, <1>4, <3>2, <4>1 DEF Kept
    <3> QED
      BY <3>1, <3>2
  <2>2. AllKept(e, NoProc)
    BY <2>1 DEF AllKept
  <2>3. SameInputs(e) /\ life'[e].run = life[e].run
    BY <1>1 DEF SameInputs, Alive, At
  <2> QED
    BY <2>2, <2>3, UntouchedRun DEF OwnedInv
<1>6. ASSUME NEW q \in Procs
      PROVE  /\ proc'[q].st = "live" => proc'[q].path \in cg
             /\ proc'[q].st = "zombie" => proc'[q].life \in Lives /\ Alive(proc'[q].life)
  <2>1. CASE q = p
    <3>1. FreeProc.st = "free"
      BY DEF FreeProc
    <3> QED
      BY <1>3, <1>4, <2>1, <3>1
  <2>2. CASE q # p
    BY <1>4, <2>2 DEF OwnedInv, ProcsPlaced
  <2> QED
    BY <2>1, <2>2
<1>7. ProcsPlaced'
  BY <1>1, <1>6 DEF ProcsPlaced, Alive
<1> QED
  BY <1>5, <1>7 DEF OwnedInv

(* A daemon that begins, whether it loads its configuration or not. *)
LEMMA BootOwned ==
    ASSUME BaseInv, OwnedInv, NEW d \in Lives, Boot(d)
    PROVE  OwnedInv'
<1>1. /\ LivesTypes /\ At(d, "off") /\ UNCHANGED <<file, cg, proc>>
      /\ life[d].run = <<>> /\ ~Alive(d)
  BY DEF BaseInv, Boot, InOrder, At, Alive, Ended
<1>2. /\ \A e \in Lives : e # d => life'[e] = life[e]
      /\ \/ \E f \in ConfigFiles : BootFails(d, f)
         \/ \E f \in ConfigFiles, own \in Owners :
               \E entries \in Listings(f) : BootsWith(d, f, own, entries)
  BY <1>1, BootFacts
<1>3. life[d] \in LifeRecord
  BY <1>1 DEF LivesTypes
<1>4. life'[d].run = <<>>
  BY <1>1, <1>2, <1>3 DEF BootFails, BootsWith, LifeRecord
<1>5. \A j \in DOMAIN life'[d].run : FALSE
  BY <1>4
<1>6. RunsOwn(d)'
  BY <1>5 DEF RunsOwn, Running
<1>7. ASSUME NEW e \in Lives, e # d PROVE RunsOwn(e)'
  <2>1. life'[e] = life[e]
    BY <1>2, <1>7
  <2>2. SameInputs(e) /\ AllKept(e, NoProc) /\ life'[e].run = life[e].run
    BY <1>1, <2>1 DEF SameInputs, AllKept, Kept, Alive, At
  <2> QED
    BY <1>1, <2>2, UntouchedRun DEF OwnedInv
<1>8. \A e \in Lives : Alive(e) => life'[e].pc \notin Ended
  BY <1>1, <1>2 DEF Alive
<1>9. ProcsPlaced'
  BY <1>1, <1>8 DEF OwnedInv, ProcsPlaced, Alive
<1> QED
  BY <1>6, <1>7, <1>9 DEF OwnedInv

(* Every process in use belongs to one daemon, and the processes of a daemon
   that runs are the ones it has listed. *)
LEMMA OwnedNext == BaseInv /\ OwnedInv /\ [Next]_vars => OwnedInv'
<1> SUFFICES ASSUME BaseInv, OwnedInv, [Next]_vars PROVE OwnedInv'
  OBVIOUS
<1>1. LivesTypes /\ \A d \in Lives : Configured(d)
  BY DEF BaseInv
<1>2. /\ proc \in [Procs -> ProcRecord] /\ \A q \in Procs : proc[q] = proc[q]
      /\ "failed" \in Ended /\ "exited" \in Ended /\ "panicked" \in Ended
      /\ "killed" \in Ended
      /\ \A pc \in {"check", "remove", "bind", "serve", "unlink", "rmdir"} :
            pc \notin Ended /\ pc # "create"
  BY <1>1 DEF Ended, LivesTypes
<1>3. ASSUME NEW d \in Lives, Works(d), NEW how \in Ended, Ends(d, how, proc), cg' = cg
      PROVE  OwnedInv'
  <2>1. cg \subseteq cg'
    BY <1>3
  <2> QED
    BY <1>1, <1>2, <1>3, <2>1, EndsOwned
<1>4. ASSUME NEW d \in Lives, Works(d), UNCHANGED <<cg, proc>>,
             NEW pc \in {"check", "remove", "bind", "serve", "unlink", "rmdir"},
             NEW sock, NEW stale, Moved(d, pc, sock, stale)
      PROVE  OwnedInv'
  BY <1>1, <1>2, <1>4, MovedOwned
<1>5. ASSUME NEW d \in Lives, AppsCreated(d) PROVE OwnedInv'
  <2>1. /\ Works(d) /\ Moved(d, "check", 1, life[d].stale) /\ UNCHANGED <<cg, proc>>
    BY <1>1, <1>5, CreatedFacts
  <2> QED
    BY <1>4, <2>1
<1>6. ASSUME NEW d \in Lives, Check(d) PROVE OwnedInv'
  <2>1. /\ Works(d) /\ UNCHANGED <<cg, proc>>
        /\ Moved(d, "remove", life[d].sock, file[Socket(d)] # NobodysFile)
    BY <1>1, <1>6, CheckFacts
  <2> QED
    BY <1>4, <2>1
<1>7. ASSUME NEW d \in Lives, RemoveStale(d) PROVE OwnedInv'
  <2>1. /\ Works(d) /\ cg' = cg
        /\ \/ Ends(d, "failed", proc)
           \/ Moved(d, "bind", life[d].sock, FALSE) /\ proc' = proc
    BY <1>1, <1>7, RemoveFacts
  <2>2. CASE Ends(d, "failed", proc)
    BY <1>2, <1>3, <2>1, <2>2
  <2>3. CASE Moved(d, "bind", life[d].sock, FALSE) /\ proc' = proc
    BY <1>4, <2>1, <2>3
  <2> QED
    BY <2>1, <2>2, <2>3
<1>8. ASSUME NEW d \in Lives, Bind(d) PROVE OwnedInv'
  <2>1. /\ Works(d) /\ cg' = cg
        /\ \/ Ends(d, "failed", proc)
           \/ Moved(d, "check", 2, life[d].stale) /\ proc' = proc
           \/ Moved(d, "serve", 1, life[d].stale) /\ proc' = proc
    BY <1>1, <1>8, BindFacts
  <2>2. CASE Ends(d, "failed", proc)
    BY <1>2, <1>3, <2>1, <2>2
  <2>3. CASE Moved(d, "check", 2, life[d].stale) /\ proc' = proc
    BY <1>4, <2>1, <2>3
  <2>4. CASE Moved(d, "serve", 1, life[d].stale) /\ proc' = proc
    BY <1>4, <2>1, <2>4
  <2> QED
    BY <2>1, <2>2, <2>3, <2>4
<1>9. ASSUME NEW d \in Lives, Quit(d) PROVE OwnedInv'
  <2>1. /\ Works(d) /\ UNCHANGED <<cg, proc>>
        /\ Moved(d, "unlink", life[d].sock, life[d].stale)
    BY <1>1, <1>9, QuitFacts
  <2> QED
    BY <1>4, <2>1
<1>10. ASSUME NEW d \in Lives, Unlink(d) PROVE OwnedInv'
  <2>1. /\ Works(d) /\ UNCHANGED <<cg, proc>>
        /\ Moved(d, "unlink", 2, life[d].stale) \/ Moved(d, "rmdir", 1, life[d].stale)
    BY <1>1, <1>10, UnlinkFacts
  <2> QED
    BY <1>4, <2>1
<1>11. ASSUME NEW d \in Lives, DeleteMain(d) PROVE OwnedInv'
  <2>1. /\ Works(d) /\ cg' = cg
        /\ Ends(d, "exited", proc) \/ Ends(d, "panicked", proc)
    BY <1>1, <1>11, DeleteMainFacts
  <2> QED
    BY <1>2, <1>3, <2>1
<1>12. ASSUME NEW d \in Lives, Crash(d) PROVE OwnedInv'
  <2>1. Works(d) /\ cg' = cg /\ Ends(d, "killed", proc)
    BY <1>1, <1>12, CrashFacts
  <2> QED
    BY <1>2, <1>3, <2>1
<1>13. ASSUME NEW d \in Lives, CreateApp(d) PROVE OwnedInv'
  BY <1>1, <1>13, CreateOwned
<1>14. ASSUME NEW d \in Lives, NEW i \in DOMAIN life[d].run, Start(d, i) \/ Reap(d, i)
       PROVE  OwnedInv'
  BY <1>1, <1>14, StartOwned, ReapOwned
<1>15. ASSUME NEW d \in Lives, Boot(d) PROVE OwnedInv'
  BY <1>15, BootOwned
<1>16. ASSUME NEW p \in Procs, ProcExit(p) PROVE OwnedInv'
  BY <1>1, <1>16, ExitOwned
<1>17. CASE UNCHANGED vars
  BY <1>17 DEF vars, OwnedInv, ProcsPlaced, RunsOwn, Running, Params, Alive, At
<1> QED
  BY <1>5, <1>6, <1>7, <1>8, <1>9, <1>10, <1>11, <1>12, <1>13, <1>14, <1>15, <1>16,
     <1>17 DEF Next

(* At first no process runs. *)
LEMMA OwnedInit == Init => OwnedInv
<1> SUFFICES ASSUME Init PROVE OwnedInv
  OBVIOUS
<1>1. \A d \in Lives : life[d].pc = "off"
  BY DEF Init
<1>2. \A p \in Procs : proc[p].st = "free"
  BY DEF Init, FreeProc
<1> QED
  BY <1>1, <1>2 DEF OwnedInv, ProcsPlaced, RunsOwn, Alive, Ended

(* Every program runs as the user and the group that its entry asks for, or as
   the daemon's own where it asks for none; only a daemon that is not root may
   fail at this, and then the program is not started (setup_child). *)
THEOREM RunsAsConfiguredAlways == Spec => []RunsAsConfigured
<1>1. Init => BaseInv /\ OwnedInv
  BY BaseInit, OwnedInit
<1>2. BaseInv /\ OwnedInv /\ [Next]_vars => (BaseInv /\ OwnedInv)'
  BY BaseNext, OwnedNext
<1>3. BaseInv /\ OwnedInv => RunsAsConfigured
  <2> SUFFICES ASSUME BaseInv, OwnedInv, NEW d \in Lives, NEW i \in DOMAIN life[d].run,
                      Alive(d), life[d].run[i] # NoProc
               PROVE  LET params == AppParams(life[d].apps[i], life[d].config[1],
                                              life[d].own)
                          ids    == proc[life[d].run[i]].ids
                      IN \/ ids = [uid |-> params.uid, gid |-> params.gid]
                         \/ life[d].own.uid # 0 /\ ids = Refused
    BY DEF RunsAsConfigured
  <2>1. LivesTypes /\ Configured(d)
    BY DEF BaseInv
  <2>2. i \in Running(d)
    BY DEF Running
  <2>3. proc[life[d].run[i]].ids
           = ChildIds(life[d].own, Params(d, i).uid, Params(d, i).gid)
    BY <2>2 DEF OwnedInv, RunsOwn
  <2>4. life[d].own \in Owners /\ i \in 1..Len(life[d].apps)
    BY <2>1, ConfiguredFacts
  <2>5. PICK u \in Nat, g \in Nat : u = Params(d, i).uid /\ g = Params(d, i).gid
    BY <2>1, <2>4, SpawnedFacts
  <2>6. \/ ChildIds(life[d].own, u, g) = [uid |-> u, gid |-> g]
        \/ life[d].own.uid # 0 /\ ChildIds(life[d].own, u, g) = Refused
    BY <2>4, ChildIdsFacts
  <2> QED
    BY <2>3, <2>5, <2>6 DEF Params
<1> QED
  BY <1>1, <1>2, <1>3, PTL DEF Spec

-----------------------------------------------------------------------------
(* A daemon that is the only one *)

(* It has reaped every process that others left where it has reaped one. *)
Orphans(d) ==
    Alive(d) => \A p \in Procs :
       proc[p].st = "live" /\ proc[p].path \in life[d].reaped => proc[p].life = d

Lone(d) == SocketsRight(d) /\ CgroupsExplained(d) /\ Orphans(d)

LoneInv == \A d \in Lives \ met : Lone(d)

(* Whatever another daemon does, this one is not there any more. *)
LEMMA OthersLone ==
    ASSUME BaseInv, NEW d \in Lives, d \notin met', NEW e \in Lives, e # d,
           Boot(e) \/ Works(e)
    PROVE  d \notin met /\ life'[d] = life[d] /\ life'[d].pc \in Ended /\ Lone(d)'
<1>1. LivesTypes /\ Alone
  BY DEF BaseInv
<1>2. CASE Boot(e)
  <2>1. life'[d] = life[d]
    BY <1>1, <1>2, BootFacts
  <2>2. d \notin met /\ ~Alive(d)
    BY <1>2 DEF Boot
  <2> QED
    BY <2>1, <2>2 DEF Alive, Lone, SocketsRight, CgroupsExplained, Orphans
<1>3. CASE Works(e)
  <2>1. d \notin met /\ life'[d] = life[d] /\ Alive(e)
    BY <1>3 DEF Works
  <2>2. ~Alive(d)
    BY <1>1, <2>1 DEF Alone
  <2> QED
    BY <2>1, <2>2 DEF Alive, Lone, SocketsRight, CgroupsExplained, Orphans
<1> QED
  BY <1>2, <1>3

(* The end of a daemon. *)
LEMMA EndsLone ==
    ASSUME LivesTypes, NEW d \in Lives, NEW how \in Ended, NEW procs, Ends(d, how, procs)
    PROVE  Lone(d)'
<1>1. life'[d].pc \in Ended
  BY EndsFields
<1> QED
  BY <1>1 DEF Lone, SocketsRight, CgroupsExplained, Orphans, Alive

(* A step that is about the sockets only. *)
LEMMA MovedLone ==
    ASSUME LivesTypes, NEW d \in Lives, Works(d), NEW pc, NEW sock, NEW stale,
           Moved(d, pc, sock, stale), UNCHANGED <<cg, proc>>, Lone(d)
    PROVE  CgroupsExplained(d)' /\ Orphans(d)' /\ Running(d)' = Running(d)
<1>1. /\ life'[d].run = life[d].run /\ life'[d].reaped = life[d].reaped
      /\ life'[d].leftover = life[d].leftover /\ Alive(d)
  BY MovedFields DEF Works
<1>2. Running(d)' = Running(d)
  BY <1>1 DEF Running
<1>3. LongPath(d) => LongPath(d)'
  BY <1>1, <1>2 DEF LongPath
<1>4. CgroupsExplained(d)'
  BY <1>1, <1>2, <1>3 DEF Lone, CgroupsExplained
<1>5. Orphans(d)'
  BY <1>1 DEF Lone, Orphans
<1> QED
  BY <1>2, <1>4, <1>5

(* The two binds, and the removal of the two files. *)
LEMMA SocketsLone ==
    ASSUME LivesTypes, NEW d \in Lives, Lone(d),
           \/ AppsCreated(d) \/ Check(d) \/ RemoveStale(d) \/ Bind(d)
           \/ Quit(d) \/ Unlink(d)
    PROVE  Lone(d)'
<1>1. /\ life[d].sock \in {1, 2}
      /\ Socket(d) = IF life[d].sock = 1 THEN "control" ELSE "log"
  BY SocketFacts
<1>2. /\ file \in [{"control", "log"} -> Lives \cup {NobodysFile}]
      /\ NobodysFile \notin Lives
  BY LivesAssumption DEF LivesTypes, Lives
<1>3. "failed" \in Ended
  BY DEF Ended
<1>4. ASSUME NEW pc, NEW sock, NEW stale, Moved(d, pc, sock, stale), Works(d),
             UNCHANGED <<main_cg, cg, proc>>
      PROVE  /\ CgroupsExplained(d)' /\ Orphans(d)' /\ Running(d)' = Running(d)
             /\ life'[d].pc = pc /\ life'[d].sock = sock /\ life'[d].stale = stale
             /\ main_cg /\ main_cg' = main_cg
  <2>1. CgroupsExplained(d)' /\ Orphans(d)' /\ Running(d)' = Running(d)
    BY <1>4, MovedLone
  <2>2. life'[d].pc = pc /\ life'[d].sock = sock /\ life'[d].stale = stale
    BY <1>4, MovedFields
  <2> QED
    BY <1>4, <2>1, <2>2 DEF Works, Lone, SocketsRight
<1>5. CASE AppsCreated(d)
  <2>1. /\ Works(d) /\ Moved(d, "check", 1, life[d].stale)
        /\ UNCHANGED <<file, main_cg, cg, proc>>
    BY <1>5, CreatedFacts
  <2>2. /\ CgroupsExplained(d)' /\ Orphans(d)' /\ main_cg'
        /\ life'[d].pc = "check" /\ life'[d].sock = 1
    BY <1>4, <2>1
  <2> QED
    BY <2>2 DEF Lone, SocketsRight, At
<1>6. CASE Check(d)
  <2>1. /\ Works(d) /\ At(d, "check")
        /\ Moved(d, "remove", life[d].sock, file[Socket(d)] # NobodysFile)
        /\ UNCHANGED <<file, main_cg, cg, proc>>
    BY <1>6, CheckFacts
  <2>2. /\ CgroupsExplained(d)' /\ Orphans(d)' /\ main_cg'
        /\ life'[d].pc = "remove" /\ life'[d].sock = life[d].sock
        /\ life'[d].stale = (file[Socket(d)] # NobodysFile)
    BY <1>4, <2>1
  <2>3. Socket(d)' = Socket(d)
    BY <2>2 DEF Socket
  <2> QED
    BY <2>1, <2>2, <2>3 DEF Lone, SocketsRight, At, Works
<1>7. CASE RemoveStale(d)
  <2>1. /\ Works(d) /\ At(d, "remove") /\ UNCHANGED <<main_cg, cg>>
        /\ \/ Ends(d, "failed", proc)
           \/ /\ Moved(d, "bind", life[d].sock, FALSE) /\ proc' = proc
              /\ file' = IF life[d].stale
                         THEN [file EXCEPT ![Socket(d)] = NobodysFile] ELSE file
    BY <1>7, RemoveFacts
  <2>2. CASE Ends(d, "failed", proc)
    BY <1>3, <2>2, EndsLone
  <2>3. CASE /\ Moved(d, "bind", life[d].sock, FALSE) /\ proc' = proc
             /\ file' = IF life[d].stale
                        THEN [file EXCEPT ![Socket(d)] = NobodysFile] ELSE file
    <3>1. /\ CgroupsExplained(d)' /\ Orphans(d)' /\ main_cg'
          /\ life'[d].pc = "bind" /\ life'[d].sock = life[d].sock
      BY <1>4, <2>1, <2>3
    <3>2. Socket(d)' = Socket(d)
      BY <3>1 DEF Socket
    <3>3. file'[Socket(d)] = NobodysFile
      BY <1>1, <1>2, <2>1, <2>3 DEF Lone, SocketsRight, Works
    <3>4. life[d].sock = 2 => file'["control"] = d
      BY <1>1, <1>2, <2>1, <2>3 DEF Lone, SocketsRight, Works, At
    <3> QED
      BY <3>1, <3>2, <3>3, <3>4 DEF Lone, SocketsRight, At
  <2> QED
    BY <2>1, <2>2, <2>3
<1>8. CASE Bind(d)
  <2>1. /\ Works(d) /\ At(d, "bind") /\ UNCHANGED <<main_cg, cg>>
        /\ \/ Ends(d, "failed", proc)
           \/ /\ proc' = proc /\ file' = [file EXCEPT ![Socket(d)] = d]
              /\ IF life[d].sock = 1 THEN Moved(d, "check", 2, life[d].stale)
                 ELSE Moved(d, "serve", 1, life[d].stale)
    BY <1>8, BindFacts
  <2>2. CASE Ends(d, "failed", proc)
    BY <1>3, <2>2, EndsLone
  <2>3. CASE /\ proc' = proc /\ file' = [file EXCEPT ![Socket(d)] = d]
             /\ life[d].sock = 1 /\ Moved(d, "check", 2, life[d].stale)
    <3>1. /\ CgroupsExplained(d)' /\ Orphans(d)' /\ main_cg'
          /\ life'[d].pc = "check" /\ life'[d].sock = 2
      BY <1>4, <2>1, <2>3
    <3>2. file'["control"] = d
      BY <1>1, <1>2, <2>3
    <3> QED
      BY <3>1, <3>2 DEF Lone, SocketsRight, At
  <2>4. CASE /\ proc' = proc /\ file' = [file EXCEPT ![Socket(d)] = d]
             /\ life[d].sock = 2 /\ Moved(d, "serve", 1, life[d].stale)
    <3>1. /\ CgroupsExplained(d)' /\ Orphans(d)' /\ main_cg'
          /\ life'[d].pc = "serve" /\ life'[d].sock = 1
      BY <1>4, <2>1, <2>4
    <3>2. file["control"] = d
      BY <2>1, <2>4 DEF Lone, SocketsRight, At, Works
    <3>3. file' = [s \in {"control", "log"} |-> d]
      <4>1. Socket(d) = "log"
        BY <1>1, <2>4
      <4>2. file' = [s \in {"control", "log"} |-> IF s = "log" THEN d ELSE file[s]]
        BY <1>2, <2>4, <4>1
      <4>3. \A s \in {"control", "log"} : (IF s = "log" THEN d ELSE file[s]) = d
        BY <3>2
      <4> QED
        BY <4>2, <4>3
    <3> QED
      BY <3>1, <3>3 DEF Lone, SocketsRight, At
  <2> QED
    BY <1>1, <2>1, <2>2, <2>3, <2>4
<1>9. CASE Quit(d)
  <2>1. /\ Works(d) /\ At(d, "serve") /\ Running(d) = {}
        /\ Moved(d, "unlink", life[d].sock, life[d].stale)
        /\ UNCHANGED <<file, main_cg, cg, proc>>
    BY <1>9, QuitFacts
  <2>2. /\ CgroupsExplained(d)' /\ Orphans(d)' /\ main_cg' /\ Running(d)' = {}
        /\ life'[d].pc = "unlink" /\ life'[d].sock = life[d].sock
    BY <1>4, <2>1
  <2>3. life[d].sock = 1
    BY <2>1 DEF Lone, SocketsRight, Works
  <2> QED
    BY <2>2, <2>3 DEF Lone, SocketsRight, At
<1>10. CASE Unlink(d)
  <2>1. /\ Works(d) /\ At(d, "unlink") /\ UNCHANGED <<main_cg, cg, proc>>
        /\ file' = [file EXCEPT ![Socket(d)] = NobodysFile]
        /\ IF life[d].sock = 1 THEN Moved(d, "unlink", 2, life[d].stale)
           ELSE Moved(d, "rmdir", 1, life[d].stale)
    BY <1>10, UnlinkFacts
  <2>2. Running(d) = {} /\ (life[d].sock = 2 => file["control"] = NobodysFile)
    BY <2>1 DEF Lone, SocketsRight, Works, At
  <2>3. CASE life[d].sock = 1 /\ Moved(d, "unlink", 2, life[d].stale)
    <3>1. /\ CgroupsExplained(d)' /\ Orphans(d)' /\ main_cg' /\ Running(d)' = {}
          /\ life'[d].pc = "unlink" /\ life'[d].sock = 2
      BY <1>4, <2>1, <2>2, <2>3
    <3>2. file'["control"] = NobodysFile
      BY <1>1, <1>2, <2>1, <2>3
    <3> QED
      BY <3>1, <3>2 DEF Lone, SocketsRight, At
  <2>4. CASE life[d].sock = 2 /\ Moved(d, "rmdir", 1, life[d].stale)
    <3>1. /\ CgroupsExplained(d)' /\ Orphans(d)' /\ main_cg' /\ Running(d)' = {}
          /\ life'[d].pc = "rmdir"
      BY <1>4, <2>1, <2>2, <2>4
    <3>2. file' = [s \in {"control", "log"} |-> NobodysFile]
      <4>1. Socket(d) = "log"
        BY <1>1, <2>4
      <4>2. file' = [s \in {"control", "log"} |->
                        IF s = "log" THEN NobodysFile ELSE file[s]]
        BY <1>2, <2>1, <4>1
      <4>3. \A s \in {"control", "log"} :
               (IF s = "log" THEN NobodysFile ELSE file[s]) = NobodysFile
        BY <2>2, <2>4
      <4> QED
        BY <4>2, <4>3
    <3> QED
      BY <3>1, <3>2 DEF Lone, SocketsRight, At
  <2> QED
    BY <1>1, <2>1, <2>3, <2>4
<1> QED
  BY <1>5, <1>6, <1>7, <1>8, <1>9, <1>10

(* Where the processes are that a daemon runs. *)
RunPath(d, j) == proc[life[d].run[j]].path

(* The processes that a daemon runs are in use, and in its cgroups. *)
LEMMA RunningFacts ==
    ASSUME LivesTypes, NEW d \in Lives, Alive(d), RunsOwn(d), NEW j \in Running(d)
    PROVE  /\ j \in DOMAIN life[d].run /\ life[d].run[j] \in Procs
           /\ life[d].run[j] # NoProc
           /\ proc[life[d].run[j]].st # "free" /\ RunPath(d, j) \in Names
<1>1. j \in DOMAIN life[d].run /\ life[d].run[j] # NoProc
  BY DEF Running
<1>2. life[d].run \in Seq(Procs \cup {NoProc}) /\ proc \in [Procs -> ProcRecord]
  BY DEF LivesTypes, LifeRecord
<1>3. life[d].run[j] \in Procs
  BY <1>1, <1>2
<1>4. proc[life[d].run[j]].st # "free"
  BY DEF RunsOwn
<1>5. RunPath(d, j) \in Names
  BY <1>2, <1>3, <1>4 DEF ProcRecord, FreeProc, RunPath
<1> QED
  BY <1>1, <1>3, <1>4, <1>5

(* Nothing that ran has gone from the list of applications. *)
RunsMore(d) ==
    \A j \in Running(d) : j \in DOMAIN life'[d].run /\ life'[d].run[j] = life[d].run[j]

(* A daemon starts an application: its cgroup is one more. *)
LEMMA SpawnLone ==
    ASSUME LivesTypes, NEW d \in Lives, RunsOwn(d), Lone(d), Configured(d), Works(d),
           NEW i \in 1..Len(life[d].apps), NEW p, SpawnsAt(d, i, p), RunsMore(d),
           i \in DOMAIN life'[d].run, life'[d].run[i] = p,
           life'[d].pc = life[d].pc, life'[d].reaped = life[d].reaped,
           life'[d].sock = life[d].sock, life[d].pc \in {"create", "serve"},
           file' = file, main_cg' = TRUE,
           cg' = cg \cup Directories(Params(d, i).name)
    PROVE  Lone(d)'
<1>1. Alive(d) /\ life'[d].leftover = life[d].leftover
  BY DEF Works
<1>2. /\ p \in Procs /\ proc[p].st = "free" /\ proc'[p] = Spawned(d, Params(d, i))
      /\ \A q \in Procs : q # p => proc'[q] = proc[q]
      /\ \A q \in Procs : proc[q].st # "free" => Kept(q)
  BY SpawnKeeps
<1>3. PICK name \in Names : name = Params(d, i).name
  BY <1>1, SpawnedFacts
<1>4. proc'[p].path = name /\ proc'[p].life = d
  BY <1>1, <1>2, <1>3, SpawnedFacts
<1>5. i \in Running(d)' /\ RunPath(d, i)' = name
  BY <1>2, <1>4, LivesAssumption DEF Running, RunPath
<1>6. ASSUME NEW j \in Running(d)
      PROVE  j \in Running(d)' /\ RunPath(d, j)' = RunPath(d, j)
  <2>1. /\ life[d].run[j] \in Procs /\ proc[life[d].run[j]].st # "free"
        /\ life[d].run[j] # NoProc
    BY <1>1, RunningFacts
  <2>2. j \in DOMAIN life'[d].run /\ life'[d].run[j] = life[d].run[j]
    BY DEF RunsMore
  <2> QED
    BY <1>2, <2>1, <2>2 DEF Running, RunPath, Kept
<1>7. SocketsRight(d)'
  BY <1>1 DEF Lone, SocketsRight, At
<1>8. Orphans(d)'
  <2> SUFFICES ASSUME NEW q \in Procs, proc'[q].st = "live",
                      proc'[q].path \in life[d].reaped
               PROVE  proc'[q].life = d
    BY DEF Orphans
  <2>1. CASE q = p
    BY <1>4, <2>1
  <2>2. CASE q # p
    BY <1>1, <1>2, <2>2 DEF Lone, Orphans
  <2> QED
    BY <2>1, <2>2
<1>9. CgroupsExplained(d)'
  <2>1. CASE LongPath(d)
    <3>1. LongPath(d)'
      BY <1>1, <1>6, <2>1 DEF LongPath, RunPath
    <3> QED
      BY <3>1 DEF CgroupsExplained
  <2>2. CASE Len(name) > 1
    <3>1. LongPath(d)'
      BY <1>5, <2>2 DEF LongPath, RunPath
    <3> QED
      BY <3>1 DEF CgroupsExplained
  <2>3. CASE ~LongPath(d) /\ ~(Len(name) > 1)
    <3>1. Len(name) = 1
      <4>1. name \in Seq(STRING) /\ name # <<>>
        BY DEF Names
      <4>2. Len(name) \in Nat /\ Len(name) # 0
        BY <4>1, EmptySeq, LenProperties
      <4>3. \A n \in Nat : n # 0 /\ ~(n > 1) => n = 1
        OBVIOUS
      <4> QED
        BY <2>3, <4>2, <4>3, Zenon
    <3>2. cg' = cg \cup {name}
      BY <1>3, <3>1, DirectoriesFacts
    <3>3. \A q \in cg : \/ q \in life[d].leftover \ life[d].reaped
                        \/ \E j \in Running(d) : RunPath(d, j) = q
      BY <1>1, <2>3 DEF Lone, CgroupsExplained, RunPath
    <3>4. ASSUME NEW q \in cg'
          PROVE  \/ q \in life'[d].leftover \ life'[d].reaped
                 \/ \E j \in Running(d)' : RunPath(d, j)' = q
      <4>1. CASE q = name
        BY <1>5, <4>1
      <4>2. CASE q \in cg
        BY <1>1, <1>6, <3>3, <4>2
      <4> QED
        BY <3>2, <4>1, <4>2
    <3> QED
      BY <3>4 DEF CgroupsExplained, RunPath
  <2> QED
    BY <2>1, <2>2, <2>3
<1> QED
  BY <1>7, <1>8, <1>9 DEF Lone

(* What a daemon runs is the same, and so are the processes and the cgroups. *)
LEMMA SameLone ==
    ASSUME LivesTypes, NEW d \in Lives, Lone(d), Alive(d), Running(d)' = Running(d),
           \A j \in Running(d) : life'[d].run[j] = life[d].run[j],
           life'[d].pc = life[d].pc, life'[d].reaped = life[d].reaped,
           life'[d].leftover = life[d].leftover,
           life'[d].sock = life[d].sock, life'[d].stale = life[d].stale,
           UNCHANGED <<file, main_cg, cg, proc>>
    PROVE  Lone(d)'
<1>1. Socket(d)' = Socket(d)
  BY DEF Socket
<1>2. SocketsRight(d)'
  BY <1>1 DEF Lone, SocketsRight, At, Alive
<1>3. Orphans(d)'
  BY DEF Lone, Orphans
<1>4. LongPath(d) => LongPath(d)'
  BY DEF LongPath
<1>5. CgroupsExplained(d)'
  BY <1>4 DEF Lone, CgroupsExplained
<1> QED
  BY <1>2, <1>3, <1>5 DEF Lone

(* One turn of the loop that creates the applications. *)
LEMMA CreateLone ==
    ASSUME LivesTypes, NEW d \in Lives, RunsOwn(d), Lone(d), Configured(d), CreateApp(d)
    PROVE  Lone(d)'
<1>1. PICK n : n = Len(life[d].run) + 1
  OBVIOUS
<1>2. /\ Works(d) /\ At(d, "create") /\ Alive(d) /\ file' = file
      /\ n \in 1..Len(life[d].apps) /\ CreateEffect(d, n)
  BY <1>1, CreateFacts DEF Works
<1>3. "failed" \in Ended /\ NoProc \in Procs \cup {NoProc}
  BY DEF Ended
<1>4. CASE \E procs : Ends(d, "failed", procs)
  BY <1>3, <1>4, EndsLone
<1>5. CASE /\ life'[d] = [life[d] EXCEPT !.run = Append(life[d].run, NoProc)]
           /\ UNCHANGED <<proc, main_cg, cg>>
  <2>1. /\ life'[d].pc = life[d].pc /\ life'[d].reaped = life[d].reaped
        /\ life'[d].sock = life[d].sock /\ life'[d].stale = life[d].stale
        /\ \A j \in DOMAIN life'[d].run :
              \/ life'[d].run[j] = NoProc
              \/ j \in DOMAIN life[d].run /\ life'[d].run[j] = life[d].run[j]
        /\ \A j \in DOMAIN life[d].run :
              j \in DOMAIN life'[d].run /\ life'[d].run[j] = life[d].run[j]
    <3>1. PICK none \in Procs \cup {NoProc} : none = NoProc
      BY <1>3
    <3>2. life'[d] = [life[d] EXCEPT !.run = Append(life[d].run, none)]
      BY <1>5, <3>1
    <3>3. /\ life'[d].pc = life[d].pc /\ life'[d].reaped = life[d].reaped
          /\ life'[d].sock = life[d].sock /\ life'[d].stale = life[d].stale
          /\ \A j \in DOMAIN life'[d].run :
                \/ j = Len(life[d].run) + 1 /\ life'[d].run[j] = none
                \/ /\ j # Len(life[d].run) + 1 /\ j \in DOMAIN life[d].run
                   /\ life'[d].run[j] = life[d].run[j]
          /\ \A j \in DOMAIN life[d].run :
                j \in DOMAIN life'[d].run /\ life'[d].run[j] = life[d].run[j]
      BY <3>2, AppendRun
    <3> QED
      BY <3>1, <3>3
  <2>2. \A j \in Running(d) : life'[d].run[j] = life[d].run[j]
    BY <2>1 DEF Running
  <2>3. Running(d)' = Running(d)
    <3>1. \A j : j \in Running(d)' <=> j \in Running(d)
      BY <2>1 DEF Running
    <3> QED
      BY <3>1, Zenon
  <2>4. life'[d].leftover = life[d].leftover /\ UNCHANGED <<file, main_cg, cg, proc>>
    BY <1>2, <1>5 DEF Works
  <2> QED
    BY <1>2, <2>1, <2>2, <2>3, <2>4, SameLone
<1>6. CASE /\ main_cg' = TRUE /\ cg' = cg \cup Directories(Params(d, n).name)
           /\ \E p \in FreeProcs :
                 /\ life'[d] = [life[d] EXCEPT !.run = Append(life[d].run, p)]
                 /\ proc' = [proc EXCEPT ![p] = Spawned(d, Params(d, n))]
  <2>1. PICK p \in FreeProcs :
           /\ life'[d] = [life[d] EXCEPT !.run = Append(life[d].run, p)]
           /\ proc' = [proc EXCEPT ![p] = Spawned(d, Params(d, n))]
    BY <1>6
  <2>2. p \in Procs \cup {NoProc}
    BY DEF FreeProcs
  <2>3. /\ life'[d].pc = life[d].pc /\ life'[d].reaped = life[d].reaped
        /\ life'[d].sock = life[d].sock
        /\ \A j \in DOMAIN life'[d].run :
              \/ j = n /\ life'[d].run[j] = p
              \/ j # n /\ j \in DOMAIN life[d].run /\ life'[d].run[j] = life[d].run[j]
        /\ \A j \in DOMAIN life[d].run :
              j \in DOMAIN life'[d].run /\ life'[d].run[j] = life[d].run[j]
        /\ n \in DOMAIN life'[d].run /\ life'[d].run[n] = p
    BY <1>1, <2>1, <2>2, AppendRun
  <2>4. SpawnsAt(d, n, p) /\ RunsMore(d)
    BY <2>1, <2>3 DEF SpawnsAt, RunsMore, Running
  <2>5. life[d].pc \in {"create", "serve"}
    BY <1>2 DEF At
  <2> QED
    BY <1>2, <1>6, <2>3, <2>4, <2>5, SpawnLone
<1>7. \/ \E procs : Ends(d, "failed", procs)
      \/ /\ life'[d] = [life[d] EXCEPT !.run = Append(life[d].run, NoProc)]
         /\ UNCHANGED <<proc, main_cg, cg>>
      \/ /\ main_cg' = TRUE /\ cg' = cg \cup Directories(Params(d, n).name)
         /\ \E p \in FreeProcs :
               /\ life'[d] = [life[d] EXCEPT !.run = Append(life[d].run, p)]
               /\ proc' = [proc EXCEPT ![p] = Spawned(d, Params(d, n))]
  BY <1>2, ZenonT(30) DEF CreateEffect
<1> QED
  BY <1>4, <1>5, <1>6, <1>7, Zenon

(* A start for a client, or for a restart. *)
LEMMA StartLone ==
    ASSUME LivesTypes, NEW d \in Lives, RunsOwn(d), Lone(d), Configured(d),
           NEW i \in DOMAIN life[d].run, Start(d, i)
    PROVE  Lone(d)'
<1>1. /\ Works(d) /\ At(d, "serve") /\ file' = file /\ i \in 1..Len(life[d].apps)
      /\ life[d].run[i] = NoProc
      /\ main_cg' = TRUE /\ cg' = cg \cup Directories(Params(d, i).name)
  BY StartFacts
<1>2. /\ life'[d].pc = life[d].pc /\ life'[d].reaped = life[d].reaped
      /\ life'[d].sock = life[d].sock /\ DOMAIN life'[d].run = DOMAIN life[d].run
  BY StartSpawns
<1>3. PICK p \in FreeProcs : life'[d].run[i] = p /\ SpawnsAt(d, i, p)
  BY StartSpawns
<1>4. RunsMore(d)
  BY <1>1, <1>2, <1>3 DEF RunsMore, SpawnsAt, Running
<1>5. life[d].pc \in {"create", "serve"} /\ i \in DOMAIN life'[d].run
  BY <1>1, <1>2 DEF At
<1> QED
  BY <1>1, <1>2, <1>3, <1>4, <1>5, SpawnLone

(* A path of one part is not in another's way. *)
LEMMA ShortPath ==
    ASSUME NEW q \in Names, ~(Len(q) > 1), NEW path \in Names, path \in Prefixes(q)
    PROVE  path = q
<1>1. path # <<>> /\ q \in Seq(STRING) /\ q # <<>>
  BY DEF Names
<1>2. path \in Directories(q)
  BY <1>1 DEF Directories
<1>3. Len(q) \in Nat /\ Len(q) # 0
  BY <1>1, EmptySeq, LenProperties
<1>4. \A n \in Nat : n # 0 /\ ~(n > 1) => n = 1
  OBVIOUS
<1>5. Len(q) = 1
  BY <1>3, <1>4, Zenon
<1> QED
  BY <1>2, <1>5, DirectoriesFacts

(* An application is reaped: its cgroup goes, unless one with a longer path is
   in it, and so does whatever others had left in it. *)
LEMMA ReapLone ==
    ASSUME LivesTypes, NEW d \in Lives, RunsOwn(d), Lone(d), Configured(d),
           NEW i \in DOMAIN life[d].run, Reap(d, i)
    PROVE  Lone(d)'
<1>1. /\ Works(d) /\ At(d, "serve") /\ Alive(d) /\ i \in 1..Len(life[d].run)
      /\ UNCHANGED <<file, main_cg>> /\ ReapEffect(d, i)
  BY ReapFacts DEF Works
<1>2. PICK p \in Procs :
         /\ p = life[d].run[i] /\ proc[p].st = "zombie" /\ proc[p].path \in Names
         /\ life'[d] = [life[d] EXCEPT
               !.run = [life[d].run EXCEPT ![i] = NoProc],
               !.reaped = life[d].reaped \cup {proc[p].path}]
         /\ \A q \in Procs : proc'[q] = ReapedProc(p, proc[p].path, q)
         /\ cg' = CgroupDeleted(proc[p].path)
  BY <1>1 DEF ReapEffect
<1>3. PICK path \in Names : path = proc[p].path
  BY <1>2
<1>4. /\ life'[d].run = [life[d].run EXCEPT ![i] = NoProc] /\ life'[d].pc = life[d].pc
      /\ life'[d].reaped = life[d].reaped \cup {path}
      /\ life'[d].sock = life[d].sock /\ life'[d].leftover = life[d].leftover
      /\ NoProc \in Procs \cup {NoProc} /\ p # NoProc
  BY <1>2, <1>3, LivesAssumption DEF LivesTypes, LifeRecord
<1>5. /\ DOMAIN life'[d].run = DOMAIN life[d].run
      /\ \A j \in DOMAIN life'[d].run :
            \/ j = i /\ life'[d].run[j] = NoProc
            \/ j # i /\ j \in DOMAIN life[d].run /\ life'[d].run[j] = life[d].run[j]
  BY <1>1, <1>4, ExceptRun
<1>6. ASSUME NEW q \in Procs, q # p
      PROVE  /\ proc[q].st # "free" /\ Alive(proc[q].life) => Kept(q)
             /\ proc'[q].st = "live" => proc'[q] = proc[q] /\ proc[q].path # path
  BY <1>2, <1>3, <1>6, ReapKeeps
<1>7. i \in Running(d) /\ RunPath(d, i) = path
  BY <1>2, <1>3, <1>4 DEF Running, RunPath
<1>8. ASSUME NEW j \in Running(d), j # i
      PROVE  j \in Running(d)' /\ RunPath(d, j)' = RunPath(d, j)
  <2>1. /\ life[d].run[j] \in Procs /\ proc[life[d].run[j]].st # "free"
        /\ j \in DOMAIN life[d].run /\ life[d].run[j] # NoProc
    BY <1>1, RunningFacts
  <2>2. proc[life[d].run[j]].life = d
    BY <1>1 DEF RunsOwn
  <2>3. life[d].run[j] # p
    BY <1>1, <1>2, <1>4, <1>8, <2>1 DEF RunsOwn
  <2>4. life'[d].run[j] = life[d].run[j] /\ j \in DOMAIN life'[d].run
    BY <1>5, <1>8, <2>1
  <2>5. Kept(life[d].run[j])
    BY <1>1, <1>6, <2>1, <2>2, <2>3
  <2> QED
    BY <2>1, <2>4, <2>5 DEF Running, RunPath, Kept
<1>9. SocketsRight(d)'
  BY <1>1, <1>4 DEF Lone, SocketsRight, At
<1>10. Orphans(d)'
  <2> SUFFICES ASSUME NEW q \in Procs, proc'[q].st = "live",
                      proc'[q].path \in life[d].reaped \cup {path}
               PROVE  proc'[q].life = d
    BY <1>4 DEF Orphans
  <2>1. q # p
    <3>1. proc'[p].st = "free"
      BY <1>2 DEF ReapedProc, FreeProc
    <3> QED
      BY <3>1
  <2>2. proc'[q] = proc[q] /\ proc[q].path # path
    BY <1>6, <2>1
  <2> QED
    BY <1>1, <2>2 DEF Lone, Orphans
<1>11. CgroupsExplained(d)'
  <2>1. CASE LongPath(d)
    <3>1. CASE \E x \in life[d].leftover \cup life[d].reaped : Len(x) > 1
      <4>1. LongPath(d)'
        BY <1>4, <3>1 DEF LongPath
      <4> QED
        BY <4>1 DEF CgroupsExplained
    <3>2. CASE \E j \in Running(d) : Len(RunPath(d, j)) > 1
      <4>1. PICK j \in Running(d) : Len(RunPath(d, j)) > 1
        BY <3>2
      <4>2. CASE j = i
        <5>1. LongPath(d)'
          BY <1>4, <1>7, <4>1, <4>2 DEF LongPath
        <5> QED
          BY <5>1 DEF CgroupsExplained
      <4>3. CASE j # i
        <5>1. LongPath(d)'
          BY <1>8, <4>1, <4>3 DEF LongPath, RunPath
        <5> QED
          BY <5>1 DEF CgroupsExplained
      <4> QED
        BY <4>2, <4>3
    <3> QED
      BY <2>1, <3>1, <3>2 DEF LongPath, RunPath
  <2>2. CASE ~LongPath(d)
    <3>1. \A q \in cg : \/ q \in life[d].leftover \ life[d].reaped
                        \/ \E j \in Running(d) : RunPath(d, j) = q
      BY <1>1, <2>2 DEF Lone, CgroupsExplained, RunPath
    <3>2. \A q \in cg : q \in Names /\ ~(Len(q) > 1)
      <4>1. \A q \in cg : q \in Names
        BY DEF LivesTypes
      <4> QED
        BY <2>2, <3>1, <4>1, Zenon DEF LongPath, RunPath
    <3>3. ASSUME NEW q \in cg, path \in Prefixes(q) PROVE q = path
      BY <3>2, <3>3, ShortPath
    <3>4. cg' = cg \ {path}
      BY <1>2, <1>3, <3>3 DEF CgroupDeleted
    <3>5. ASSUME NEW q \in cg'
          PROVE  \/ q \in life'[d].leftover \ life'[d].reaped
                 \/ \E j \in Running(d)' : RunPath(d, j)' = q
      <4>1. q \in cg /\ q # path
        BY <3>4
      <4>2. CASE q \in life[d].leftover \ life[d].reaped
        BY <1>4, <4>1, <4>2
      <4>3. CASE \E j \in Running(d) : RunPath(d, j) = q
        BY <1>7, <1>8, <4>1, <4>3
      <4> QED
        BY <3>1, <4>1, <4>2, <4>3
    <3> QED
      BY <3>5 DEF CgroupsExplained, RunPath
  <2> QED
    BY <2>1, <2>2
<1> QED
  BY <1>9, <1>10, <1>11 DEF Lone

(* A process ends. *)
LEMMA ExitLone ==
    ASSUME LivesTypes, NEW d \in Lives, RunsOwn(d), Lone(d), NEW p \in Procs, ProcExit(p)
    PROVE  Lone(d)'
<1>1. /\ proc[p].st = "live" /\ UNCHANGED <<life, file, main_cg, cg, met>>
      /\ proc' = [proc EXCEPT ![p] = Dead(proc[p])]
  BY ExitFacts
<1> SUFFICES ASSUME Alive(d) PROVE Lone(d)'
  BY <1>1 DEF Lone, SocketsRight, CgroupsExplained, Orphans, Alive
<1>2. PICK r \in ProcRecord : r = proc[p]
  BY DEF LivesTypes
<1>3. /\ Dead(r).st # "live"
      /\ Alive(r.life) => Dead(r).path = r.path
  BY <1>1, <1>2, DeadFacts
<1>4. proc'[p] = Dead(r) /\ \A q \in Procs : q # p => proc'[q] = proc[q]
  BY <1>1, <1>2 DEF LivesTypes
<1>5. Running(d)' = Running(d)
  BY <1>1 DEF Running
<1>6. ASSUME NEW j \in Running(d) PROVE RunPath(d, j)' = RunPath(d, j)
  <2>1. life[d].run[j] \in Procs /\ proc[life[d].run[j]].life = d
    BY RunningFacts DEF RunsOwn
  <2>2. CASE life[d].run[j] = p
    BY <1>1, <1>2, <1>3, <1>4, <2>1, <2>2 DEF RunPath
  <2>3. CASE life[d].run[j] # p
    BY <1>1, <1>4, <2>1, <2>3 DEF RunPath
  <2> QED
    BY <2>2, <2>3
<1>7. SocketsRight(d)'
  BY <1>1, <1>5 DEF Lone, SocketsRight, At, Alive, Socket
<1>8. Orphans(d)'
  BY <1>1, <1>3, <1>4 DEF Lone, Orphans
<1>9. LongPath(d) => LongPath(d)'
  BY <1>1, <1>5, <1>6 DEF LongPath, RunPath
<1>10. CgroupsExplained(d)'
  BY <1>1, <1>5, <1>6, <1>9 DEF Lone, CgroupsExplained, RunPath
<1> QED
  BY <1>7, <1>8, <1>10 DEF Lone

(* A daemon begins: the cgroups that it finds are what was left over. *)
LEMMA BootLone ==
    ASSUME BaseInv, NEW d \in Lives, Boot(d)
    PROVE  Lone(d)'
<1>1. /\ LivesTypes /\ UNCHANGED <<file, cg, proc>>
      /\ life[d].run = <<>> /\ life[d].reaped = {} /\ life[d] \in LifeRecord
  BY DEF BaseInv, Boot, InOrder, LivesTypes
<1>2. \/ \E f \in ConfigFiles : BootFails(d, f)
      \/ \E f \in ConfigFiles, own \in Owners :
            \E entries \in Listings(f) : BootsWith(d, f, own, entries)
  BY <1>1, BootFacts
<1>3. CASE \E f \in ConfigFiles : BootFails(d, f)
  <2>1. life'[d].pc \in Ended
    BY <1>1, <1>3 DEF BootFails, LifeRecord, Ended
  <2> QED
    BY <2>1 DEF Lone, SocketsRight, CgroupsExplained, Orphans, Alive
<1>4. CASE \E f \in ConfigFiles, own \in Owners :
              \E entries \in Listings(f) : BootsWith(d, f, own, entries)
  <2>1. /\ life'[d].pc = "create" /\ life'[d].leftover = cg /\ life'[d].reaped = {}
        /\ main_cg' = TRUE
    BY <1>1, <1>4 DEF BootsWith, LifeRecord
  <2>2. SocketsRight(d)'
    BY <2>1 DEF SocketsRight, At
  <2>3. CgroupsExplained(d)'
    BY <1>1, <2>1 DEF CgroupsExplained
  <2>4. Orphans(d)'
    BY <2>1 DEF Orphans
  <2> QED
    BY <2>2, <2>3, <2>4 DEF Lone
<1> QED
  BY <1>2, <1>3, <1>4

(* At first no daemon runs. *)
LEMMA LoneInit == Init => LoneInv
<1> SUFFICES ASSUME Init PROVE LoneInv
  OBVIOUS
<1>1. \A d \in Lives : life[d].pc = "off"
  BY DEF Init
<1> QED
  BY <1>1 DEF LoneInv, Lone, SocketsRight, CgroupsExplained, Orphans, Alive, Ended

(* The steps of a daemon that is there. *)
WorkStep(d) ==
    \/ CreateApp(d)
    \/ AppsCreated(d) \/ Check(d) \/ RemoveStale(d) \/ Bind(d) \/ Quit(d) \/ Unlink(d)
    \/ \E i \in DOMAIN life[d].run : Start(d, i) \/ Reap(d, i)
    \/ DeleteMain(d) \/ Crash(d)

(* They leave the other daemons alone. *)
LEMMA WorkStepWorks ==
    ASSUME LivesTypes, NEW d \in Lives, Configured(d), WorkStep(d)
    PROVE  Works(d)
BY CreateFacts, CreatedFacts, CheckFacts, RemoveFacts, BindFacts, QuitFacts, UnlinkFacts,
   StartFacts, ReapFacts, DeleteMainFacts, CrashFacts DEF WorkStep

(* There are no other steps. *)
LEMMA NextSteps ==
    ASSUME [Next]_vars
    PROVE  \/ \E d \in Lives : Boot(d) \/ WorkStep(d)
           \/ \E p \in Procs : ProcExit(p)
           \/ UNCHANGED vars
BY Zenon DEF Next, WorkStep

(* The daemon that is the only one keeps its files, its cgroups and its
   applications in order. *)
LEMMA LoneNext == BaseInv /\ OwnedInv /\ LoneInv /\ [Next]_vars => LoneInv'
<1> SUFFICES ASSUME BaseInv, OwnedInv, LoneInv, [Next]_vars,
                    NEW d \in Lives, d \notin met'
             PROVE  Lone(d)'
  BY DEF LoneInv
<1>1. LivesTypes /\ (\A e \in Lives : Configured(e)) /\ RunsOwn(d)
  BY DEF BaseInv, OwnedInv
<1>2. CASE Boot(d)
  BY <1>2, BootLone
<1>3. CASE WorkStep(d)
  <2>1. Works(d)
    BY <1>1, <1>3, WorkStepWorks
  <2>2. Lone(d)
    BY <2>1 DEF LoneInv, Works
  <2>3. CASE CreateApp(d)
    BY <1>1, <2>2, <2>3, CreateLone
  <2>4. CASE \/ AppsCreated(d) \/ Check(d) \/ RemoveStale(d) \/ Bind(d)
             \/ Quit(d) \/ Unlink(d)
    BY <1>1, <2>2, <2>4, SocketsLone
  <2>5. CASE \E i \in DOMAIN life[d].run : Start(d, i) \/ Reap(d, i)
    BY <1>1, <2>2, <2>5, StartLone, ReapLone
  <2>6. CASE DeleteMain(d)
    <3>1. "exited" \in Ended /\ "panicked" \in Ended
      BY DEF Ended
    <3> QED
      BY <1>1, <2>6, <3>1, DeleteMainFacts, EndsLone
  <2>7. CASE Crash(d)
    <3>1. "killed" \in Ended
      BY DEF Ended
    <3> QED
      BY <1>1, <2>7, <3>1, CrashFacts, EndsLone
  <2> QED
    BY <1>3, <2>3, <2>4, <2>5, <2>6, <2>7 DEF WorkStep
<1>4. ASSUME NEW e \in Lives, e # d, Boot(e) \/ WorkStep(e) PROVE Lone(d)'
  <2>1. Boot(e) \/ Works(e)
    BY <1>1, <1>4, WorkStepWorks
  <2> QED
    BY <1>4, <2>1, OthersLone
<1>5. ASSUME NEW p \in Procs, ProcExit(p) PROVE Lone(d)'
  <2>1. Lone(d)
    BY <1>5 DEF LoneInv, ProcExit
  <2> QED
    BY <1>1, <1>5, <2>1, ExitLone
<1>6. CASE UNCHANGED vars
  BY <1>6 DEF vars, LoneInv, Lone, SocketsRight, CgroupsExplained, Orphans, LongPath,
     Running, Alive, At, Socket
<1> QED
  BY <1>2, <1>3, <1>4, <1>5, <1>6, NextSteps

(* Once a daemon that is the only one has reaped an application, no process
   that an earlier daemon had started for it is left (AppRuntime::stop). *)
THEOREM OrphansReapedAlways == Spec => []OrphansReaped
<1>1. Init => BaseInv /\ OwnedInv /\ LoneInv
  BY BaseInit, OwnedInit, LoneInit
<1>2. BaseInv /\ OwnedInv /\ LoneInv /\ [Next]_vars => (BaseInv /\ OwnedInv /\ LoneInv)'
  BY BaseNext, OwnedNext, LoneNext
<1>3. LoneInv => OrphansReaped
  BY DEF LoneInv, Lone, Orphans, OrphansReaped
<1> QED
  BY <1>1, <1>2, <1>3, PTL DEF Spec

(* A daemon that serves, and was never one of two, answers at both of its
   paths and supervises every application that its configuration describes:
   whatever was left at the paths, and in whatever order apps_dir was listed
   (bind, all_apps). *)
THEOREM ServesAllAlways == Spec => []ServesAll
<1>1. Init => BaseInv /\ OwnedInv /\ LoneInv
  BY BaseInit, OwnedInit, LoneInit
<1>2. BaseInv /\ OwnedInv /\ LoneInv /\ [Next]_vars => (BaseInv /\ OwnedInv /\ LoneInv)'
  BY BaseNext, OwnedNext, LoneNext
<1>3. BaseInv /\ LoneInv => ServesAll
  <2> SUFFICES ASSUME BaseInv, LoneInv, NEW d \in Lives, d \notin met, At(d, "serve")
               PROVE  /\ \A s \in Range(Sockets) : file[s] = d
                      /\ Range(life[d].apps) = Described(life[d].config[1])
    BY DEF ServesAll
  <2>1. Alive(d) /\ Configured(d) /\ Lone(d)
    BY DEF At, Alive, Ended, BaseInv, LoneInv
  <2>2. Range(Sockets) = {"control", "log"}
    BY SocketsRange
  <2>3. \A s \in {"control", "log"} : file[s] = d
    BY <2>1 DEF Lone, SocketsRight
  <2>4. PICK f \in ConfigFiles :
           /\ Loads(f) /\ life[d].config = <<f>>
           /\ \E entries \in Listings(f) : life[d].apps = AllApps(f, entries)
    BY <2>1 DEF Configured
  <2>5. PICK entries \in Listings(f) : life[d].apps = AllApps(f, entries)
    BY <2>4
  <2>6. PICK apps : apps = life[d].apps /\ apps = AllApps(f, entries)
    BY <2>5
  <2>7. f.kind = "config" /\ life[d].config[1] = f
    BY <2>4 DEF Loads
  <2>8. Range(apps) = Described(f)
    BY <2>6, <2>7, AllAppsFacts
  <2> QED
    BY <2>2, <2>3, <2>6, <2>7, <2>8
<1> QED
  BY <1>1, <1>2, <1>3, PTL DEF Spec

-----------------------------------------------------------------------------
(* How a daemon that is the only one comes to its end *)

(* A turn of the loop that creates the applications fails over a size, or over
   the tokens of all that autostart. *)
LEMMA SizeUnusable ==
    ASSUME LivesTypes, NEW d \in Lives, Configured(d), Alive(d),
           NEW n \in 1..Len(life[d].apps), ~RingMapped(Params(d, n).log_buffer_size)
    PROVE  Unusable(life[d].config[1])
<1>1. PICK f \in ConfigFiles :
         /\ Loads(f) /\ life[d].config = <<f>>
         /\ \E entries \in Listings(f) : life[d].apps = AllApps(f, entries)
  BY DEF Configured
<1>2. PICK entries \in Listings(f) : life[d].apps = AllApps(f, entries)
  BY <1>1
<1>3. PICK apps : apps = life[d].apps /\ apps = AllApps(f, entries)
  BY <1>2
<1>4. f.kind = "config" /\ life[d].config[1] = f
  BY <1>1 DEF Loads
<1>5. Range(apps) = Described(f) /\ apps \in Seq(AppEntries)
  BY <1>3, <1>4, AllAppsFacts
<1>6. PICK a : a = apps[n]
  OBVIOUS
<1>7. n \in DOMAIN apps
  BY <1>3, <1>5, LenProperties
<1>8. a \in Described(f)
  BY <1>5, <1>6, <1>7 DEF Range
<1>9. PICK size : size = OrElse(a.log_buffer_size, f.log_buffer_size)
  OBVIOUS
<1>10. Params(d, n).log_buffer_size = size
  BY <1>3, <1>4, <1>6, <1>9 DEF Params, AppParams
<1>11. size \in Nat
  BY <1>10, SpawnedFacts
<1>12. size = 0 \/ size % PageSize # 0
  BY <1>10, <1>11 DEF RingMapped
<1> QED
  BY <1>4, <1>8, <1>9, <1>12 DEF Unusable

(* Without tokens for one that autostarts there are none for all of them. *)
LEMMA TokensUnusable ==
    ASSUME LivesTypes, NEW d \in Lives, Configured(d), Alive(d), RunsOwn(d),
           At(d, "create"), Len(life[d].run) + 1 \in 1..Len(life[d].apps),
           life[d].apps[Len(life[d].run) + 1].autostart, ~HasTokens(d)
    PROVE  Unusable(life[d].config[1])
<1>1. PICK f \in ConfigFiles :
         /\ Loads(f) /\ life[d].config = <<f>>
         /\ \E entries \in Listings(f) : life[d].apps = AllApps(f, entries)
  BY DEF Configured
<1>2. PICK entries \in Listings(f) : life[d].apps = AllApps(f, entries)
  BY <1>1
<1>3. PICK apps : apps = life[d].apps /\ apps = AllApps(f, entries)
  BY <1>2
<1>4. f.kind = "config" /\ life[d].config[1] = f
  BY <1>1 DEF Loads
<1>5. PICK n : n = Len(life[d].run) + 1
  OBVIOUS
<1>6. /\ DOMAIN life[d].run = 1..Len(life[d].run) /\ Len(life[d].run) \in Nat
      /\ Len(life[d].run) <= Len(life[d].apps) /\ Len(life[d].apps) \in Nat
  BY ConfiguredFacts
<1>7. PICK R : R = Running(d)
  OBVIOUS
<1>8. ASSUME NEW j \in R PROVE j \in Starting(apps) /\ j # n
  <2>1. j \in 1..Len(life[d].run) /\ life[d].apps[j].autostart
    BY <1>6, <1>7 DEF RunsOwn, Running
  <2> QED
    BY <1>3, <1>5, <1>6, <2>1 DEF Starting
<1>9. n \in Starting(apps)
  BY <1>3, <1>5 DEF Starting
<1>10. PICK T : T = R \cup {n}
  OBVIOUS
<1>11. R \subseteq Starting(apps) /\ T \subseteq Starting(apps) /\ n \notin R
  BY <1>8, <1>9, <1>10
<1>12. IsFiniteSet(R)
  BY <1>3, <1>4, <1>11, CountStarts
<1>13. Cardinality(T) <= Cardinality(Autostarted(f))
  BY <1>3, <1>4, <1>11, CountStarts
<1>14. Cardinality(T) = Cardinality(R) + 1
  BY <1>10, <1>11, <1>12, FS_AddElement
<1>15. /\ Cardinality(R) \in Nat /\ Cardinality(Autostarted(f)) \in Nat
  BY <1>4, <1>12, AutostartedFinite, FS_CardinalityType
<1>16. f.max_mio_tokens \in Nat
  BY <1>4, LivesAssumption DEF Files
<1>17. ~(3 * (Cardinality(R) + 1) <= f.max_mio_tokens)
  BY <1>4, <1>7 DEF HasTokens
<1>18. 3 * Cardinality(Autostarted(f)) > f.max_mio_tokens
  BY <1>13, <1>14, <1>15, <1>16, <1>17
<1> QED
  BY <1>4, <1>18 DEF Unusable

(* What an end is explained by. *)
Explained(d) ==
    /\ At(d, "failed") => Unusable(life[d].config[1])
    /\ At(d, "panicked") =>
          \/ life[d].leftover \ life[d].reaped # {}
          \/ \E path \in life[d].reaped : Len(path) > 1

(* So the loop fails only over a configuration that nobody can serve. *)
LEMMA CreateExplained ==
    ASSUME LivesTypes, NEW d \in Lives, Configured(d), RunsOwn(d), CreateApp(d)
    PROVE  Explained(d)'
<1>1. PICK n : n = Len(life[d].run) + 1
  OBVIOUS
<1>2. /\ Works(d) /\ At(d, "create") /\ Alive(d)
      /\ n \in 1..Len(life[d].apps) /\ CreateEffect(d, n)
  BY <1>1, CreateFacts DEF Works
<1>3. life'[d].config = life[d].config
  BY <1>2 DEF Works
<1>4. CASE Unusable(life[d].config[1])
  <2>1. Unusable(life'[d].config[1])
    BY <1>3, <1>4
  <2>2. life'[d].pc # "panicked"
    <3>1. (\E procs : Ends(d, "failed", procs)) \/ life'[d].pc = "create"
      <4>1. ASSUME NEW s, life'[d] = [life[d] EXCEPT !.run = s]
            PROVE  life'[d].pc = "create"
        BY <1>2, <4>1 DEF LivesTypes, LifeRecord, At
      <4> QED
        BY <1>2, <4>1, Zenon DEF CreateEffect
    <3>2. ASSUME NEW procs, Ends(d, "failed", procs) PROVE life'[d].pc = "failed"
      BY <3>2, EndsFields
    <3> QED
      BY <3>1, <3>2
  <2> QED
    BY <2>1, <2>2 DEF Explained, At, Unusable
<1>5. CASE ~Unusable(life[d].config[1])
  <2>1. RingMapped(Params(d, n).log_buffer_size)
    BY <1>2, <1>5, SizeUnusable
  <2>2. life[d].apps[n].autostart => HasTokens(d)
    BY <1>1, <1>2, <1>5, TokensUnusable
  <2>3. ASSUME NEW s, life'[d] = [life[d] EXCEPT !.run = s]
        PROVE  life'[d].pc = "create"
    BY <1>2, <2>3 DEF LivesTypes, LifeRecord, At
  <2>4. life'[d].pc = "create"
    BY <1>2, <2>1, <2>2, <2>3, Zenon DEF CreateEffect
  <2> QED
    BY <2>4 DEF Explained, At
<1> QED
  BY <1>4, <1>5

ExplainedInv == \A d \in Lives \ met : Explained(d)

(* Every end of a daemon that is the only one is explained. *)
LEMMA ExplainedNext ==
    BaseInv /\ OwnedInv /\ LoneInv /\ ExplainedInv /\ [Next]_vars => ExplainedInv'
<1> SUFFICES ASSUME BaseInv, OwnedInv, LoneInv, ExplainedInv, [Next]_vars,
                    NEW d \in Lives, d \notin met'
             PROVE  Explained(d)'
  BY DEF ExplainedInv
<1>1. LivesTypes /\ (\A e \in Lives : Configured(e)) /\ RunsOwn(d) /\ life[d] \in LifeRecord
  BY DEF BaseInv, OwnedInv, LivesTypes
<1>2. ASSUME life'[d] = life[d], d \notin met PROVE Explained(d)'
  <2>1. Explained(d)
    BY <1>2 DEF ExplainedInv
  <2> QED
    BY <1>2, <2>1 DEF Explained, At, Unusable
<1>3. ASSUME life'[d].pc \notin {"failed", "panicked"} PROVE Explained(d)'
  BY <1>3 DEF Explained, At
<1>4. CASE Boot(d)
  <2>1. \/ \E f \in ConfigFiles : BootFails(d, f)
        \/ \E f \in ConfigFiles, own \in Owners :
              \E entries \in Listings(f) : BootsWith(d, f, own, entries)
    BY <1>1, <1>4, BootFacts
  <2>2. CASE \E f \in ConfigFiles, own \in Owners :
                \E entries \in Listings(f) : BootsWith(d, f, own, entries)
    <3>1. life'[d].pc = "create"
      BY <1>1, <2>2 DEF BootsWith, LifeRecord
    <3> QED
      BY <1>3, <3>1
  <2>3. ASSUME NEW f \in ConfigFiles, BootFails(d, f) PROVE Explained(d)'
    <3>1. ~Loads(f) /\ life'[d].pc = "failed" /\ life'[d].config[1] = f
      BY <1>1, <2>3 DEF BootFails, LifeRecord
    <3>2. Unusable(f)
      BY <3>1 DEF Unusable, Loads, ValidLogBufferSize
    <3> QED
      BY <3>1, <3>2 DEF Explained, At, Unusable
  <2> QED
    BY <2>1, <2>2, <2>3
<1>5. CASE WorkStep(d)
  <2>1. Works(d)
    BY <1>1, <1>5, WorkStepWorks
  <2>2. Lone(d) /\ Alive(d)
    BY <2>1 DEF LoneInv, Works
  <2>3. ASSUME NEW pc \in {"check", "remove", "bind", "serve", "unlink", "rmdir"},
               NEW sock, NEW stale, Moved(d, pc, sock, stale)
        PROVE  Explained(d)'
    <3>1. life'[d].pc = pc
      BY <1>1, <2>3, MovedFields
    <3> QED
      BY <1>3, <3>1
  <2>4. CASE CreateApp(d)
    BY <1>1, <2>4, CreateExplained
  <2>5. CASE AppsCreated(d)
    BY <1>1, <2>3, <2>5, CreatedFacts
  <2>6. CASE Check(d)
    BY <1>1, <2>3, <2>6, CheckFacts
  <2>7. CASE RemoveStale(d)
    <3>1. /\ At(d, "remove")
          /\ \/ life[d].stale /\ file[Socket(d)] = NobodysFile
             \/ Moved(d, "bind", life[d].sock, FALSE)
      BY <1>1, <2>7, RemoveFacts
    <3>2. Moved(d, "bind", life[d].sock, FALSE)
      BY <2>2, <3>1 DEF Lone, SocketsRight
    <3> QED
      BY <2>3, <3>2
  <2>8. CASE Bind(d)
    <3>1. /\ At(d, "bind")
          /\ \/ file[Socket(d)] # NobodysFile
             \/ Moved(d, "check", 2, life[d].stale) \/ Moved(d, "serve", 1, life[d].stale)
      BY <1>1, <2>8, BindFacts
    <3>2. Moved(d, "check", 2, life[d].stale) \/ Moved(d, "serve", 1, life[d].stale)
      BY <2>2, <3>1 DEF Lone, SocketsRight
    <3> QED
      BY <2>3, <3>2
  <2>9. ASSUME NEW i \in DOMAIN life[d].run, Start(d, i) PROVE Explained(d)'
    <3>1. life'[d].pc = "serve"
      BY <1>1, <2>9, StartFacts, StartSpawns DEF At
    <3> QED
      BY <1>3, <3>1
  <2>10. ASSUME NEW i \in DOMAIN life[d].run, Reap(d, i) PROVE Explained(d)'
    <3>1. At(d, "serve") /\ ReapEffect(d, i)
      BY <1>1, <2>10, ReapFacts
    <3>2. life'[d].pc = "serve"
      BY <1>1, <3>1 DEF ReapEffect, LifeRecord, At
    <3> QED
      BY <1>3, <3>2
  <2>11. CASE Quit(d)
    BY <1>1, <2>3, <2>11, QuitFacts
  <2>12. CASE Unlink(d)
    <3>1. Moved(d, "unlink", 2, life[d].stale) \/ Moved(d, "rmdir", 1, life[d].stale)
      BY <1>1, <2>12, UnlinkFacts
    <3> QED
      BY <2>3, <3>1
  <2>13. CASE DeleteMain(d)
    <3>1. /\ At(d, "rmdir")
          /\ \/ Ends(d, "exited", proc)
             \/ (~main_cg \/ cg # {}) /\ Ends(d, "panicked", proc)
      BY <1>1, <2>13, DeleteMainFacts
    <3>2. CASE Ends(d, "exited", proc)
      <4>1. life'[d].pc = "exited"
        BY <1>1, <3>2, EndsFields
      <4> QED
        BY <1>3, <4>1
    <3>3. CASE (~main_cg \/ cg # {}) /\ Ends(d, "panicked", proc)
      <4>1. /\ life'[d].pc = "panicked" /\ life'[d].reaped = life[d].reaped
            /\ life'[d].leftover = life[d].leftover
        BY <1>1, <3>3, EndsFields
      <4>2. cg # {} /\ Running(d) = {}
        BY <2>2, <3>1, <3>3 DEF Lone, SocketsRight, At
      <4>3. \/ \E x \in life[d].leftover \cup life[d].reaped : Len(x) > 1
            \/ \E q \in cg : q \in life[d].leftover \ life[d].reaped
        BY <2>2, <4>2 DEF Lone, CgroupsExplained, LongPath
      <4>4. \/ life[d].leftover \ life[d].reaped # {}
            \/ \E path \in life[d].reaped : Len(path) > 1
        BY <4>3
      <4> QED
        BY <4>1, <4>4 DEF Explained, At
    <3> QED
      BY <3>1, <3>2, <3>3
  <2>14. CASE Crash(d)
    <3>1. life'[d].pc = "killed"
      BY <1>1, <2>14, CrashFacts, EndsFields
    <3> QED
      BY <1>3, <3>1
  <2> QED
    BY <1>5, <2>4, <2>5, <2>6, <2>7, <2>8, <2>9, <2>10, <2>11, <2>12, <2>13, <2>14
       DEF WorkStep
<1>6. ASSUME NEW e \in Lives, e # d, Boot(e) \/ WorkStep(e) PROVE Explained(d)'
  <2>1. Boot(e) \/ Works(e)
    BY <1>1, <1>6, WorkStepWorks
  <2>2. d \notin met /\ life'[d] = life[d]
    BY <1>6, <2>1, OthersLone
  <2> QED
    BY <1>2, <2>2
<1>7. ASSUME NEW p \in Procs, ProcExit(p) PROVE Explained(d)'
  BY <1>2, <1>7 DEF ProcExit
<1>8. CASE UNCHANGED vars
  BY <1>2, <1>8 DEF vars
<1> QED
  BY <1>4, <1>5, <1>6, <1>7, <1>8, NextSteps

(* At first no daemon has ended. *)
LEMMA ExplainedInit == Init => ExplainedInv
<1> SUFFICES ASSUME Init PROVE ExplainedInv
  OBVIOUS
<1>1. \A d \in Lives : life[d].pc = "off"
  BY DEF Init
<1> QED
  BY <1>1 DEF ExplainedInv, Explained, At

(* Everything that is known of the lives. *)
WholeInv == BaseInv /\ OwnedInv /\ LoneInv /\ ExplainedInv

(* It always holds. *)
LEMMA WholeAlways == Spec => []WholeInv
<1>1. Init => WholeInv
  BY BaseInit, OwnedInit, LoneInit, ExplainedInit DEF WholeInv
<1>2. WholeInv /\ [Next]_vars => WholeInv'
  BY BaseNext, OwnedNext, LoneNext, ExplainedNext DEF WholeInv
<1> QED
  BY <1>1, <1>2, PTL DEF Spec

(* A daemon that is the only one fails to come up over its own configuration
   only, never over what the daemons before it left (bind, main). *)
THEOREM FailureExplainedAlways == Spec => []FailureExplained
<1>1. WholeInv => FailureExplained
  BY DEF WholeInv, ExplainedInv, Explained, FailureExplained
<1> QED
  BY <1>1, WholeAlways, PTL

(* Its exit fails only over the cgroup of an application that was left by a
   daemon before it and that it never ran, or whose name is a path (main). *)
THEOREM PanicExplainedAlways == Spec => []PanicExplained
<1>1. WholeInv => PanicExplained
  BY DEF WholeInv, ExplainedInv, Explained, PanicExplained
<1> QED
  BY <1>1, WholeAlways, PTL

(* Nothing is there: no file, no cgroup and no process. *)
Nothing ==
    /\ \A s \in {"control", "log"} : file[s] = NobodysFile
    /\ ~main_cg /\ cg = {}
    /\ \A p \in Procs : proc[p].st = "free"

(* The last daemon so far has exited. *)
LastExited(d) == At(d, "exited") /\ \A e \in Lives : e > d => At(e, "off")

NothingInv == \A d \in Lives \ met : LastExited(d) => Nothing

(* A daemon exits in one way only. *)
LEMMA ExitsOnce ==
    ASSUME LivesTypes, NEW d \in Lives, Configured(d), WorkStep(d),
           life'[d].pc = "exited"
    PROVE  DeleteMain(d)
<1>1. life[d] \in LifeRecord
  BY DEF LivesTypes
<1>2. ASSUME NEW procs, Ends(d, "failed", procs) \/ Ends(d, "killed", procs) PROVE FALSE
  BY <1>2, EndsFields
<1>3. ASSUME NEW pc \in {"check", "remove", "bind", "serve", "unlink", "rmdir"},
             NEW sock, NEW stale, Moved(d, pc, sock, stale)
      PROVE  FALSE
  BY <1>3, MovedFields
<1>4. ~CreateApp(d)
  <2> SUFFICES ASSUME CreateApp(d) PROVE FALSE
    OBVIOUS
  <2>1. PICK n : n = Len(life[d].run) + 1
    OBVIOUS
  <2>2. At(d, "create") /\ CreateEffect(d, n)
    BY <2>1, CreateFacts
  <2>3. ASSUME NEW s, life'[d] = [life[d] EXCEPT !.run = s] PROVE FALSE
    BY <1>1, <2>2, <2>3 DEF LifeRecord, At
  <2> QED
    BY <1>2, <2>2, <2>3, Zenon DEF CreateEffect
<1>5. ~AppsCreated(d)
  BY <1>3, CreatedFacts
<1>6. ~Check(d)
  BY <1>3, CheckFacts
<1>7. ~RemoveStale(d)
  BY <1>2, <1>3, RemoveFacts
<1>8. ~Bind(d)
  <2> SUFFICES ASSUME Bind(d) PROVE FALSE
    OBVIOUS
  <2>1. \/ Ends(d, "failed", proc)
        \/ Moved(d, "check", 2, life[d].stale) \/ Moved(d, "serve", 1, life[d].stale)
    BY BindFacts
  <2> QED
    BY <1>2, <1>3, <2>1
<1>9. ~Quit(d)
  BY <1>3, QuitFacts
<1>10. ~Unlink(d)
  <2> SUFFICES ASSUME Unlink(d) PROVE FALSE
    OBVIOUS
  <2>1. Moved(d, "unlink", 2, life[d].stale) \/ Moved(d, "rmdir", 1, life[d].stale)
    BY UnlinkFacts
  <2> QED
    BY <1>3, <2>1
<1>11. ASSUME NEW i \in DOMAIN life[d].run, Start(d, i) PROVE FALSE
  BY <1>11, StartFacts, StartSpawns DEF At
<1>12. ASSUME NEW i \in DOMAIN life[d].run, Reap(d, i) PROVE FALSE
  <2>1. At(d, "serve") /\ ReapEffect(d, i)
    BY <1>12, ReapFacts
  <2> QED
    BY <1>1, <2>1 DEF ReapEffect, LifeRecord, At
<1>13. ~Crash(d)
  BY <1>2, CrashFacts
<1> QED
  BY <1>4, <1>5, <1>6, <1>7, <1>8, <1>9, <1>10, <1>11, <1>12, <1>13 DEF WorkStep

(* What is left after the exit of the only daemon. *)
LEMMA ExitLeaves ==
    ASSUME BaseInv, OwnedInv, NEW d \in Lives, d \notin met, Lone(d), DeleteMain(d),
           life'[d].pc = "exited"
    PROVE  Nothing'
<1>1. LivesTypes /\ Alone
  BY DEF BaseInv
<1>2. /\ Works(d) /\ At(d, "rmdir") /\ UNCHANGED <<file, cg>>
      /\ \/ main_cg' = FALSE /\ cg = {} /\ Ends(d, "exited", proc)
         \/ Ends(d, "panicked", proc)
  BY <1>1, DeleteMainFacts
<1>3. main_cg' = FALSE /\ cg = {} /\ Ends(d, "exited", proc)
  BY <1>1, <1>2, EndsFields
<1>4. Alive(d) /\ \A s \in {"control", "log"} : file[s] = NobodysFile
  BY <1>2 DEF Lone, SocketsRight, Works
<1>5. ASSUME NEW p \in Procs PROVE proc'[p].st = "free"
  <2>1. proc \in [Procs -> ProcRecord] /\ "exited" \in Ended
    BY <1>1 DEF LivesTypes, Ended
  <2>2. proc'[p] = IF proc[p].life = d /\ proc[p].st = "zombie"
                   THEN FreeProc ELSE proc[p]
    BY <1>1, <1>3, <2>1, EndsFacts, ZenonT(60)
  <2>3. /\ proc[p].st # "live"
        /\ proc[p].st = "zombie" => proc[p].life \in Lives /\ Alive(proc[p].life)
    BY <1>3 DEF OwnedInv, ProcsPlaced
  <2>4. proc[p].st = "zombie" => proc[p].life = d
    BY <1>1, <1>4, <2>3 DEF Alone
  <2>5. proc[p].st \in {"free", "live", "zombie"} /\ FreeProc.st = "free"
    BY <2>1 DEF ProcRecord, FreeProc
  <2> QED
    BY <2>2, <2>3, <2>4, <2>5
<1> QED
  BY <1>2, <1>3, <1>4, <1>5 DEF Nothing

(* Nothing comes back after the last exit until another daemon begins. *)
LEMMA NothingNext ==
    BaseInv /\ OwnedInv /\ LoneInv /\ NothingInv /\ [Next]_vars => NothingInv'
<1> SUFFICES ASSUME BaseInv, OwnedInv, LoneInv, NothingInv, [Next]_vars,
                    NEW d \in Lives, d \notin met', life'[d].pc = "exited",
                    \A e \in Lives : e > d => life'[e].pc = "off"
             PROVE  Nothing'
  BY DEF NothingInv, LastExited, At
<1>1. LivesTypes /\ InOrder /\ Alone /\ (\A e \in Lives : Configured(e))
  BY DEF BaseInv
<1>2. \A e \in Lives : e # d /\ ~(e > d) => e < d
  BY DEF Lives
<1>3. ASSUME NEW e \in Lives, Boot(e) PROVE FALSE
  <2>1. life'[e].pc # "off" /\ life'[e].pc # "exited"
    <3>1. \/ \E f \in ConfigFiles : BootFails(e, f)
          \/ \E f \in ConfigFiles, own \in Owners :
                \E entries \in Listings(f) : BootsWith(e, f, own, entries)
      BY <1>1, <1>3, BootFacts
    <3>2. life[e] \in LifeRecord
      BY <1>1 DEF LivesTypes
    <3> QED
      BY <3>1, <3>2 DEF BootFails, BootsWith, LifeRecord
  <2>2. e # d /\ e < d
    BY <1>2, <2>1
  <2>3. life'[d] = life[d] /\ At(e, "off")
    BY <1>1, <1>3, <2>2, BootFacts DEF Boot
  <2>4. At(d, "off")
    BY <1>1, <2>2, <2>3 DEF InOrder
  <2> QED
    BY <2>3, <2>4 DEF At
<1>4. ASSUME NEW e \in Lives, WorkStep(e), e # d PROVE FALSE
  <2>1. Works(e)
    BY <1>1, <1>4, WorkStepWorks
  <2>2. /\ Alive(e) /\ d \notin met /\ life'[d] = life[d] /\ life'[e].pc # "off"
    BY <1>4, <2>1 DEF Works
  <2>3. e < d /\ ~At(d, "off")
    BY <1>2, <1>4, <2>2 DEF At
  <2> QED
    BY <1>1, <2>2, <2>3 DEF Alone
<1>5. CASE WorkStep(d)
  <2>1. DeleteMain(d)
    BY <1>1, <1>5, ExitsOnce
  <2>2. d \notin met
    BY <2>1 DEF DeleteMain
  <2> QED
    BY <2>1, <2>2, ExitLeaves DEF LoneInv
<1>6. ASSUME UNCHANGED <<life, met>> PROVE Nothing
  BY <1>6 DEF NothingInv, LastExited, At
<1>7. ASSUME NEW p \in Procs, ProcExit(p) PROVE FALSE
  BY <1>6, <1>7 DEF ProcExit, Nothing
<1>8. CASE UNCHANGED vars
  BY <1>6, <1>8 DEF vars, Nothing
<1> QED
  BY <1>3, <1>4, <1>5, <1>7, <1>8, NextSteps

(* A daemon that exits, and was never one of two, leaves nothing behind, not
   even what the daemons before it had left: no process, no cgroup and no file
   of a socket (main, AppRuntime::stop). *)
THEOREM LeavesNothingAlways == Spec => []LeavesNothing
<1>1. Init => NothingInv
  BY DEF Init, NothingInv, LastExited, At
<1>2. WholeInv /\ NothingInv /\ [Next]_vars => NothingInv'
  BY NothingNext DEF WholeInv
<1>3. NothingInv => LeavesNothing
  BY SocketsRange DEF NothingInv, LastExited, Nothing, LeavesNothing
<1> QED
  BY <1>1, <1>2, <1>3, WholeAlways, PTL DEF Spec
=============================================================================
