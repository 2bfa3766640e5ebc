-------------------------- MODULE SupervisorTokens --------------------------
(***************************************************************************)
(* Proofs about the mio tokens and the events that come with them: every   *)
(* token has at most one owner and none is lost, no client's response is   *)
(* cut short, and no edge that somebody waits for is dropped.  For any     *)
(* number of applications, connections and tokens; a theorem that needs    *)
(* some system calls to succeed says which.                                *)
(***************************************************************************)
EXTENDS SupervisorProofs, FiniteSetTheorems

-----------------------------------------------------------------------------
(* The stack of vacant tokens as a set *)

(* allocate hands out tokens that are not vacant any more, each once. *)
LEMMA AllocateOwns ==
    ASSUME NEW s \in Seq(Tokens), IsInjective(s), NEW n \in 0..Len(s)
    PROVE  /\ IsInjective(Allocate(s, n))
           /\ Range(Allocate(s, n)) \subseteq Range(s)
           /\ \A i \in 1..n : /\ s[i] \in Range(s)
                              /\ s[i] \notin Range(Allocate(s, n))
<1> DEFINE u == Allocate(s, n)
<1>1. /\ Len(u) = Len(s) - n /\ DOMAIN u = 1..(Len(s) - n)
      /\ \A i \in 1..(Len(s) - n) : u[i] = s[i + n]
      /\ DOMAIN s = 1..Len(s) /\ Len(s) \in Nat
  BY DEF Allocate
<1> HIDE DEF u
<1>2. \A i, j \in 1..Len(s) : s[i] = s[j] => i = j
  BY <1>1 DEF IsInjective
<1>3. IsInjective(u)
  BY <1>1, <1>2 DEF IsInjective
<1>4. \A i \in 1..(Len(s) - n) : u[i] \in Range(s)
  BY <1>1 DEF Range
<1>5. Range(u) \subseteq Range(s)
  BY <1>1, <1>4 DEF Range
<1>6. ASSUME NEW i \in 1..n PROVE s[i] \in Range(s) /\ s[i] \notin Range(u)
  BY <1>1, <1>2, SMTT(30) DEF Range
<1> QED
  BY <1>3, <1>5, <1>6 DEF u

(* free makes one more token vacant, and none twice. *)
LEMMA FreeOwns ==
    ASSUME NEW s \in Seq(Tokens), IsInjective(s),
           NEW t \in Tokens, t \notin Range(s)
    PROVE  IsInjective(Free(s, t)) /\ Range(Free(s, t)) = Range(s) \cup {t}
<1> DEFINE u == Free(s, t)
<1>1. /\ Len(u) = Len(s) + 1 /\ DOMAIN u = 1..(Len(s) + 1) /\ u[1] = t
      /\ \A i \in 1..Len(s) : u[i + 1] = s[i]
      /\ \A i \in 2..(Len(s) + 1) : u[i] = s[i - 1]
      /\ DOMAIN s = 1..Len(s) /\ Len(s) \in Nat
  BY DEF Free
<1> HIDE DEF u
<1>2. /\ \A i, j \in 1..Len(s) : s[i] = s[j] => i = j
      /\ \A i \in 1..Len(s) : s[i] # t
  BY <1>1 DEF IsInjective, Range
<1>3. IsInjective(u)
  BY <1>1, <1>2 DEF IsInjective
<1>4. ASSUME NEW x \in Range(u) PROVE x = t \/ x \in Range(s)
  <2>1. PICK i \in 1..(Len(s) + 1) : x = u[i]
    BY <1>1 DEF Range
  <2>2. i # 1 => i - 1 \in 1..Len(s) /\ x = s[i - 1]
    BY <1>1, <2>1
  <2> QED
    BY <1>1, <2>1, <2>2 DEF Range
<1>5. \A x \in Range(s) : x \in Range(u)
  BY <1>1 DEF Range
<1>6. t \in Range(u)
  BY <1>1 DEF Range
<1> QED
  BY <1>3, <1>4, <1>5, <1>6 DEF u

(* The tokens of a runtime, one by one. *)
LEMMA RangeOfTokens ==
    ASSUME NEW S, NEW toks \in [Fds -> S]
    PROVE  /\ Range(toks) =
                 {toks["pidfd"], toks["stdout"], toks["stderr"]}
           /\ IsInjective(toks) <=>
                 /\ toks["pidfd"] # toks["stdout"]
                 /\ toks["pidfd"] # toks["stderr"]
                 /\ toks["stdout"] # toks["stderr"]
<1>1. DOMAIN toks = {"pidfd", "stdout", "stderr"}
  BY DEF Fds
<1> QED
  BY <1>1 DEF Range, IsInjective

(* The three tokens of a new runtime are distinct and not vacant any more. *)
LEMMA TopTokensOwn ==
    ASSUME NEW s \in Seq(Tokens), IsInjective(s), Len(s) >= 3
    PROVE  /\ IsInjective(TopTokens(s))
           /\ Range(TopTokens(s)) \subseteq Range(s)
           /\ Range(TopTokens(s)) \cap Range(Allocate(s, 3)) = {}
<1>1. TopTokens(s) \in [Fds -> Tokens]
  BY TopTokensType
<1>2. /\ TopTokens(s)["pidfd"] = s[1] /\ TopTokens(s)["stdout"] = s[2]
      /\ TopTokens(s)["stderr"] = s[3]
  BY DEF TopTokens, Fds
<1>3. Len(s) \in Nat /\ 3 \in 0..Len(s) /\ DOMAIN s = 1..Len(s)
  OBVIOUS
<1>4. \A i \in 1..3 : s[i] \in Range(s) /\ s[i] \notin Range(Allocate(s, 3))
  BY <1>3, AllocateOwns
<1>5. s[1] # s[2] /\ s[1] # s[3] /\ s[2] # s[3]
  BY <1>3 DEF IsInjective
<1>6. IsInjective(TopTokens(s))
      /\ Range(TopTokens(s)) = {s[1], s[2], s[3]}
  BY <1>1, <1>2, <1>5, RangeOfTokens
<1>7. /\ s[1] \in Range(s) /\ s[1] \notin Range(Allocate(s, 3))
      /\ s[2] \in Range(s) /\ s[2] \notin Range(Allocate(s, 3))
      /\ s[3] \in Range(s) /\ s[3] \notin Range(Allocate(s, 3))
  BY <1>4
<1> QED
  BY <1>6, <1>7

(* AppRuntime::stop gives three distinct tokens back. *)
LEMMA FreeTokensOwn ==
    ASSUME NEW s \in Seq(Tokens), IsInjective(s),
           NEW toks \in [Fds -> Tokens], IsInjective(toks),
           Range(toks) \cap Range(s) = {}
    PROVE  /\ IsInjective(FreeTokens(s, toks))
           /\ Range(FreeTokens(s, toks)) = Range(s) \cup Range(toks)
<1> DEFINE x == toks["pidfd"]
           y == toks["stdout"]
           z == toks["stderr"]
           s1 == Free(s, x)
           s2 == Free(s1, y)
<1>1. /\ x \in Tokens /\ y \in Tokens /\ z \in Tokens
      /\ Range(toks) = {x, y, z} /\ x # y /\ x # z /\ y # z
  BY RangeOfTokens DEF Fds
<1>2. FreeTokens(s, toks) = Free(s2, z)
  BY DEF FreeTokens
<1> HIDE DEF x, y, z
<1>3. /\ s1 \in Seq(Tokens) /\ IsInjective(s1)
      /\ Range(s1) = Range(s) \cup {x}
  BY <1>1, FreeType, FreeOwns
<1> HIDE DEF s1
<1>4. /\ s2 \in Seq(Tokens) /\ IsInjective(s2)
      /\ Range(s2) = Range(s1) \cup {y}
  <2>1. y \notin Range(s1)
    BY <1>1, <1>3
  <2> QED
    BY <1>1, <1>3, <2>1, FreeType, FreeOwns
<1> HIDE DEF s2
<1>5. /\ IsInjective(Free(s2, z))
      /\ Range(Free(s2, z)) = Range(s2) \cup {z}
  <2>1. z \notin Range(s2)
    BY <1>1, <1>3, <1>4
  <2> QED
    BY <1>1, <1>4, <2>1, FreeOwns
<1> QED
  BY <1>1, <1>2, <1>3, <1>4, <1>5

-----------------------------------------------------------------------------
(* What a step may do to the owners *)

(* Losing owners, or vacant tokens, never makes two owners of one. *)
LEMMA OwnersShrink ==
    ASSUME TokenOwnership,
           IsInjective(vacant'), Range(vacant') \subseteq Range(vacant),
           \A a \in Apps :
              Running(a)' => Running(a) /\ app'[a].tokens = app[a].tokens,
           Connected' \subseteq Connected, logs' \subseteq logs
    PROVE  TokenOwnership'
<1>1. ASSUME NEW a \in Apps, Running(a)'
      PROVE  /\ OwnTokens(a)' \subseteq Tokens \ Range(vacant')
             /\ IsInjective(app'[a].tokens)
             /\ OwnTokens(a)' \cap (Connected' \cup logs') = {}
             /\ \A b \in Apps \ {a} : OwnTokens(a)' \cap OwnTokens(b)' = {}
  <2>1. Running(a) /\ app'[a].tokens = app[a].tokens
    BY <1>1
  <2>2. \A b \in Apps : OwnTokens(b)' \subseteq OwnTokens(b)
    BY DEF OwnTokens
  <2>3. /\ OwnTokens(a) \subseteq Tokens \ Range(vacant)
        /\ IsInjective(app[a].tokens)
        /\ OwnTokens(a) \cap (Connected \cup logs) = {}
        /\ \A b \in Apps \ {a} : OwnTokens(a) \cap OwnTokens(b) = {}
    BY <2>1 DEF TokenOwnership
  <2> HIDE DEF TokenOwnership
  <2> QED
    BY <2>1, <2>2, <2>3
<1>2. (Connected' \cup logs') \cap Range(vacant') = {} /\ Connected' \cap logs' = {}
  BY DEF TokenOwnership
<1> QED
  BY <1>1, <1>2 DEF TokenOwnership

(* AppRuntime::start gives an application three tokens that were vacant. *)
LEMMA AppTakes ==
    ASSUME TokenOwnership, AppTypeOK, vacant \in Seq(Tokens),
           NEW a \in Apps, NEW r \in AppRecord, RuntimeStart(a, r),
           UNCHANGED <<conns, logs>>
    PROVE  TokenOwnership'
<1> DEFINE new == TopTokens(vacant)
<1>1. IsInjective(vacant) /\ Len(vacant) >= 3 /\ vacant' = Allocate(vacant, 3)
      /\ Len(vacant) \in Nat /\ Range(vacant) \subseteq Tokens
  BY DEF TokenOwnership, RuntimeStart, Range
<1>2. /\ IsInjective(new) /\ Range(new) \subseteq Range(vacant)
      /\ Range(new) \cap Range(vacant') = {}
  BY <1>1, TopTokensOwn
<1>3. IsInjective(vacant') /\ Range(vacant') \subseteq Range(vacant)
  BY <1>1, AllocateOwns
<1>4. PICK p \in FreePids : app' = [app EXCEPT ![a] = Launched(r, p)]
  BY DEF RuntimeStart
<1>5. Launched(r, p).state = "running" /\ Launched(r, p).tokens = new
  BY DEF Launched, AppRecord
<1>6. /\ app'[a].state = "running" /\ app'[a].tokens = new
      /\ \A b \in Apps \ {a} : app'[b] = app[b]
  BY <1>4, <1>5 DEF AppTypeOK
<1>7. /\ OwnTokens(a)' = Range(new) /\ Running(a)'
      /\ \A b \in Apps \ {a} :
            OwnTokens(b)' = OwnTokens(b) /\ Running(b)' = Running(b)
  BY <1>6 DEF OwnTokens, Running
<1>8. Connected' = Connected /\ logs' = logs
  BY DEF Connected, IsKnown
<1>9. /\ \A b \in Apps \ {a} : OwnTokens(b) \cap Range(vacant) = {}
      /\ (Connected \cup logs) \cap Range(vacant) = {}
  BY DEF TokenOwnership, OwnTokens
<1> HIDE DEF new
<1>10. ASSUME NEW b \in Apps, Running(b)'
       PROVE  /\ OwnTokens(b)' \subseteq Tokens \ Range(vacant')
              /\ IsInjective(app'[b].tokens)
              /\ OwnTokens(b)' \cap (Connected' \cup logs') = {}
              /\ \A c \in Apps \ {b} : OwnTokens(b)' \cap OwnTokens(c)' = {}
  <2>1. CASE b = a
    BY <1>1, <1>2, <1>6, <1>7, <1>8, <1>9, <2>1
  <2>2. CASE b # a
    <3>1. /\ OwnTokens(b) \subseteq Tokens \ Range(vacant)
          /\ IsInjective(app[b].tokens)
          /\ OwnTokens(b) \cap (Connected \cup logs) = {}
          /\ \A c \in Apps \ {b} : OwnTokens(b) \cap OwnTokens(c) = {}
      BY <1>7, <1>10, <2>2 DEF TokenOwnership
    <3> QED
      BY <1>2, <1>3, <1>6, <1>7, <1>8, <1>9, <2>2, <3>1
  <2> QED
    BY <2>1, <2>2
<1>11. (Connected' \cup logs') \cap Range(vacant') = {} /\ Connected' \cap logs' = {}
  BY <1>3, <1>8 DEF TokenOwnership
<1> QED
  BY <1>3, <1>10, <1>11 DEF TokenOwnership

(* AppRuntime::stop gives the tokens of the application it stops back. *)
LEMMA AppReturns ==
    ASSUME TokenOwnership, AppInv, vacant \in Seq(Tokens),
           NEW a \in Apps, NEW try_restart, Running(a), Reap(a, try_restart),
           UNCHANGED <<conns, logs>>
    PROVE  TokenOwnership'
<1> DEFINE toks == app[a].tokens
<1>1. /\ toks \in [Fds -> Tokens] /\ IsInjective(toks) /\ IsInjective(vacant)
      /\ Range(toks) \cap Range(vacant) = {}
      /\ Range(toks) \cap (Connected \cup logs) = {}
      /\ \A b \in Apps \ {a} : Range(toks) \cap OwnTokens(b) = {}
  BY DEF TokenOwnership, OwnTokens, AppInv, RuntimesHoldTokens
<1>2. vacant' = FreeTokens(vacant, toks)
  BY DEF Reap
<1>3. IsInjective(vacant') /\ Range(vacant') = Range(vacant) \cup Range(toks)
  BY <1>1, <1>2, FreeTokensOwn
<1>4. app \in [Apps -> AppRecord]
  BY DEF AppInv, AppTypeOK
<1>5. PICK ok \in BOOLEAN, long \in BOOLEAN :
         app' = [app EXCEPT ![a] = IF MayRestart(a, try_restart)
                                   THEN Scheduled(a, ok, long)
                                   ELSE Stopped(@)]
  BY Zenon DEF Reap
<1>6. Scheduled(a, ok, long).state = "stopped" /\ Stopped(app[a]).state = "stopped"
  BY <1>4, ScheduledFacts, StoppedFacts
<1>7. /\ ~Running(a)' /\ OwnTokens(a)' = {}
      /\ \A b \in Apps \ {a} : app'[b] = app[b] /\ OwnTokens(b)' = OwnTokens(b)
                               /\ Running(b)' = Running(b)
  BY <1>4, <1>5, <1>6 DEF Running, OwnTokens
<1>8. Connected' = Connected /\ logs' = logs
  BY DEF Connected, IsKnown
<1>9. ASSUME NEW b \in Apps, Running(b)'
      PROVE  /\ OwnTokens(b)' \subseteq Tokens \ Range(vacant')
             /\ IsInjective(app'[b].tokens)
             /\ OwnTokens(b)' \cap (Connected' \cup logs') = {}
             /\ \A c \in Apps \ {b} : OwnTokens(b)' \cap OwnTokens(c)' = {}
  <2>1. b # a
    BY <1>7, <1>9
  <2>2. /\ OwnTokens(b) \subseteq Tokens \ Range(vacant)
        /\ IsInjective(app[b].tokens)
        /\ OwnTokens(b) \cap (Connected \cup logs) = {}
        /\ \A c \in Apps \ {b} : OwnTokens(b) \cap OwnTokens(c) = {}
    BY <1>7, <1>9, <2>1 DEF TokenOwnership
  <2> HIDE DEF toks
  <2> QED
    BY <1>1, <1>3, <1>7, <1>8, <2>1, <2>2
<1>10. (Connected' \cup logs') \cap Range(vacant') = {} /\ Connected' \cap logs' = {}
  <2> HIDE DEF toks
  <2>1. (Connected \cup logs) \cap Range(vacant) = {} /\ Connected \cap logs = {}
    BY DEF TokenOwnership
  <2> QED
    BY <1>1, <1>3, <1>8, <2>1
<1> QED
  BY <1>3, <1>9, <1>10 DEF TokenOwnership

(* accept_all of either socket gives a new connection a vacant token. *)
LEMMA ConnectionTakes ==
    ASSUME TokenOwnership, vacant \in Seq(Tokens), vacant # <<>>,
           vacant' = Allocate(vacant, 1), UNCHANGED app,
           \/ Connected' \subseteq Connected \cup {vacant[1]} /\ logs' = logs
           \/ Connected' = Connected /\ logs' \subseteq logs \cup {vacant[1]}
    PROVE  TokenOwnership'
<1> DEFINE t == vacant[1]
<1>1. IsInjective(vacant) /\ 1 \in 0..Len(vacant)
  BY DEF TokenOwnership
<1>2. /\ IsInjective(vacant') /\ Range(vacant') \subseteq Range(vacant)
      /\ t \in Range(vacant) /\ t \notin Range(vacant')
  <2>1. 1 \in 1..1
    OBVIOUS
  <2> QED
    BY <1>1, <2>1, AllocateOwns
<1> HIDE DEF t
<1>3. \A a \in Apps : OwnTokens(a)' = OwnTokens(a) /\ Running(a)' = Running(a)
  BY DEF OwnTokens, Running
<1>4. (Connected \cup logs) \cap Range(vacant) = {} /\ Connected \cap logs = {}
  BY DEF TokenOwnership
<1>5. ASSUME NEW a \in Apps, Running(a)'
      PROVE  /\ OwnTokens(a)' \subseteq Tokens \ Range(vacant')
             /\ IsInjective(app'[a].tokens)
             /\ OwnTokens(a)' \cap (Connected' \cup logs') = {}
             /\ \A b \in Apps \ {a} : OwnTokens(a)' \cap OwnTokens(b)' = {}
  <2>1. /\ OwnTokens(a) \subseteq Tokens \ Range(vacant)
        /\ IsInjective(app[a].tokens)
        /\ OwnTokens(a) \cap (Connected \cup logs) = {}
        /\ \A b \in Apps \ {a} : OwnTokens(a) \cap OwnTokens(b) = {}
    BY <1>3, <1>5 DEF TokenOwnership
  <2>2. Connected' \cup logs' \subseteq Connected \cup logs \cup {t}
    BY DEF t
  <2> QED
    BY <1>2, <1>3, <2>1, <2>2
<1>6. (Connected' \cup logs') \cap Range(vacant') = {} /\ Connected' \cap logs' = {}
  BY <1>2, <1>4 DEF t
<1> QED
  BY <1>2, <1>5, <1>6 DEF TokenOwnership

(* Closing a connection of either socket gives its token back. *)
LEMMA ConnectionReturns ==
    ASSUME TokenOwnership, vacant \in Seq(Tokens),
           NEW t \in Tokens, t \in Connected \cup logs,
           vacant' = Free(vacant, t), UNCHANGED app,
           \/ Connected' \subseteq Connected \ {t} /\ logs' = logs
              /\ t \in Connected
           \/ Connected' = Connected /\ logs' \subseteq logs \ {t} /\ t \in logs
    PROVE  TokenOwnership'
<1>1. IsInjective(vacant) /\ (Connected \cup logs) \cap Range(vacant) = {}
      /\ Connected \cap logs = {}
  BY DEF TokenOwnership
<1>2. IsInjective(vacant') /\ Range(vacant') = Range(vacant) \cup {t}
  BY <1>1, FreeOwns
<1>3. \A a \in Apps : OwnTokens(a)' = OwnTokens(a) /\ Running(a)' = Running(a)
  BY DEF OwnTokens, Running
<1>4. Connected' \subseteq Connected /\ logs' \subseteq logs
      /\ t \notin Connected' \cup logs'
  BY <1>1
<1>5. ASSUME NEW a \in Apps, Running(a)'
      PROVE  /\ OwnTokens(a)' \subseteq Tokens \ Range(vacant')
             /\ IsInjective(app'[a].tokens)
             /\ OwnTokens(a)' \cap (Connected' \cup logs') = {}
             /\ \A b \in Apps \ {a} : OwnTokens(a)' \cap OwnTokens(b)' = {}
  <2>1. /\ OwnTokens(a) \subseteq Tokens \ Range(vacant)
        /\ IsInjective(app[a].tokens)
        /\ OwnTokens(a) \cap (Connected \cup logs) = {}
        /\ \A b \in Apps \ {a} : OwnTokens(a) \cap OwnTokens(b) = {}
    BY <1>3, <1>5 DEF TokenOwnership
  <2> QED
    BY <1>2, <1>3, <1>4, <2>1
<1>6. (Connected' \cup logs') \cap Range(vacant') = {} /\ Connected' \cap logs' = {}
  BY <1>1, <1>2, <1>4
<1> QED
  BY <1>2, <1>5, <1>6 DEF TokenOwnership

(* A step that leaves the owners alone. *)
LEMMA OwnersUnchanged ==
    ASSUME TokenOwnership, UNCHANGED <<vacant, logs>>,
           \A a \in Apps :
              Running(a)' => Running(a) /\ app'[a].tokens = app[a].tokens,
           Connected' \subseteq Connected
    PROVE  TokenOwnership'
<1>1. IsInjective(vacant)' /\ Range(vacant') \subseteq Range(vacant)
      /\ logs' \subseteq logs
  BY DEF TokenOwnership
<1> QED
  BY <1>1, OwnersShrink

(* A start that fails may leak tokens and shares none. *)
LEMMA FailedStartOwns ==
    ASSUME TokenOwnership, AppTypeOK, vacant \in Seq(Tokens),
           NEW a \in Apps, NEW r, r = app[a] \/ r = Stopped(app[a]),
           RuntimeFails(a, r), UNCHANGED <<conns, logs>>
    PROVE  TokenOwnership'
<1>1. app \in [Apps -> AppRecord] /\ app' = [app EXCEPT ![a] = r]
  BY DEF AppTypeOK, RuntimeFails
<1>2. Stopped(app[a]).state = "stopped"
  BY <1>1, StoppedFacts
<1>3. ASSUME NEW b \in Apps, Running(b)'
      PROVE  Running(b) /\ app'[b].tokens = app[b].tokens
  BY <1>1, <1>2, <1>3 DEF Running
<1>4. Connected' = Connected /\ logs' = logs
  BY DEF Connected, IsKnown
<1>5. IsInjective(vacant)
  BY DEF TokenOwnership
<1>6. IsInjective(vacant') /\ Range(vacant') \subseteq Range(vacant)
  <2>1. CASE UNCHANGED vacant
    BY <1>5, <2>1
  <2>2. ASSUME NEW n \in 0..3, n <= Len(vacant), vacant' = Allocate(vacant, n)
        PROVE  IsInjective(vacant') /\ Range(vacant') \subseteq Range(vacant)
    <3>1. n \in 0..Len(vacant)
      BY <2>2
    <3> QED
      BY <1>5, <2>2, <3>1, AllocateOwns
  <2> QED
    BY <2>1, <2>2 DEF RuntimeFails
<1> QED
  BY <1>3, <1>4, <1>6, OwnersShrink

(* handle_writable and reconcile keep the token of a connection or free it. *)
LEMMA FlushOwns ==
    ASSUME TokenOwnership, IpcTypeOK, vacant \in Seq(Tokens),
           NEW t \in Tokens, IsKnown(t), NEW c, NEW writable,
           c.client = conns[t].client, c \in ConnRecord,
           Close(t, 0) \/ FlushAndReconcile(t, c, writable),
           UNCHANGED <<app, logs>>
    PROVE  TokenOwnership'
<1>1. conns \in [Tokens -> ConnRecord] /\ t \in Connected
  BY DEF IpcTypeOK, Connected
<1>2. ASSUME NEW n, Close(t, n) PROVE TokenOwnership'
  <2>1. conns' = [conns EXCEPT ![t] = NoConn] /\ vacant' = Free(vacant, t)
    BY <1>2 DEF Close
  <2>2. NoConn.client = NoClient
    BY DEF NoConn, NewConn
  <2>3. Connected' \subseteq Connected \ {t}
    BY <1>1, <2>1, <2>2 DEF Connected, IsKnown
  <2> QED
    BY <1>1, <2>1, <2>3, ConnectionReturns
<1>3. CASE FlushAndReconcile(t, c, writable)
  <2>1. \/ \E n : Close(t, n)
        \/ \E left : /\ conns' = [conns EXCEPT ![t] =
                           [c EXCEPT !.write_buf = left,
                                     !.writable_registered = left > 0]]
                     /\ UNCHANGED vacant
    BY <1>3, Zenon DEF FlushAndReconcile
  <2>2. ASSUME NEW left,
               conns' = [conns EXCEPT ![t] =
                           [c EXCEPT !.write_buf = left,
                                     !.writable_registered = left > 0]],
               UNCHANGED vacant
        PROVE  TokenOwnership'
    <3> DEFINE k == [c EXCEPT !.write_buf = left,
                              !.writable_registered = left > 0]
    <3>1. k.client = c.client
      BY DEF ConnRecord
    <3>2. Connected' \subseteq Connected
      BY <1>1, <2>2, <3>1 DEF Connected, IsKnown
    <3> QED
      BY <2>2, <3>2, OwnersUnchanged DEF Running
  <2> QED
    BY <1>2, <2>1, <2>2
<1> QED
  BY <1>2, <1>3

-----------------------------------------------------------------------------
(* The invariant *)

(* Every vacant token is vacant once, and nothing owns a token yet. *)
LEMMA TokensInit == Init => TokenOwnership
<1> SUFFICES ASSUME Init PROVE TokenOwnership
  OBVIOUS
<1>1. NewApp.state = "stopped" /\ NoConn.client = NoClient
  BY DEF NewApp, NoConn, NewConn
<1>2. /\ \A a \in Apps : ~Running(a)
      /\ Connected = {} /\ logs = {} /\ vacant = SlabOrder
  BY <1>1 DEF Init, AppInit, SlabInit, IpcInit, LogInit, Running, Connected,
              IsKnown
<1> QED
  BY <1>2, TokensAssumption DEF TokenOwnership

(* Every step of the daemon and of its environment keeps it. *)
LEMMA TokensNext ==
    ASSUME IndInv, TokenOwnership, [Next]_vars
    PROVE  TokenOwnership'
<1>1. /\ AppInv /\ AppTypeOK /\ IpcTypeOK /\ vacant \in Seq(Tokens)
      /\ app \in [Apps -> AppRecord] /\ conns \in [Tokens -> ConnRecord]
      /\ client \in [Clients -> ClientRecord] /\ logs \subseteq Tokens
      /\ backlog \subseteq Clients
  BY DEF IndInv, CoreInv, AppInv, AppTypeOK, SlabTypeOK, ClientInv, IpcTypeOK,
         LogTypeOK
<1>2. ASSUME UNCHANGED <<app, vacant, conns, logs>> PROVE TokenOwnership'
  BY <1>2, OwnersUnchanged DEF Running, Connected, IsKnown
<1>3. ASSUME NEW a \in Apps, NEW force, AppStop(a, force), UNCHANGED <<conns, logs>>
      PROVE  TokenOwnership'
  <2>1. \A b \in Apps : /\ app'[b].state = app[b].state
                        /\ app'[b].tokens = app[b].tokens
    <3>1. ASSUME NEW b \in Apps
          PROVE  app'[b] \in {app[b], AskedToStop(app[b]), Cancelled(app[b])}
      BY <1>1, <1>3 DEF AppStop, AskedToStop, Cancelled
    <3> QED
      BY <1>1, <3>1, StopRecordFacts
  <2> QED
    BY <1>3, <2>1, OwnersUnchanged DEF AppStop, Running, Connected, IsKnown
<1>4. ASSUME NEW a \in Apps, DelayElapses(a), UNCHANGED <<conns, logs>>
      PROVE  TokenOwnership'
  <2>1. \A r \in AppRecord :
           /\ [r EXCEPT !.restart_deadline = "due"].state = r.state
           /\ [r EXCEPT !.restart_deadline = "due"].tokens = r.tokens
    BY DEF AppRecord
  <2>2. \A b \in Apps : /\ app'[b].state = app[b].state
                        /\ app'[b].tokens = app[b].tokens
    BY <1>1, <1>4, <2>1 DEF DelayElapses
  <2> QED
    BY <1>4, <2>2, OwnersUnchanged DEF DelayElapses, Running, Connected, IsKnown
<1>5. ASSUME NEW a \in Apps, NEW r, RuntimeFails(a, r),
             r = app[a] \/ r = Stopped(app[a]), UNCHANGED <<conns, logs>>
      PROVE  TokenOwnership'
  BY <1>1, <1>5, FailedStartOwns
<1>6. ASSUME CreateApp, UNCHANGED logs PROVE TokenOwnership'
  <2>1. idx \in Apps /\ app[idx] \in AppRecord /\ UNCHANGED <<conns, logs>>
    BY <1>1, <1>6 DEF CreateApp, ipcVars
  <2> QED
    BY <1>1, <1>2, <1>5, <1>6, <2>1, AppTakes DEF CreateApp, AppCreate, AppCreateFails
<1>7. ASSUME ServeRequest, UNCHANGED logs PROVE TokenOwnership'
  <2>1. idx \in Apps /\ app[idx] \in AppRecord /\ UNCHANGED <<conns, logs>>
    BY <1>1, <1>7 DEF ServeRequest, ipcVars
  <2>2. [app[idx] EXCEPT !.consecutive_failures = 0, !.stop_requested = FALSE]
           \in AppRecord
    BY <2>1 DEF AppRecord
  <2>3. CASE AppStart(idx)
    BY <1>1, <1>2, <1>5, <2>1, <2>2, <2>3, AppTakes DEF AppStart
  <2> QED
    BY <1>2, <1>3, <1>7, <2>1, <2>3 DEF ServeRequest
<1>8. ASSUME RestartApp, UNCHANGED logs PROVE TokenOwnership'
  <2>1. idx \in Apps /\ app[idx] \in AppRecord /\ UNCHANGED <<conns, logs>>
        /\ MaybeRestart(idx, ~Stopping)
    BY <1>1, <1>8 DEF RestartApp, ipcVars
  <2>2. CASE app' = [app EXCEPT ![idx] = Stopped(@)] /\ UNCHANGED vacant
    <3>1. Stopped(app[idx]).state = "stopped"
      BY <2>1, StoppedFacts
    <3>2. ASSUME NEW b \in Apps, Running(b)'
          PROVE  Running(b) /\ app'[b].tokens = app[b].tokens
      BY <1>1, <2>1, <2>2, <3>1, <3>2 DEF Running
    <3> QED
      BY <2>1, <2>2, <3>2, OwnersUnchanged DEF Connected, IsKnown
  <2> QED
    BY <1>1, <1>2, <1>5, <2>1, <2>2, AppTakes DEF MaybeRestart
<1>9. ASSUME NEW c \in backlog, AcceptOne(c) \/ AcceptLeaks(c), UNCHANGED <<app, logs>>
      PROVE  TokenOwnership'
  <2>1. CASE Reject(c)
    BY <1>2, <1>9, <2>1 DEF Reject
  <2>2. CASE vacant # <<>> /\ vacant' = Allocate(vacant, 1)
             /\ \/ conns' = [conns EXCEPT ![vacant[1]] = NewConn(c)]
                \/ UNCHANGED conns
    <3>1. Connected' \subseteq Connected \cup {vacant[1]}
      BY <1>1, <2>2 DEF Connected, IsKnown
    <3> QED
      BY <1>1, <1>9, <2>2, <3>1, ConnectionTakes
  <2> QED
    BY <1>9, <2>1, <2>2 DEF AcceptOne, AcceptLeaks
<1>10. ASSUME NEW e \in batch, HandleConn(e), UNCHANGED logs PROVE TokenOwnership'
  <2>1. e.tok \in Tokens /\ IsKnown(e.tok) /\ UNCHANGED <<app, logs>>
    BY <1>10 DEF HandleConn, IsKnown
  <2>2. conns[e.tok] \in ConnRecord
    BY <1>1, <2>1
  <2>3. CASE Close(e.tok, 0)
    BY <1>1, <2>1, <2>2, <2>3, FlushOwns
  <2>4. CASE ReadRequest(e.tok)
    <3>1. \A r \in ConnRecord : \A b :
             [r EXCEPT !.close_after_flush = b].client = r.client
      BY DEF ConnRecord
    <3>2. /\ conns' = [conns EXCEPT ![e.tok].close_after_flush =
                          @ \/ Peer(e.tok).st = "quit"]
          /\ UNCHANGED vacant
      BY <2>4 DEF ReadRequest
    <3>3. \A t \in Tokens : conns'[t].client = conns[t].client
      BY <1>1, <2>1, <3>1, <3>2
    <3> QED
      BY <2>1, <3>2, <3>3, OwnersUnchanged DEF Connected, IsKnown, Running
  <2>5. CASE ServeIdle(e.tok, e.r, e.w)
    <3> DEFINE b == conns[e.tok].close_after_flush
                       \/ (e.r /\ Peer(e.tok).st = "quit")
               k == [conns[e.tok] EXCEPT !.close_after_flush = b]
    <3>1. b \in BOOLEAN
      OBVIOUS
    <3>2. k.client = conns[e.tok].client /\ k \in ConnRecord
      BY <2>2, <3>1 DEF ConnRecord
    <3>3. FlushAndReconcile(e.tok, k, e.w)
      BY <2>5 DEF ServeIdle
    <3> HIDE DEF k
    <3> QED
      BY <1>1, <2>1, <3>2, <3>3, FlushOwns
  <2> QED
    BY <1>10, <2>3, <2>4, <2>5 DEF HandleConn
<1>11. ASSUME FinishRequest, UNCHANGED logs PROVE TokenOwnership'
  <2> DEFINE t == job.tok
             k == [conns[t] EXCEPT !.write_buf = @ + ResponseChunks,
                                   !.close_after_flush = TRUE]
  <2>1. Unanswered(t) /\ UNCHANGED <<app, logs>> /\ Respond(t, job.w)
    BY <1>11 DEF FinishRequest, IndInv, CoreInv, LoopInv, Serving
  <2>2. t \in Tokens /\ IsKnown(t) /\ conns[t].write_buf = 0
        /\ conns[t] \in ConnRecord
    BY <1>1, <2>1 DEF Unanswered
  <2>3. 0 + ResponseChunks \in 0..ResponseChunks
    BY IpcAssumption
  <2>4. k.client = conns[t].client /\ k \in ConnRecord
    BY <2>2, <2>3 DEF ConnRecord
  <2>5. FlushAndReconcile(t, k, job.w)
    BY <2>1 DEF Respond
  <2> HIDE DEF k, t
  <2> QED
    BY <1>1, <2>1, <2>2, <2>4, <2>5, FlushOwns
<1>12. ASSUME NEW e \in batch, HandleApp(e), UNCHANGED logs PROVE TokenOwnership'
  <2>1. UNCHANGED <<conns, logs>>
    BY <1>12 DEF HandleApp, ipcVars
  <2>2. \/ UNCHANGED <<app, vacant>>
        \/ \E a \in Apps : Running(a) /\ Reap(a, ~Stopping)
    BY <1>12 DEF HandleApp
  <2> QED
    BY <1>1, <1>2, <2>1, <2>2, AppReturns
<1>13. ASSUME NEW t \in logs, LogClose(t), UNCHANGED <<app, conns>>
       PROVE  TokenOwnership'
  <2>1. Connected' = Connected /\ logs' \subseteq logs \ {t} /\ t \in Tokens
        /\ vacant' = Free(vacant, t)
    BY <1>1, <1>13 DEF LogClose, Connected, IsKnown
  <2> QED
    BY <1>1, <1>13, <2>1, ConnectionReturns
<1>14. ASSUME LogAcceptOne \/ LogAcceptLeaks, UNCHANGED <<app, conns>>
       PROVE  TokenOwnership'
  <2>1. CASE UNCHANGED <<logs, vacant>>
    BY <1>2, <1>14, <2>1
  <2>2. CASE vacant # <<>> /\ vacant' = Allocate(vacant, 1)
             /\ logs' \subseteq logs \cup {vacant[1]}
    <3>1. Connected' = Connected
      BY <1>14 DEF Connected, IsKnown
    <3> QED
      BY <1>1, <1>14, <2>2, <3>1, ConnectionTakes
  <2> QED
    BY <1>14, <2>1, <2>2 DEF LogAcceptOne, LogAcceptLeaks
<1>15. CASE MainStep /\ UNCHANGED logVars
  <2>1. logs' = logs
    BY <1>15 DEF logVars
  <2>2. CASE AcceptAll
    BY <1>2, <1>9, <2>1, <2>2 DEF AcceptAll, ipcVars
  <2>3. CASE Bind \/ Poll \/ EventsDone \/ RestartDone \/ ShutdownDone \/ Check
             \/ \E e \in batch : HandleSignal(e) \/ HandleListener(e)
    <3>1. UNCHANGED <<app, vacant, conns>>
      BY <2>3
      DEF Bind, Poll, EventsDone, RestartDone, ShutdownDone, Check, HandleSignal,
          HandleListener, appVars, ipcVars
    <3> QED
      BY <1>2, <2>1, <3>1
  <2>4. CASE ShutdownApp
    BY <1>3, <2>1, <2>4 DEF ShutdownApp, ipcVars
  <2> QED
    BY <1>6, <1>7, <1>8, <1>10, <1>11, <1>12, <1>15, <2>1, <2>2, <2>3, <2>4
    DEF MainStep
<1>16. CASE LogStep
  <2>1. UNCHANGED <<app, conns>>
    BY <1>16 DEF LogStep, LogAcceptAll, PushUpdates, HandleLog, ipcVars
  <2>2. \/ UNCHANGED <<logs, vacant>>
        \/ LogAcceptOne \/ LogAcceptLeaks
        \/ \E t \in logs : LogClose(t)
    BY <1>16 DEF LogStep, LogAcceptAll, PushUpdates, HandleLog, logVars
  <2> QED
    BY <1>2, <1>13, <1>14, <2>1, <2>2
<1>17. CASE MainEnvironment /\ UNCHANGED logVars
  <2>1. logs' = logs
    BY <1>17 DEF logVars
  <2>2. ASSUME \/ \E p \in Pids : (\E ret \in {"ok", "err"} : ProcExit(p, ret))
                                   \/ ProcFork(p)
               \/ \E b \in Apps, fd \in Fds : ProcOutput(b, fd)
               \/ Sigint,
               UNCHANGED conns
        PROVE  TokenOwnership'
    BY <1>2, <2>1, <2>2 DEF ProcExit, ProcFork, ProcOutput, Sigint
  <2>3. ASSUME NEW c \in Clients, ClientStep(c) PROVE TokenOwnership'
    <3>1. UNCHANGED <<app, vacant, conns>>
      BY <2>3 DEF ClientStep, Connect, Send, Receive, HangUp, ComeBack
    <3> QED
      BY <1>2, <2>1, <3>1
  <2> QED
    BY <1>4, <1>17, <2>1, <2>2, <2>3 DEF MainEnvironment, ipcVars, Sigint
<1>18. CASE LogEnvironment \/ UNCHANGED vars
  <2>1. UNCHANGED <<app, vacant, conns, logs>>
    BY <1>18
    DEF LogEnvironment, LogConnect, LogTraffic, vars, appVars, ipcVars, logVars
  <2> QED
    BY <1>2, <2>1
<1> QED
  BY <1>15, <1>16, <1>17, <1>18 DEF Next, Daemon, Environment, Done

(* A token has at most one owner: whatever is started, fails, is reaped, is
   accepted or closed, no event of one application or connection can be taken
   for that of another, and no token is freed twice (MioTokenSlab). *)
THEOREM TokensOwned == Spec => []TokenOwnership
<1>1. TokenOwnership /\ IndInv /\ [Next]_vars => TokenOwnership'
  BY TokensNext
<1> QED
  BY <1>1, TokensInit, SpecInd, PTL DEF Spec

(* The daemon aborts only at startup, when an application cannot be started,
   or at its end, when the main cgroup cannot be deleted. *)
PanicsAtTheEndsOnly ==
    [][pc # "panic" /\ pc' = "panic" => pc \in {"create", "check"}]_vars

(* While the daemon serves, waitpid in poll_pid cannot fail and no reap frees a
   token that is vacant. *)
LEMMA AbortsAtTheEnds ==
    ASSUME IndInv, TokenOwnership, Next, pc # "panic", pc' = "panic"
    PROVE  pc \in {"create", "check"}
<1>1. ASSUME NEW e \in batch, HandleApp(e) PROVE FALSE
  <2>1. PICK a \in Apps : /\ Running(a)
                          /\ \/ PollPid(a) = "panic" \/ ~RuntimeFreeable(a)
    BY <1>1 DEF HandleApp, Handling
  <2>2. /\ app[a].pid \in Pids /\ proc[app[a].pid].st # "free"
        /\ proc[app[a].pid].child
    BY <2>1 DEF IndInv, CoreInv, AppInv, TrackedChild
  <2>3. PollPid(a) # "panic"
    BY <2>2 DEF PollPid
  <2>4. app[a].tokens \in [Fds -> Tokens]
        /\ Range(app[a].tokens) \cap Range(vacant) = {}
    BY <2>1
    DEF IndInv, CoreInv, AppInv, RuntimesHoldTokens, TokenOwnership, OwnTokens
  <2>5. ASSUME NEW fd \in Fds PROVE Freeable(vacant, app[a].tokens[fd])
    <3>1. app[a].tokens[fd] \in Range(app[a].tokens)
      BY <2>4 DEF Range
    <3> QED
      BY <2>4, <3>1 DEF Freeable
  <2> QED
    BY <2>1, <2>3, <2>5 DEF RuntimeFreeable
<1>2. CASE MainStep
  BY <1>1, <1>2
  DEF MainStep, CreateApp, Bind, Poll, AcceptAll, HandleSignal, HandleListener,
      HandleConn, ServeRequest, FinishRequest, EventsDone, RestartApp,
      RestartDone, ShutdownApp, ShutdownDone, Check
<1>3. CASE LogStep
  BY <1>3 DEF LogStep, LogAcceptAll, PushUpdates, HandleLog, loopVars
<1>4. CASE MainEnvironment \/ LogEnvironment \/ Done
  <2>1. pc' = pc
    BY <1>4
    DEF MainEnvironment, LogEnvironment, Done, Sigint, vars, loopVars
  <2> QED
    BY <2>1
<1> QED
  BY <1>2, <1>3, <1>4 DEF Next, Daemon, Environment

(* While the daemon serves it does not abort: waitpid in poll_pid cannot fail,
   and no reap frees a token that is vacant, whatever system calls fail. *)
THEOREM NoAbortWhileServing == Spec => PanicsAtTheEndsOnly
<1>1. IndInv /\ TokenOwnership /\ [Next]_vars =>
         [pc # "panic" /\ pc' = "panic" => pc \in {"create", "check"}]_vars
  BY AbortsAtTheEnds
<1> QED
  BY <1>1, TokensOwned, SpecInd, PTL DEF Spec, PanicsAtTheEndsOnly

-----------------------------------------------------------------------------
(* The control socket between two events.  A connection is seen as a pair: its
   Connection k and the client p at the other end. *)

Busy == {"events", "accept", "log_accept", "request"}

(* The connection whose request is being served. *)
Served(t) == pc = "request" /\ job.tok = t

Readable(p) == p.line = "unread" \/ p.st = "quit"
Writable(k, p) == k.writable_registered /\ (p.inq < SocketChunks \/ p.st = "quit")

(* A connection is closed after a flush only for a reason, and epoll watches it
   for room to write exactly while it has something to write. *)
Consistent(k, p) ==
    /\ p.st \in {"open", "quit"}
    /\ k.close_after_flush => p.line = "read" \/ p.st = "quit"
    /\ k.writable_registered <=> k.write_buf > 0

(* Nothing is left to do for it but to write: once its request was read, what
   is queued, in the socket and received is the whole response. *)
Settled(k, p) ==
    /\ k.close_after_flush => k.write_buf > 0
    /\ p.line = "read" => k.write_buf + p.inq + p.got = ResponseChunks

ConnsInv ==
    \A t \in Tokens : IsKnown(t) =>
       /\ Consistent(conns[t], Peer(t))
       /\ Served(t) \/ Settled(conns[t], Peer(t))

(* A client that was not accepted yet has not been served; one whose connection
   was closed has its response. *)
ClientsInv ==
    \A c \in Clients :
       /\ c \in backlog => client[c].st \in {"open", "quit"}
       /\ c \in backlog \/ client[c].st = "idle" => client[c].line # "read"
       /\ client[c].st = "shut" => client[c].got + client[c].inq = ResponseChunks

(* A batch has one event per token and is handled to its end.  None is left for
   the connection being served, and a connection with something to write that
   is readable, because its client has left, is writable as well. *)
BatchInv ==
    /\ pc \notin Busy => batch = {}
    /\ \A e, f \in batch : e.tok = f.tok => e = f
    /\ \A e \in batch : ~Served(e.tok)
    /\ \A e \in batch : IsKnown(e.tok) /\ conns[e.tok].write_buf > 0 /\ e.r => e.w

SocketInv == ~Ended => ConnsInv /\ ClientsInv /\ BatchInv

-----------------------------------------------------------------------------
(* What handle_writable and reconcile do to one connection *)

(* The connection c after n of its chunks were written. *)
Written(c, n) ==
    [c EXCEPT !.write_buf = @ - n, !.writable_registered = c.write_buf - n > 0]

(* The connection behind t becomes k and its client p. *)
Moves(t, k, p) ==
    /\ conns' = [conns EXCEPT ![t] = k]
    /\ client' = [client EXCEPT ![conns[t].client] = p]
    /\ UNCHANGED backlog

(* The connection behind t is closed, answered unless the client has left. *)
Closes(t, p) ==
    /\ Moves(t, NoConn, p)
    /\ p.st = "quit" \/ (p.st = "shut" /\ p.got + p.inq = ResponseChunks)
    /\ p.line = Peer(t).line
    /\ ready' = ready \ {t}

(* It is kept as k, settled. *)
Stays(t, k, p) ==
    /\ Moves(t, k, p) /\ k.client = conns[t].client
    /\ Consistent(k, p) /\ Settled(k, p)
    /\ p.st = Peer(t).st /\ p.line = Peer(t).line
    /\ ready \subseteq ready'

(* What is more, of the c it was: everything that could be written was, if w. *)
Keeps(t, c, k, p, w) ==
    /\ Stays(t, k, p)
    /\ k.close_after_flush = c.close_after_flush
    /\ k.write_buf > 0 => c.write_buf > 0
    /\ Writable(k, p) => ~w /\ (c.writable_registered => Writable(c, Peer(t)))
    /\ p.st = "quit" /\ c.close_after_flush => k.write_buf > 0 /\ ~w
    /\ c.writable_registered \/ k.write_buf = 0 \/ t \in ready'

(* handle_readable takes the request of t. *)
Reads(t, k, p) ==
    /\ Moves(t, k, p) /\ k.client = conns[t].client
    /\ Consistent(k, p) /\ k.write_buf = 0
    /\ p.st = Peer(t).st /\ p.line = "read"
    /\ UNCHANGED ready

(* An event that says r and w leaves nothing undone that it was about. *)
Idles(t, k, p, r, w) ==
    /\ Stays(t, k, p)
    /\ k.write_buf > 0 => conns[t].write_buf > 0
    /\ Readable(p) => ~r
    /\ Writable(k, p) => ~w /\ Writable(conns[t], Peer(t))

(* Written changes two fields. *)
LEMMA WrittenFacts ==
    ASSUME NEW c \in ConnRecord, NEW n \in 0..c.write_buf
    PROVE  /\ Written(c, n) \in ConnRecord /\ Written(c, n).client = c.client
           /\ Written(c, n).close_after_flush = c.close_after_flush
           /\ Written(c, n).write_buf = c.write_buf - n
           /\ Written(c, n).writable_registered <=> c.write_buf - n > 0
<1> DEFINE m == c.write_buf - n
           b == m > 0
<1>1. m \in 0..ResponseChunks /\ b \in BOOLEAN
  BY IpcAssumption DEF ConnRecord
<1>2. Written(c, n) = [c EXCEPT !.write_buf = m, !.writable_registered = b]
  BY DEF Written, ConnRecord
<1> HIDE DEF m, b
<1>3. LET k == [c EXCEPT !.write_buf = m, !.writable_registered = b] IN
      /\ k \in ConnRecord /\ k.client = c.client
      /\ k.close_after_flush = c.close_after_flush
      /\ k.write_buf = m /\ (k.writable_registered <=> b)
  BY <1>1 DEF ConnRecord
<1> QED
  BY <1>2, <1>3 DEF m, b

(* The connection c of t, whose response is queued or whose client has nothing
   to wait for, is closed or kept. *)
LEMMA FlushOutcome ==
    ASSUME ClientInv, NEW t \in Tokens, IsKnown(t), Peer(t).st \in {"open", "quit"},
           NEW c \in ConnRecord, c.client = conns[t].client,
           c.close_after_flush => Peer(t).line = "read" \/ Peer(t).st = "quit",
           Peer(t).line = "read"
              => c.write_buf + Peer(t).inq + Peer(t).got = ResponseChunks,
           NEW w \in BOOLEAN,
           FlushAndReconcile(t, c, w)
    PROVE  \E k \in ConnRecord, p \in ClientRecord :
              Closes(t, p) \/ Keeps(t, c, k, p, w)
<1> DEFINE q == Peer(t)
           room == SocketChunks - q.inq
           sent == IF ~w \/ q.st = "quit" THEN 0
                   ELSE IF c.write_buf <= room THEN c.write_buf ELSE room
           left == c.write_buf - sent
           broken == w /\ q.st = "quit" /\ c.write_buf > 0
<1>1. q \in ClientRecord /\ conns[t].client \in Clients
      /\ client \in [Clients -> ClientRecord]
  BY DEF ClientInv, IpcTypeOK, ConnRecord, IsKnown, Peer
<1>2. /\ q.got \in Nat /\ q.inq \in 0..SocketChunks
      /\ c.write_buf \in 0..ResponseChunks
      /\ SocketChunks \in Nat /\ ResponseChunks \in Nat
  BY <1>1, IpcAssumption DEF ClientRecord, ConnRecord
<1>3. /\ sent \in 0..c.write_buf /\ q.inq + sent <= SocketChunks
      /\ left \in 0..ResponseChunks /\ left = c.write_buf - sent
      /\ w /\ q.st # "quit" /\ left > 0 => q.inq + sent = SocketChunks
      /\ ~w \/ q.st = "quit" => sent = 0
  BY <1>2
<1>4. backlog' = backlog
  BY DEF FlushAndReconcile
<1>5. q.line = "read" => left + (q.inq + sent) + q.got = ResponseChunks
  BY <1>2, <1>3 DEF Peer
<1>6. CASE broken \/ ShouldClose(c, left)
  <2>1. Close(t, sent)
    BY <1>6 DEF FlushAndReconcile
  <2> DEFINE s == IF q.st = "quit" THEN "quit" ELSE "shut"
             p == WithChunks(q, sent, s)
  <2>2. /\ client' = [client EXCEPT ![conns[t].client] = p]
        /\ conns' = [conns EXCEPT ![t] = NoConn] /\ ready' = ready \ {t}
    <3>1. Shut(q, sent) = p
      BY Zenon DEF WithChunks, Shut
    <3> QED
      BY <2>1, <3>1 DEF Close, Peer
  <2>3. s \in {"quit", "shut"} /\ (s = "shut" => q.st # "quit")
    OBVIOUS
  <2> HIDE DEF s
  <2>4. /\ p \in ClientRecord /\ p.st = s /\ p.line = q.line /\ p.got = q.got
        /\ p.inq = q.inq + sent
    BY <1>1, <1>2, <1>3, <2>3, WithChunksFacts
  <2>5. s = "shut" => q.got + (q.inq + sent) = ResponseChunks
    <3>1. ASSUME s = "shut" PROVE q.line = "read" /\ left = 0
      BY <1>6, <2>3, <3>1 DEF ShouldClose
    <3> HIDE DEF sent, left, q
    <3> QED
      BY <1>2, <1>3, <1>5, <3>1
  <2> HIDE DEF p
  <2>6. Closes(t, p)
    BY <1>4, <2>2, <2>3, <2>4, <2>5 DEF Closes, Moves
  <2>7. c \in ConnRecord
    OBVIOUS
  <2> QED
    BY <2>4, <2>6, <2>7
<1>7. CASE ~(broken \/ ShouldClose(c, left))
  <2> DEFINE k == Written(c, sent)
             p == WithChunks(q, sent, q.st)
  <2>1. /\ conns' = [conns EXCEPT ![t] = [c EXCEPT !.write_buf = left,
                                             !.writable_registered = left > 0]]
        /\ client' = [client EXCEPT ![c.client].inq = @ + sent]
        /\ ready' = IF c.writable_registered = (left > 0)
                    THEN ready ELSE ready \cup {t}
    BY <1>7 DEF FlushAndReconcile
  <2>2. conns' = [conns EXCEPT ![t] = k]
    BY <2>1, Zenon DEF Written
  <2>3. client' = [client EXCEPT ![conns[t].client] = p]
    <3>1. [q EXCEPT !.inq = @ + sent] = p
      BY <1>1 DEF WithChunks, ClientRecord
    <3> QED
      BY <1>1, <2>1, <3>1, Zenon DEF Peer
  <2>4. ~broken /\ (c.close_after_flush => left # 0)
    BY <1>7 DEF ShouldClose
  <2> HIDE DEF sent, left, broken
  <2>5. /\ k \in ConnRecord /\ k.client = conns[t].client
        /\ k.close_after_flush = c.close_after_flush /\ k.write_buf = left
        /\ k.writable_registered <=> left > 0
    BY <1>3, WrittenFacts
  <2>6. /\ p \in ClientRecord /\ p.st = q.st /\ p.line = q.line /\ p.got = q.got
        /\ p.inq = q.inq + sent
    BY <1>1, <1>2, <1>3, WithChunksFacts DEF ClientRecord
  <2> HIDE DEF k, p
  <2>7. Consistent(k, p) /\ Settled(k, p)
    BY <1>2, <1>3, <1>5, <2>4, <2>5, <2>6 DEF Consistent, Settled
  <2>8. k.write_buf > 0 => c.write_buf > 0
    BY <1>2, <1>3, <2>5
  <2>9. p.st = "quit" /\ c.close_after_flush => k.write_buf > 0 /\ ~w
    BY <1>2, <1>3, <2>4, <2>5, <2>6 DEF broken
  <2>10. Writable(k, p) => ~w /\ (c.writable_registered => Writable(c, q))
    BY <1>2, <1>3, <2>4, <2>5, <2>6 DEF Writable, broken
  <2>11. ready \subseteq ready' /\ (c.writable_registered \/ left = 0 \/ t \in ready')
    <3>1. c.writable_registered \in BOOLEAN /\ (left > 0) \in BOOLEAN
      BY DEF ConnRecord
    <3> QED
      BY <1>2, <1>3, <2>1, <3>1
  <2>12. Keeps(t, c, k, p, w)
    BY <1>4, <2>2, <2>3, <2>5, <2>6, <2>7, <2>8, <2>9, <2>10, <2>11
    DEF Keeps, Stays, Moves
  <2> QED
    BY <2>5, <2>6, <2>12
<1> QED
  BY <1>6, <1>7

(* A control connection's event closes it, takes its request or is done with. *)
LEMMA HandleConnOutcome ==
    ASSUME IndInv, SocketInv, NEW e \in batch, HandleConn(e)
    PROVE  \E k \in ConnRecord, p \in ClientRecord :
              \/ Closes(e.tok, p) /\ UNCHANGED <<pc, job>>
              \/ Reads(e.tok, k, p) /\ pc' = "request" /\ job' = e
              \/ Idles(e.tok, k, p, e.r, e.w) /\ UNCHANGED <<pc, job>>
<1> DEFINE t == e.tok
           q == Peer(t)
<1>1. /\ pc = "events" /\ t \in Tokens /\ IsKnown(t)
      /\ e.r \in BOOLEAN /\ e.w \in BOOLEAN
  BY DEF HandleConn, Handling, IsKnown, IndInv, CoreInv, LoopInv, LoopTypeOK, Events
<1>2. /\ ClientInv /\ conns \in [Tokens -> ConnRecord]
      /\ client \in [Clients -> ClientRecord]
      /\ conns[t] \in ConnRecord /\ conns[t].client \in Clients
      /\ q \in ClientRecord
  BY <1>1 DEF IndInv, CoreInv, ClientInv, IpcTypeOK, ConnRecord, IsKnown, Peer
<1>3. ConnsInv /\ BatchInv /\ ~Served(t)
  BY <1>1 DEF SocketInv, Ended, Served
<1>4. Consistent(conns[t], q) /\ Settled(conns[t], q)
  BY <1>1, <1>3 DEF ConnsInv
<1>5. conns[t].write_buf > 0 /\ e.r => e.w
  BY <1>1, <1>3 DEF BatchInv
<1>6. /\ conns[t].write_buf \in Nat
      /\ q.line # "read" => conns[t].write_buf = 0
      /\ conns[t].close_after_flush \in BOOLEAN
  BY <1>1, <1>2, IpcAssumption DEF ConnRecord, ClientInv, OneResponse
<1> HIDE DEF t, q
<1>7. CASE ReadFails(t) /\ Close(t, 0) /\ UNCHANGED <<backlog, pc, job>>
  <2> DEFINE p == WithChunks(q, 0, "quit")
  <2>1. q.st = "quit" /\ q.inq \in Nat /\ q.inq + 0 <= SocketChunks
    BY <1>2, <1>7, IpcAssumption DEF ReadFails, q, ClientRecord
  <2>2. Shut(q, 0) = p
    BY <2>1, Zenon DEF Shut, WithChunks
  <2>3. p \in ClientRecord /\ p.st = "quit" /\ p.line = q.line
    BY <1>2, <2>1, WithChunksFacts
  <2>4. /\ client' = [client EXCEPT ![conns[t].client] = p]
        /\ conns' = [conns EXCEPT ![t] = NoConn] /\ ready' = ready \ {t}
    BY <1>7, <2>2 DEF Close, Peer, q
  <2> HIDE DEF p
  <2>5. Closes(t, p) /\ UNCHANGED <<pc, job>>
    BY <1>7, <2>3, <2>4 DEF Closes, Moves, q
  <2> QED
    BY <1>2, <2>3, <2>5 DEF t
<1>8. CASE q.line = "unread" /\ ReadRequest(t) /\ pc' = "request" /\ job' = e
  <2> DEFINE b == conns[t].close_after_flush \/ q.st = "quit"
             k == [conns[t] EXCEPT !.close_after_flush = b]
             p == [q EXCEPT !.line = "read"]
  <2>1. /\ client' = [client EXCEPT ![conns[t].client] = p]
        /\ conns' = [conns EXCEPT ![t] = k]
        /\ UNCHANGED <<backlog, ready>>
    BY <1>2, <1>8 DEF ReadRequest, Peer, q
  <2>2. b \in BOOLEAN /\ (b => q.st = "quit")
    BY <1>4, <1>6, <1>8 DEF Consistent
  <2> HIDE DEF b
  <2>3. /\ k \in ConnRecord /\ k.client = conns[t].client
        /\ k.write_buf = conns[t].write_buf /\ (k.close_after_flush <=> b)
        /\ k.writable_registered <=> conns[t].writable_registered
    BY <1>2, <2>2 DEF ConnRecord
  <2>4. p \in ClientRecord /\ p.st = q.st /\ p.line = "read"
    BY <1>2 DEF ClientRecord
  <2> HIDE DEF k, p
  <2>5. Reads(t, k, p)
    <3>1. k.write_buf = 0 /\ p.st = Peer(t).st
      BY <1>6, <1>8, <2>3, <2>4 DEF q
    <3>2. ~conns[t].writable_registered /\ q.st \in {"open", "quit"}
      BY <1>4, <1>6, <1>8 DEF Consistent
    <3>3. Consistent(k, p)
      BY <2>2, <2>3, <2>4, <3>1, <3>2 DEF Consistent
    <3> QED
      BY <2>1, <2>3, <2>4, <3>1, <3>3 DEF Reads, Moves
  <2> QED
    BY <1>8, <2>3, <2>4, <2>5 DEF t
<1>9. CASE /\ e.r => q.line # "unread"
           /\ ServeIdle(t, e.r, e.w) /\ UNCHANGED <<pc, job>>
  <2> DEFINE b == conns[t].close_after_flush \/ (e.r /\ q.st = "quit")
             c == [conns[t] EXCEPT !.close_after_flush = b]
  <2>1. FlushAndReconcile(t, c, e.w)
    BY <1>9 DEF ServeIdle, q
  <2>2. b \in BOOLEAN /\ (b => q.line = "read" \/ q.st = "quit")
        /\ (e.r /\ q.st = "quit" => b)
    BY <1>4, <1>6 DEF Consistent
  <2> HIDE DEF b
  <2>3. /\ c \in ConnRecord /\ c.client = conns[t].client
        /\ c.write_buf = conns[t].write_buf /\ (c.close_after_flush <=> b)
        /\ c.writable_registered <=> conns[t].writable_registered
    BY <1>2, <2>2 DEF ConnRecord
  <2> HIDE DEF c
  <2>4. PICK k \in ConnRecord, p \in ClientRecord :
           Closes(t, p) \/ Keeps(t, c, k, p, e.w)
    <3>1. /\ Peer(t).st \in {"open", "quit"}
          /\ c.close_after_flush => Peer(t).line = "read" \/ Peer(t).st = "quit"
          /\ Peer(t).line = "read"
                => c.write_buf + Peer(t).inq + Peer(t).got = ResponseChunks
      BY <1>4, <2>2, <2>3 DEF Consistent, Settled, q
    <3>2. t \in Tokens /\ IsKnown(t)
      BY <1>1 DEF t
    <3> QED
      BY <1>1, <1>2, <2>1, <2>3, <3>1, <3>2, FlushOutcome
  <2>5. ASSUME Keeps(t, c, k, p, e.w) PROVE Idles(t, k, p, e.r, e.w)
    <3>1. /\ Stays(t, k, p) /\ p.st = q.st /\ p.line = q.line
          /\ k.write_buf > 0 => conns[t].write_buf > 0
      BY <2>3, <2>5 DEF Keeps, Stays, q
    <3>2. Readable(p) => ~e.r
      BY <1>5, <1>9, <2>2, <2>3, <2>5, <3>1 DEF Readable, Keeps, t
    <3>3. Writable(k, p) => ~e.w /\ Writable(conns[t], q)
      <4>1. ASSUME Writable(k, p) PROVE k.write_buf > 0
        BY <3>1, <4>1 DEF Writable, Stays, Consistent
      <4>2. ASSUME Writable(k, p) PROVE c.writable_registered
        BY <1>4, <2>3, <3>1, <4>1, <4>2 DEF Consistent
      <4> QED
        BY <2>3, <2>5, <4>2 DEF Keeps, Writable, q
    <3> QED
      BY <3>1, <3>2, <3>3 DEF Idles, q
  <2> QED
    BY <1>9, <2>4, <2>5 DEF t
<1> QED
  BY <1>7, <1>8, <1>9 DEF HandleConn, q, t

(* The response to the request being served closes its connection or leaves it
   with an edge to report. *)
LEMMA FinishOutcome ==
    ASSUME IndInv, SocketInv, FinishRequest
    PROVE  \E k \in ConnRecord, p \in ClientRecord :
              \/ Closes(job.tok, p)
              \/ Stays(job.tok, k, p) /\ job.tok \in ready'
<1> DEFINE t == job.tok
           q == Peer(t)
           c == [conns[t] EXCEPT !.write_buf = ResponseChunks,
                                 !.close_after_flush = TRUE]
<1>1. pc = "request" /\ Unanswered(t) /\ Respond(t, job.w)
  BY DEF FinishRequest, IndInv, CoreInv, LoopInv, Serving
<1>2. t \in Tokens /\ IsKnown(t) /\ job.w \in BOOLEAN
  <2>1. NoEvent.w \in BOOLEAN /\ \A e \in Events : e.w \in BOOLEAN
    BY DEF NoEvent, Events
  <2>2. job \in Events \cup {NoEvent}
    BY DEF IndInv, CoreInv, LoopInv, LoopTypeOK
  <2> QED
    BY <1>1, <2>1, <2>2 DEF Unanswered
<1>3. /\ ClientInv /\ conns[t] \in ConnRecord /\ q.line = "read"
      /\ conns[t].write_buf = 0 /\ q.inq = 0 /\ q.got = 0
  BY <1>1, <1>2 DEF IndInv, CoreInv, ClientInv, IpcTypeOK, Unanswered
<1>4. Consistent(conns[t], q)
  BY <1>1, <1>2 DEF SocketInv, Ended, ConnsInv
<1> HIDE DEF t, q
<1>5. conns[t].write_buf + ResponseChunks = ResponseChunks
      /\ ResponseChunks \in 0..ResponseChunks /\ ResponseChunks > 0
  BY <1>3, IpcAssumption
<1>6. FlushAndReconcile(t, c, job.w)
  <2>1. c = [conns[t] EXCEPT !.write_buf = @ + ResponseChunks,
                             !.close_after_flush = TRUE]
    BY <1>3, <1>5
  <2> HIDE DEF c
  <2> QED
    BY <1>1, <2>1 DEF Respond
<1>7. /\ c \in ConnRecord /\ c.client = conns[t].client
      /\ c.write_buf = ResponseChunks /\ c.close_after_flush
      /\ c.writable_registered <=> conns[t].writable_registered
  BY <1>3, <1>5 DEF ConnRecord
<1> HIDE DEF c
<1>8. ~c.writable_registered
  BY <1>3, <1>4, <1>7 DEF Consistent
<1>9. PICK k \in ConnRecord, p \in ClientRecord :
         Closes(t, p) \/ Keeps(t, c, k, p, job.w)
  <2>1. /\ Peer(t).st \in {"open", "quit"}
        /\ c.close_after_flush => Peer(t).line = "read" \/ Peer(t).st = "quit"
        /\ Peer(t).line = "read"
              => c.write_buf + Peer(t).inq + Peer(t).got = ResponseChunks
    BY <1>3, <1>4, <1>5, <1>7 DEF Consistent, q
  <2> QED
    BY <1>2, <1>3, <1>6, <1>7, <2>1, FlushOutcome
<1>10. ASSUME Keeps(t, c, k, p, job.w) PROVE Stays(t, k, p) /\ t \in ready'
  <2>1. k.write_buf > 0
    BY <1>7, <1>10 DEF Keeps, Stays, Settled
  <2> QED
    BY <1>8, <1>10, <2>1 DEF Keeps
<1> QED
  BY <1>9, <1>10 DEF t

-----------------------------------------------------------------------------
(* What a step may do to the control socket *)

(* A step that does not concern it: no edge of a connection is dropped, nor an
   event of one, and no request is begun or finished. *)
Quiet ==
    /\ UNCHANGED <<conns, client, backlog>>
    /\ ready \cap Connected \subseteq ready'
    /\ \/ batch' = batch
       \/ \E e \in batch : batch' = batch \ {e} /\ ~IsKnown(e.tok)
    /\ (pc' = pc /\ job' = job) \/ (pc # "request" /\ pc' # "request")
    /\ pc' \notin Busy => batch' = {} \/ (pc \notin Busy /\ batch' = batch)

Accepts ==
    /\ \E c \in backlog : AcceptOne(c) \/ AcceptLeaks(c)
    /\ pc = "accept" /\ pc' \in {"accept", "events"} /\ UNCHANGED <<job, batch>>

ClientActs == \E c \in Clients : ClientStep(c) /\ UNCHANGED loopVars

(* A reap and a closed log connection drop the edges of their own tokens. *)
LEMMA OwnEdges ==
    ASSUME IndInv, TokenOwnership,
           \/ \E a \in Apps : Running(a) /\ Reap(a, ~Stopping)
           \/ \E t \in logs : LogClose(t)
    PROVE  ready \cap Connected \subseteq ready'
<1>1. ASSUME NEW a \in Apps, Running(a), Reap(a, ~Stopping)
      PROVE  ready \cap Connected \subseteq ready'
  <2>1. ready' = ready \ OwnTokens(a)
    BY <1>1 DEF Reap, OwnTokens
  <2>2. OwnTokens(a) \cap Connected = {}
    BY <1>1 DEF TokenOwnership
  <2> QED
    BY <2>1, <2>2
<1>2. ASSUME NEW t \in logs, LogClose(t)
      PROVE  ready \cap Connected \subseteq ready'
  BY <1>2 DEF LogClose, TokenOwnership
<1> QED
  BY <1>1, <1>2

(* Every step of a daemon that goes on is of one of these kinds. *)
LEMMA StepKinds ==
    ASSUME IndInv, TokenOwnership, [Next]_vars, ~Ended'
    PROVE  \/ Quiet \/ Poll \/ FinishRequest \/ Accepts \/ ClientActs
           \/ \E e \in batch : HandleConn(e)
<1>1. CASE AcceptAll
  <2>1. CASE \E c \in backlog : AcceptOne(c) \/ AcceptLeaks(c)
    BY <1>1, <2>1 DEF AcceptAll, Accepts
  <2>2. CASE pc' = "events" /\ UNCHANGED <<ipcVars, ready>>
    BY <1>1, <2>2 DEF AcceptAll, Quiet, ipcVars, Busy
  <2> QED
    BY <1>1, <2>1, <2>2 DEF AcceptAll
<1>2. CASE \E e \in batch : HandleSignal(e) \/ HandleListener(e)
  <2>1. PICK e \in batch : HandleSignal(e) \/ HandleListener(e)
    BY <1>2
  <2>2. ~IsKnown(e.tok)
    BY <2>1, TokensAssumption DEF HandleSignal, HandleListener, IsKnown, ReservedTokens
  <2>3. /\ UNCHANGED <<conns, client, backlog, ready, job>>
        /\ batch' = batch \ {e} /\ pc = "events" /\ pc' \in {"events", "accept"}
    BY <2>1 DEF HandleSignal, HandleListener, Handling, ipcVars, appVars
  <2> QED
    BY <2>2, <2>3 DEF Quiet, Busy
<1>3. CASE \E e \in batch : HandleApp(e)
  <2>1. PICK e \in batch : HandleApp(e)
    BY <1>3
  <2>2. /\ UNCHANGED <<conns, client, backlog, job>> /\ ~IsKnown(e.tok)
        /\ batch' = batch \ {e} /\ pc = "events" /\ pc' = "events"
        /\ \/ UNCHANGED ready \/ \E a \in Apps : Running(a) /\ Reap(a, ~Stopping)
    BY <2>1 DEF HandleApp, Handling, ipcVars, Ended
  <2>3. ready \cap Connected \subseteq ready'
    BY <2>2, OwnEdges
  <2> QED
    BY <2>2, <2>3 DEF Quiet, Busy
<1>4. CASE ServeRequest \/ CreateApp \/ RestartApp \/ ShutdownApp
  <2>1. /\ UNCHANGED <<conns, client, backlog, job, batch>>
        /\ pc' = pc
    BY <1>4 DEF ServeRequest, CreateApp, RestartApp, ShutdownApp, ipcVars, Ended
  <2>2. ready' = ready
    BY <1>4
    DEF ServeRequest, CreateApp, RestartApp, ShutdownApp, AppStart, AppStop,
        AppCreate, AppCreateFails, MaybeRestart, RuntimeStart, RuntimeFails
  <2>3. pc \in Busy \/ pc \notin Busy
    OBVIOUS
  <2> QED
    BY <2>1, <2>2, <2>3 DEF Quiet
<1>5. CASE Bind \/ EventsDone \/ RestartDone \/ ShutdownDone \/ Check
  <2>1. /\ UNCHANGED <<conns, client, backlog, job, batch>> /\ ready \subseteq ready'
        /\ pc # "request" /\ pc' # "request"
        /\ pc \notin Busy \/ batch = {}
    BY <1>5
    DEF Bind, EventsDone, RestartDone, ShutdownDone, Check, ipcVars, appVars, Ended,
        Busy
  <2> QED
    BY <2>1 DEF Quiet
<1>6. CASE LogAcceptAll
  BY <1>6 DEF LogAcceptAll, Quiet, ipcVars, Busy
<1>7. CASE PushUpdates
  <2>1. ready \cap Connected \subseteq ready'
    BY <1>7, OwnEdges DEF PushUpdates
  <2> QED
    BY <1>7, <2>1 DEF PushUpdates, Quiet, ipcVars, loopVars, Busy
<1>8. CASE \E e \in batch : HandleLog(e)
  <2>1. PICK e \in batch : HandleLog(e)
    BY <1>8
  <2>2. /\ UNCHANGED <<conns, client, backlog, job>> /\ ~IsKnown(e.tok)
        /\ batch' = batch \ {e} /\ pc = "events" /\ pc' \in {"events", "log_accept"}
        /\ \/ UNCHANGED ready \/ \E t \in logs : LogClose(t)
    BY <2>1 DEF HandleLog, Handling, ipcVars
  <2>3. ready \cap Connected \subseteq ready'
    BY <2>2, OwnEdges
  <2> QED
    BY <2>2, <2>3 DEF Quiet, Busy
<1>9. CASE MainEnvironment
  <2>1. CASE ClientActs
    BY <2>1
  <2>2. CASE ~ClientActs
    <3>1. UNCHANGED <<conns, client, backlog, pc, job, batch>>
      BY <1>9, <2>2 DEF MainEnvironment, ClientActs, Sigint, ipcVars, loopVars
    <3>2. ready \subseteq ready'
      BY <1>9, <2>2
      DEF MainEnvironment, ClientActs, ProcExit, ProcFork, ProcOutput, DelayElapses,
          Sigint
    <3> QED
      BY <3>1, <3>2 DEF Quiet
  <2> QED
    BY <2>1, <2>2
<1>10. CASE LogEnvironment \/ UNCHANGED vars
  <2>1. UNCHANGED <<conns, client, backlog, pc, job, batch>> /\ ready \subseteq ready'
    BY <1>10
    DEF LogEnvironment, LogConnect, LogTraffic, vars, appVars, ipcVars, loopVars
  <2> QED
    BY <2>1 DEF Quiet
<1> QED
  BY <1>1, <1>2, <1>3, <1>4, <1>5, <1>6, <1>7, <1>8, <1>9, <1>10
  DEF Next, Daemon, MainStep, LogStep, Environment, Done

(* What Moves changes, and what it leaves. *)
LEMMA MovesFrame ==
    ASSUME ClientInv, NEW t \in Tokens, IsKnown(t), NEW k, NEW p, Moves(t, k, p)
    PROVE  /\ conns'[t] = k /\ client'[conns[t].client] = p
           /\ conns[t].client \in Clients /\ conns[t].client \notin backlog'
           /\ backlog' = backlog
           /\ \A u \in Tokens \ {t} :
                 /\ conns'[u] = conns[u]
                 /\ IsKnown(u) => client'[conns[u].client] = Peer(u)
           /\ \A d \in Clients \ {conns[t].client} : client'[d] = client[d]
<1>1. /\ conns \in [Tokens -> ConnRecord] /\ client \in [Clients -> ClientRecord]
      /\ conns[t].client \in Clients
      /\ \A u \in Tokens : IsKnown(u) => conns[u].client \in Clients
  BY DEF ClientInv, IpcTypeOK, ConnRecord, IsKnown
<1>2. /\ \A u \in Tokens : IsKnown(u) /\ u # t => conns[u].client # conns[t].client
      /\ conns[t].client \notin backlog
  BY <1>1 DEF ClientInv, OneConnection
<1> QED
  BY <1>1, <1>2 DEF Moves, Peer

(* One client c becomes r: it connects; it sends, receives or hangs up; or it
   comes back. *)
ClientMoves(c, r) ==
    /\ client' = [client EXCEPT ![c] = r] /\ UNCHANGED conns
    /\ \/ /\ client[c].st = "idle" /\ r.st = "open" /\ r.line = client[c].line
          /\ backlog' = backlog \cup {c} /\ ready' = ready \cup {UNIX_LISTENER_TOKEN}
       \/ /\ r.st = client[c].st \/ (client[c].st = "open" /\ r.st = "quit")
          /\ client[c].st \in {"open", "shut"}
          /\ \/ r.line = client[c].line
             \/ /\ client[c].line = "none" /\ r.line = "unread"
                /\ client[c].st = "open"
          /\ r.inq + r.got = client[c].inq + client[c].got
          /\ UNCHANGED backlog /\ ready' = ready \cup ConnOf(c)
       \/ /\ r.st = "idle" /\ r.line = "none"
          /\ ConnOf(c) = {} /\ c \notin backlog /\ UNCHANGED <<backlog, ready>>

(* The steps of a client are such. *)
LEMMA ClientOutcome ==
    ASSUME ClientInv, NEW c \in Clients, ClientStep(c)
    PROVE  \E r \in ClientRecord : ClientMoves(c, r)
<1>1. client \in [Clients -> ClientRecord] /\ client[c] \in ClientRecord
  BY DEF ClientInv, IpcTypeOK
<1>2. /\ client[c].got \in 0..ResponseChunks /\ client[c].inq \in 0..SocketChunks
      /\ client[c].got + client[c].inq <= ResponseChunks
      /\ SocketChunks \in Nat /\ ResponseChunks \in Nat
  BY <1>1, IpcAssumption DEF ClientInv, OneResponse, ClientRecord
<1>3. CASE Connect(c)
  <2> DEFINE r == WithSt(client[c], "open")
  <2>1. r \in ClientRecord /\ r.st = "open" /\ r.line = client[c].line
    BY <1>1, WithStFacts
  <2>2. client' = [client EXCEPT ![c] = r]
    BY <1>3 DEF Connect, WithSt
  <2> HIDE DEF r
  <2>3. ClientMoves(c, r)
    BY <1>3, <2>1, <2>2 DEF ClientMoves, Connect
  <2> QED
    BY <2>1, <2>3
<1>4. CASE Send(c)
  <2> DEFINE r == [client[c] EXCEPT !.line = "unread"]
  <2>1. /\ r \in ClientRecord /\ r.st = client[c].st /\ r.line = "unread"
        /\ r.got = client[c].got /\ r.inq = client[c].inq
    BY <1>1 DEF ClientRecord
  <2>2. client' = [client EXCEPT ![c] = r]
    BY <1>4 DEF Send
  <2> HIDE DEF r
  <2>3. ClientMoves(c, r)
    BY <1>4, <2>1, <2>2 DEF ClientMoves, Send
  <2> QED
    BY <2>1, <2>3
<1>5. CASE Receive(c)
  <2> DEFINE i == client[c].inq - 1
             g == client[c].got + 1
             r == [client[c] EXCEPT !.inq = i, !.got = g]
  <2>1. client' = [client EXCEPT ![c] = r] /\ client[c].inq > 0
    BY <1>1, <1>5 DEF Receive
  <2>2. i \in 0..SocketChunks /\ g \in 0..ResponseChunks
        /\ i + g = client[c].inq + client[c].got
    BY <1>2, <2>1
  <2> HIDE DEF i, g
  <2>3. /\ r \in ClientRecord /\ r.st = client[c].st
        /\ r.line = client[c].line /\ r.got = g /\ r.inq = i
    BY <1>1, <2>2 DEF ClientRecord
  <2> HIDE DEF r
  <2>4. ClientMoves(c, r)
    BY <1>5, <2>1, <2>2, <2>3 DEF ClientMoves, Receive
  <2> QED
    BY <2>3, <2>4
<1>6. CASE HangUp(c)
  <2> DEFINE r == WithSt(client[c], "quit")
  <2>1. /\ r \in ClientRecord /\ r.st = "quit" /\ r.line = client[c].line
        /\ r.got = client[c].got /\ r.inq = client[c].inq
    BY <1>1, WithStFacts
  <2>2. client' = [client EXCEPT ![c] = r]
    BY <1>6 DEF HangUp, WithSt
  <2> HIDE DEF r
  <2>3. ClientMoves(c, r)
    BY <1>6, <2>1, <2>2 DEF ClientMoves, HangUp
  <2> QED
    BY <2>1, <2>3
<1>7. CASE ComeBack(c)
  <2>1. PICK q \in Requests : client' = [client EXCEPT ![c] = IdleClient(q)]
    BY <1>7 DEF ComeBack
  <2> DEFINE r == IdleClient(q)
  <2>2. r \in ClientRecord /\ r.st = "idle" /\ r.line = "none"
    BY IpcAssumption DEF IdleClient, ClientRecord
  <2>3. client' = [client EXCEPT ![c] = r]
    BY <2>1
  <2> HIDE DEF r
  <2>4. ClientMoves(c, r)
    BY <1>7, <2>2, <2>3 DEF ClientMoves, ComeBack
  <2> QED
    BY <2>2, <2>4
<1> QED
  BY <1>3, <1>4, <1>5, <1>6, <1>7 DEF ClientStep

-----------------------------------------------------------------------------
(* SocketInv is kept by each kind of step *)

(* By the steps that do not concern the control socket. *)
LEMMA SocketQuiet ==
    ASSUME IndInv, ConnsInv, ClientsInv, BatchInv, Quiet
    PROVE  ConnsInv' /\ ClientsInv' /\ BatchInv'
<1>1. /\ UNCHANGED <<conns, client, backlog>> /\ batch' \subseteq batch
      /\ \A t : Served(t)' => Served(t)
      /\ \A t : Served(t) => Served(t)'
      /\ pc' \notin Busy => batch' = {} \/ pc \notin Busy
  BY DEF Quiet, Served
<1>2. \A t \in Tokens : IsKnown(t)' = IsKnown(t) /\ Peer(t)' = Peer(t)
  BY <1>1 DEF IsKnown, Peer
<1>3. ConnsInv'
  BY <1>1, <1>2 DEF ConnsInv
<1>4. ClientsInv'
  BY <1>1 DEF ClientsInv
<1>5. BatchInv'
  BY <1>1 DEF BatchInv, IsKnown
<1> QED
  BY <1>3, <1>4, <1>5

(* By poll, whose events say what epoll sees. *)
LEMMA SocketPoll ==
    ASSUME IndInv, ConnsInv, ClientsInv, BatchInv, Poll
    PROVE  ConnsInv' /\ ClientsInv' /\ BatchInv'
<1>1. /\ UNCHANGED <<conns, client, backlog>> /\ pc = "poll" /\ pc' = "events"
      /\ \A e \in batch' : \E t \in Reportable : e = EventOf(t)
  BY DEF Poll, ipcVars
<1>2. \A t : ~Served(t) /\ ~Served(t)'
  BY <1>1 DEF Served
<1>3. ConnsInv' /\ ClientsInv'
  BY <1>1, <1>2 DEF ConnsInv, ClientsInv, IsKnown, Peer
<1>4. \A t : /\ EventOf(t).tok = t
             /\ EventOf(t).r = (IsKnown(t) => ConnReadable(t))
             /\ EventOf(t).w = (IsKnown(t) /\ ConnWritable(t))
  BY DEF EventOf
<1>5. \A e, f \in batch' : e.tok = f.tok => e = f
  BY <1>1, <1>4
<1>6. ASSUME NEW e \in batch', IsKnown(e.tok), conns[e.tok].write_buf > 0, e.r
      PROVE  e.w
  <2> DEFINE t == e.tok
  <2>1. t \in Tokens /\ IsKnown(t) /\ e = EventOf(t)
    BY <1>1, <1>4, <1>6 DEF IsKnown
  <2>2. ConnReadable(t)
    BY <1>4, <1>6, <2>1
  <2>3. Peer(t).line = "read"
    BY <1>6, <2>1 DEF IndInv, CoreInv, ClientInv, OneResponse
  <2>4. Consistent(conns[t], Peer(t))
    BY <2>1 DEF ConnsInv
  <2>5. ConnWritable(t)
    BY <1>6, <2>2, <2>3, <2>4 DEF ConnReadable, ConnWritable, Consistent
  <2> QED
    BY <1>4, <2>1, <2>5
<1>7. BatchInv'
  BY <1>1, <1>2, <1>5, <1>6 DEF BatchInv, Busy, IsKnown
<1> QED
  BY <1>3, <1>7

(* By accept_all, whose new connections have nothing to write. *)
LEMMA SocketAccept ==
    ASSUME IndInv, ConnsInv, ClientsInv, BatchInv, Accepts
    PROVE  ConnsInv' /\ ClientsInv' /\ BatchInv'
<1>1. PICK c \in backlog : AcceptOne(c) \/ AcceptLeaks(c)
  BY DEF Accepts
<1>2. /\ conns \in [Tokens -> ConnRecord] /\ client \in [Clients -> ClientRecord]
      /\ backlog \subseteq Clients /\ vacant \in Seq(Tokens)
      /\ c \in Clients /\ \A u \in Tokens : conns[u].client # c
      /\ \A u \in Tokens : IsKnown(u) => conns[u].client \in Clients
  BY <1>1
  DEF IndInv, CoreInv, ClientInv, IpcTypeOK, OneConnection, SlabTypeOK, ConnRecord,
      IsKnown
<1>3. pc = "accept" /\ pc' \in {"accept", "events"} /\ UNCHANGED <<job, batch>>
      /\ backlog' = backlog \ {c} /\ \A t : ~Served(t) /\ ~Served(t)'
  BY <1>1 DEF Accepts, Served, AcceptOne, Reject, AcceptLeaks
<1>4. CASE Reject(c) \/ AcceptLeaks(c)
  <2> DEFINE s == IF client[c].st = "quit" THEN "quit" ELSE "rejected"
             r == WithSt(client[c], s)
  <2>1. client' = [client EXCEPT ![c] = r] /\ UNCHANGED conns
    BY <1>2, <1>4 DEF Reject, AcceptLeaks, WithSt
  <2>2. s \in {"quit", "rejected"}
    OBVIOUS
  <2> HIDE DEF s
  <2>3. r.st = s
    BY <1>2, <2>2, WithStFacts
  <2> HIDE DEF r
  <2>4. client'[c] = r /\ \A d \in Clients \ {c} : client'[d] = client[d]
    BY <1>2, <2>1
  <2>5. \A u \in Tokens : IsKnown(u) => client'[conns[u].client] = Peer(u)
    BY <1>2, <2>4 DEF Peer
  <2>6. ConnsInv'
    BY <1>3, <2>1, <2>5 DEF ConnsInv, IsKnown, Peer
  <2>7. ClientsInv'
    BY <1>3, <2>2, <2>3, <2>4 DEF ClientsInv
  <2>8. BatchInv'
    BY <1>3, <2>1 DEF BatchInv, Busy, IsKnown
  <2> QED
    BY <2>6, <2>7, <2>8
<1>5. CASE /\ vacant # <<>> /\ UNCHANGED client
           /\ conns' = [conns EXCEPT ![vacant[1]] = NewConn(c)]
  <2> DEFINE t == vacant[1]
             k == NewConn(c)
  <2>1. t \in Tokens /\ conns' = [conns EXCEPT ![t] = k]
    BY <1>2, <1>5
  <2>2. /\ k.client = c /\ k.write_buf = 0
        /\ ~k.close_after_flush /\ ~k.writable_registered
    BY DEF NewConn
  <2> HIDE DEF t, k
  <2>3. conns'[t] = k /\ \A u \in Tokens \ {t} : conns'[u] = conns[u]
    BY <1>2, <2>1
  <2>4. client[c].st \in {"open", "quit"} /\ client[c].line # "read"
    BY <1>1, <1>2 DEF ClientsInv
  <2>5. Consistent(k, client[c]) /\ Settled(k, client[c])
    BY <2>2, <2>4 DEF Consistent, Settled
  <2>6. ConnsInv'
    <3>1. ASSUME NEW u \in Tokens, IsKnown(u)'
          PROVE  /\ Consistent(conns'[u], client'[conns'[u].client])
                 /\ Settled(conns'[u], client'[conns'[u].client])
      <4>1. CASE u = t
        BY <1>5, <2>2, <2>3, <2>5, <4>1
      <4>2. CASE u # t
        BY <1>3, <1>5, <2>3, <3>1, <4>2 DEF ConnsInv, IsKnown, Peer
      <4> QED
        BY <4>1, <4>2
    <3> QED
      BY <3>1 DEF ConnsInv, Peer
  <2>7. ClientsInv'
    BY <1>3, <1>5 DEF ClientsInv
  <2>8. BatchInv'
    BY <1>3, <2>2, <2>3 DEF BatchInv, Busy, IsKnown
  <2> QED
    BY <2>6, <2>7, <2>8
<1> QED
  BY <1>1, <1>4, <1>5 DEF AcceptOne

(* By the clients themselves. *)
LEMMA SocketClients ==
    ASSUME IndInv, ConnsInv, ClientsInv, BatchInv, ClientActs
    PROVE  ConnsInv' /\ ClientsInv' /\ BatchInv'
<1>1. PICK c \in Clients : ClientStep(c)
  BY DEF ClientActs
<1>2. /\ conns \in [Tokens -> ConnRecord] /\ client \in [Clients -> ClientRecord]
      /\ \A u \in Tokens : IsKnown(u) => conns[u].client \in Clients
      /\ client[c].st = "idle" => \A u \in Tokens : conns[u].client # c
      /\ ClientInv
  BY DEF IndInv, CoreInv, ClientInv, IpcTypeOK, OneConnection, ConnRecord, IsKnown
<1>3. PICK r \in ClientRecord : ClientMoves(c, r)
  BY <1>1, <1>2, ClientOutcome
<1>4. /\ UNCHANGED <<conns, pc, job, batch>>
      /\ client'[c] = r /\ \A d \in Clients \ {c} : client'[d] = client[d]
  BY <1>2, <1>3 DEF ClientActs, ClientMoves, loopVars
<1>5. /\ r.got \in Nat /\ r.inq \in Nat
      /\ client[c].got \in Nat /\ client[c].inq \in Nat
      /\ \A u \in Tokens : conns[u].write_buf \in Nat
  BY <1>2, IpcAssumption DEF ClientRecord, ConnRecord
<1>6. ASSUME NEW u \in Tokens, IsKnown(u)
      PROVE  /\ Consistent(conns[u], client'[conns[u].client])
             /\ Served(u) \/ Settled(conns[u], client'[conns[u].client])
  <2>1. /\ Consistent(conns[u], Peer(u))
        /\ Served(u) \/ Settled(conns[u], Peer(u))
    BY <1>6 DEF ConnsInv
  <2>2. CASE conns[u].client # c
    BY <1>2, <1>4, <1>6, <2>1, <2>2 DEF Peer
  <2>3. CASE conns[u].client = c
    <3>1. /\ r.st = client[c].st \/ (client[c].st = "open" /\ r.st = "quit")
          /\ \/ r.line = client[c].line
             \/ /\ client[c].line = "none" /\ r.line = "unread"
                /\ client[c].st = "open"
          /\ r.inq + r.got = client[c].inq + client[c].got
      BY <1>2, <1>3, <2>3 DEF ClientMoves, ConnOf
    <3>2. Consistent(conns[u], r)
      BY <2>1, <2>3, <3>1 DEF Consistent, Peer
    <3>3. ASSUME Settled(conns[u], client[c]) PROVE Settled(conns[u], r)
      <4>1. r.line = "read" => client[c].line = "read"
        BY <3>1
      <4>2. conns[u].write_buf + r.inq + r.got
               = conns[u].write_buf + client[c].inq + client[c].got
        BY <1>5, <3>1
      <4> QED
        BY <3>3, <4>1, <4>2 DEF Settled
    <3> QED
      BY <1>4, <2>1, <2>3, <3>2, <3>3 DEF Peer
  <2> QED
    BY <2>2, <2>3
<1>7. ConnsInv'
  BY <1>4, <1>6 DEF ConnsInv, IsKnown, Peer, Served
<1>8. ClientsInv'
  <2>1. ASSUME NEW d \in Clients
        PROVE  /\ d \in backlog' => client'[d].st \in {"open", "quit"}
               /\ d \in backlog' \/ client'[d].st = "idle" => client'[d].line # "read"
               /\ client'[d].st = "shut"
                     => client'[d].got + client'[d].inq = ResponseChunks
    <3>1. CASE d # c
      BY <1>3, <1>4, <3>1 DEF ClientsInv, ClientMoves
    <3>2. CASE d = c
      BY <1>3, <1>4, <1>5, <3>2 DEF ClientsInv, ClientMoves
    <3> QED
      BY <3>1, <3>2
  <2> QED
    BY <2>1 DEF ClientsInv
<1>9. BatchInv'
  BY <1>4 DEF BatchInv, Served, IsKnown
<1> QED
  BY <1>7, <1>8, <1>9

(* A connection that moves leaves the others as they were. *)
LEMMA SocketMoves ==
    ASSUME ClientInv, ConnsInv, ClientsInv, NEW t \in Tokens, IsKnown(t),
           NEW k, NEW p, Moves(t, k, p),
           k.client = NoClient \/ Consistent(k, p),
           k.client = NoClient \/ k.client = conns[t].client,
           k.client = NoClient \/ Served(t)' \/ Settled(k, p),
           p.st \in {"open", "quit", "shut"},
           p.st = "shut" => p.got + p.inq = ResponseChunks,
           \A u \in Tokens \ {t} : ~Served(u) /\ ~Served(u)'
    PROVE  ConnsInv' /\ ClientsInv'
<1>1. /\ conns'[t] = k /\ client'[conns[t].client] = p
      /\ conns[t].client \in Clients /\ conns[t].client \notin backlog'
      /\ backlog' = backlog
      /\ \A u \in Tokens \ {t} :
            /\ conns'[u] = conns[u]
            /\ IsKnown(u) => client'[conns[u].client] = Peer(u)
      /\ \A d \in Clients \ {conns[t].client} : client'[d] = client[d]
  BY MovesFrame
<1>2. ASSUME NEW u \in Tokens, IsKnown(u)'
      PROVE  /\ Consistent(conns'[u], client'[conns'[u].client])
             /\ Served(u)' \/ Settled(conns'[u], client'[conns'[u].client])
  <2>1. CASE u = t
    BY <1>1, <1>2, <2>1 DEF IsKnown
  <2>2. CASE u # t
    <3>1. IsKnown(u) /\ conns'[u] = conns[u] /\ client'[conns[u].client] = Peer(u)
      BY <1>1, <1>2, <2>2 DEF IsKnown
    <3> QED
      BY <2>2, <3>1 DEF ConnsInv
  <2> QED
    BY <2>1, <2>2
<1>3. ConnsInv'
  BY <1>2 DEF ConnsInv, Peer
<1>4. ClientsInv'
  <2>1. ASSUME NEW d \in Clients
        PROVE  /\ d \in backlog' => client'[d].st \in {"open", "quit"}
               /\ d \in backlog' \/ client'[d].st = "idle" => client'[d].line # "read"
               /\ client'[d].st = "shut"
                     => client'[d].got + client'[d].inq = ResponseChunks
    <3>1. CASE d = conns[t].client
      BY <1>1, <3>1
    <3>2. CASE d # conns[t].client
      BY <1>1, <3>2 DEF ClientsInv
    <3> QED
      BY <3>1, <3>2
  <2> QED
    BY <2>1 DEF ClientsInv
<1> QED
  BY <1>3, <1>4

(* By the events of control connections. *)
LEMMA SocketConn ==
    ASSUME IndInv, ConnsInv, ClientsInv, BatchInv, NEW e \in batch, HandleConn(e)
    PROVE  ConnsInv' /\ ClientsInv' /\ BatchInv'
<1> DEFINE t == e.tok
<1>1. /\ pc = "events" /\ t \in Tokens /\ IsKnown(t) /\ batch' = batch \ {e}
      /\ ClientInv
  BY DEF HandleConn, Handling, IsKnown, IndInv, CoreInv
<1>2. PICK k \in ConnRecord, p \in ClientRecord :
         \/ Closes(t, p) /\ UNCHANGED <<pc, job>>
         \/ Reads(t, k, p) /\ pc' = "request" /\ job' = e
         \/ Idles(t, k, p, e.r, e.w) /\ UNCHANGED <<pc, job>>
  BY HandleConnOutcome DEF SocketInv
<1>3. /\ (\A u : ~Served(u)) /\ \A u \in Tokens \ {t} : ~Served(u)'
      /\ pc' \in {"events", "request"}
  BY <1>1, <1>2 DEF Served
<1>4. Consistent(conns[t], Peer(t)) /\ Settled(conns[t], Peer(t))
  BY <1>1, <1>3 DEF ConnsInv
<1>5. NoConn.client = NoClient /\ NoConn.write_buf = 0
  BY DEF NoConn, NewConn
<1> HIDE DEF t
<1>6. PICK m : /\ Moves(t, m, p)
               /\ m.client = NoClient \/ Consistent(m, p)
               /\ m.client = NoClient \/ m.client = conns[t].client
               /\ m.client = NoClient \/ Served(t)' \/ Settled(m, p)
               /\ m.write_buf > 0 => conns[t].write_buf > 0
               /\ p.st \in {"open", "quit", "shut"}
               /\ p.st = "shut" => p.got + p.inq = ResponseChunks
  <2>1. CASE Closes(t, p)
    <3>1. NoConn.write_buf > 0 => conns[t].write_buf > 0
      BY <1>5
    <3> QED
      BY <1>5, <2>1, <3>1 DEF Closes
  <2>2. CASE Reads(t, k, p) /\ pc' = "request" /\ job' = e
    <3>1. Served(t)'
      BY <2>2 DEF Served, t
    <3>2. p.st \in {"open", "quit"} /\ (k.write_buf > 0 => conns[t].write_buf > 0)
      BY <2>2 DEF Reads, Consistent
    <3> QED
      BY <2>2, <3>1, <3>2 DEF Reads
  <2>3. CASE Idles(t, k, p, e.r, e.w)
    <3>1. p.st \in {"open", "quit"}
      BY <2>3 DEF Idles, Stays, Consistent
    <3> QED
      BY <2>3, <3>1 DEF Idles, Stays
  <2> QED
    BY <1>2, <2>1, <2>2, <2>3
<1>7. ConnsInv' /\ ClientsInv'
  BY <1>1, <1>3, <1>6, SocketMoves DEF t
<1>8. /\ conns'[t] = m
      /\ \A u \in Tokens \ {t} : conns'[u] = conns[u]
  BY <1>1, <1>6, MovesFrame DEF t
<1>9. BatchInv'
  <2>1. \A f \in batch' : f \in batch /\ f.tok # t
    BY <1>1 DEF BatchInv, t
  <2>2. \A f \in batch' : ~Served(f.tok)'
    BY <1>2, <1>3, <2>1 DEF Served, t
  <2>3. \A f \in batch' :
           IsKnown(f.tok)' => IsKnown(f.tok) /\ conns'[f.tok] = conns[f.tok]
    BY <1>8, <2>1 DEF IsKnown
  <2>4. pc' \in Busy
    BY <1>3 DEF Busy
  <2> QED
    BY <2>1, <2>2, <2>3, <2>4 DEF BatchInv
<1> QED
  BY <1>7, <1>9

(* By the end of a request, the only step that fills a write_buf. *)
LEMMA SocketFinish ==
    ASSUME IndInv, ConnsInv, ClientsInv, BatchInv, FinishRequest
    PROVE  ConnsInv' /\ ClientsInv' /\ BatchInv'
<1>1. PICK t \in Tokens :
         /\ t = job.tok /\ IsKnown(t) /\ UNCHANGED batch /\ ClientInv
         /\ pc = "request" /\ pc' = "events"
  BY DEF FinishRequest, IndInv, CoreInv, LoopInv, Serving, Unanswered
<1>2. PICK k \in ConnRecord, p \in ClientRecord :
         Closes(t, p) \/ (Stays(t, k, p) /\ t \in ready')
  BY <1>1, FinishOutcome DEF SocketInv
<1>3. \A u \in Tokens \ {t} : ~Served(u) /\ ~Served(u)'
  BY <1>1 DEF Served
<1>4. NoConn.client = NoClient
  BY DEF NoConn, NewConn
<1>5. PICK m : /\ Moves(t, m, p)
               /\ m.client = NoClient \/ Consistent(m, p)
               /\ m.client = NoClient \/ m.client = conns[t].client
               /\ m.client = NoClient \/ Settled(m, p)
               /\ p.st \in {"open", "quit", "shut"}
               /\ p.st = "shut" => p.got + p.inq = ResponseChunks
  <2>1. CASE Closes(t, p)
    BY <1>4, <2>1 DEF Closes
  <2>2. CASE Stays(t, k, p)
    <3>1. p.st \in {"open", "quit"}
      BY <2>2 DEF Stays, Consistent
    <3> QED
      BY <2>2, <3>1 DEF Stays
  <2> QED
    BY <1>2, <2>1, <2>2
<1>6. ConnsInv' /\ ClientsInv'
  BY <1>1, <1>3, <1>5, SocketMoves
<1>7. \A u \in Tokens \ {t} : conns'[u] = conns[u]
  BY <1>1, <1>5, MovesFrame
<1>8. BatchInv'
  <2>1. \A f \in batch : f.tok # t
    BY <1>1 DEF BatchInv, Served
  <2>2. \A f \in batch : ~Served(f.tok)'
    BY <1>1 DEF Served
  <2>3. \A f \in batch :
           IsKnown(f.tok)' => IsKnown(f.tok) /\ conns'[f.tok] = conns[f.tok]
    BY <1>7, <2>1 DEF IsKnown
  <2>4. pc' \in Busy
    BY <1>1 DEF Busy
  <2> QED
    BY <1>1, <2>1, <2>2, <2>3, <2>4 DEF BatchInv
<1> QED
  BY <1>6, <1>8

(* Initially there is no connection, and no client was served. *)
LEMMA SocketInit == Init => SocketInv
<1> SUFFICES ASSUME Init PROVE ConnsInv /\ ClientsInv /\ BatchInv
  BY DEF SocketInv
<1>1. batch = {} /\ backlog = {} /\ \A t \in Tokens : ~IsKnown(t)
  BY DEF Init, IpcInit, IsKnown, NoConn, NewConn
<1>2. ASSUME NEW c \in Clients PROVE client[c].st = "idle" /\ client[c].line = "none"
  <2>1. PICK r \in Requests : client[c] = IdleClient(r)
    BY <1>2 DEF Init, IpcInit
  <2> QED
    BY <2>1 DEF IdleClient
<1> QED
  BY <1>1, <1>2 DEF ConnsInv, ClientsInv, BatchInv

(* Every step keeps the invariant of the control socket. *)
LEMMA SocketStep ==
    ASSUME IndInv, TokenOwnership, SocketInv, [Next]_vars
    PROVE  SocketInv'
<1> SUFFICES ASSUME ~Ended' PROVE ConnsInv' /\ ClientsInv' /\ BatchInv'
  BY DEF SocketInv
<1>1. ~Ended
  BY EndedStays DEF Ended, vars, loopVars
<1>2. ConnsInv /\ ClientsInv /\ BatchInv
  BY <1>1 DEF SocketInv
<1> QED
  BY <1>2, StepKinds, SocketQuiet, SocketPoll, SocketAccept, SocketClients,
     SocketConn, SocketFinish

(* SocketInv holds throughout. *)
LEMMA SpecSocket == Spec => []SocketInv
<1>1. SocketInv /\ IndInv /\ TokenOwnership /\ [Next]_vars => SocketInv'
  BY SocketStep
<1> QED
  BY <1>1, SocketInit, SpecInd, TokensOwned, PTL DEF Spec

(* While the daemon runs, a client whose connection it closed has its whole
   response, whatever the order of its events, however slowly it reads and
   whatever system calls fail (Server::reconcile in ipc.rs). *)
THEOREM ResponsesDelivered == Spec => []ClosedAfterFlush
<1>1. SocketInv => ClosedAfterFlush
  BY DEF SocketInv, ClientsInv, ClosedAfterFlush
<1> QED
  BY <1>1, SpecSocket, PTL

-----------------------------------------------------------------------------
(* Edge-triggered epoll: what waits for the daemon has an edge that epoll will
   report, or an event of this iteration that is still to be handled. *)

WakesRead(t) == t \in ready \/ \E e \in batch : e.tok = t /\ e.r
WakesWrite(t) == t \in ready \/ \E e \in batch : e.tok = t /\ e.w

ConnsWoken ==
    \A t \in Tokens : IsKnown(t) =>
       /\ Readable(Peer(t)) /\ ~Served(t) => WakesRead(t)
       /\ Writable(conns[t], Peer(t)) => WakesWrite(t)

(* An application whose child has exited. *)
Exited(a) == Running(a) /\ PollPid(a) = "exited"

AppsWoken == \A a \in Apps : Exited(a) => WakesRead(app[a].tokens["pidfd"])

(* The signalfd is registered at the end of the startup. *)
SignalWoken == sigpending => pc = "create" \/ WakesRead(SIGNALFD_TOKEN)

(* Once it is told of a connection, accept_all goes on until there is none. *)
ListenersWoken ==
    /\ backlog # {} => pc = "accept" \/ WakesRead(UNIX_LISTENER_TOKEN)
    /\ log_backlog > 0 => pc = "log_accept" \/ WakesRead(LOG_LISTENER_TOKEN)

WakeInv == ~Ended => ConnsWoken /\ AppsWoken /\ SignalWoken

(* A step that touches neither a connection nor its edges and events leaves it
   woken. *)
LEMMA WakesKept ==
    ASSUME NEW t, ready \ ready' \subseteq {u \in ready : u # t},
           \A e \in batch \ batch' : e.tok # t
    PROVE  (WakesRead(t) => WakesRead(t)') /\ (WakesWrite(t) => WakesWrite(t)')
BY DEF WakesRead, WakesWrite

(* epoll reports every edge of a token that is ready, now or later. *)
LEMMA PollReports ==
    ASSUME Poll, NEW t \in Reportable
    PROVE  t \in ready' \/ EventOf(t) \in batch'
BY DEF Poll

(* Connections stay woken when the step is none of theirs. *)
LEMMA ConnsQuiet ==
    ASSUME ConnsWoken, Quiet
    PROVE  ConnsWoken'
<1>1. /\ UNCHANGED <<conns, client>>
      /\ \A t : Served(t) => Served(t)'
  BY DEF Quiet, Served
<1>2. ASSUME NEW t \in Tokens, IsKnown(t)
      PROVE  (WakesRead(t) => WakesRead(t)') /\ (WakesWrite(t) => WakesWrite(t)')
  <2>1. t \in ready => t \in ready'
    BY <1>2 DEF Quiet, Connected
  <2>2. \A e \in batch \ batch' : e.tok # t
    BY <1>2 DEF Quiet
  <2> QED
    BY <2>1, <2>2, WakesKept
<1>3. \A t \in Tokens : IsKnown(t)' = IsKnown(t) /\ Peer(t)' = Peer(t)
  BY <1>1 DEF IsKnown, Peer
<1> QED
  BY <1>1, <1>2, <1>3 DEF ConnsWoken

(* When epoll is asked. *)
LEMMA ConnsPoll ==
    ASSUME ConnsWoken, BatchInv, Poll
    PROVE  ConnsWoken'
<1>1. /\ UNCHANGED <<conns, client>> /\ pc = "poll" /\ batch = {}
      /\ \A t : ~Served(t)
  BY DEF Poll, ipcVars, BatchInv, Busy, Served
<1>2. \A t : /\ EventOf(t).tok = t
             /\ EventOf(t).r = (IsKnown(t) => ConnReadable(t))
             /\ EventOf(t).w = (IsKnown(t) /\ ConnWritable(t))
  BY DEF EventOf
<1>3. ASSUME NEW t \in Tokens, IsKnown(t), t \in ready,
             ConnReadable(t) \/ ConnWritable(t)
      PROVE  t \in ready' \/ EventOf(t) \in batch'
  <2>1. t \notin ReservedTokens
    BY TokensAssumption
  <2>2. t \in Reportable
    BY <1>2, <1>3, <2>1 DEF Reportable, ReservedTokens
  <2> QED
    BY <2>2, PollReports
<1>4. \A t \in Tokens :
         /\ IsKnown(t)' = IsKnown(t) /\ Peer(t)' = Peer(t)
         /\ ConnReadable(t) <=> Readable(Peer(t))
         /\ ConnWritable(t) <=> Writable(conns[t], Peer(t))
  BY <1>1 DEF IsKnown, Peer, Readable, Writable, ConnReadable, ConnWritable
<1>5. ASSUME NEW t \in Tokens, IsKnown(t), Readable(Peer(t)) PROVE WakesRead(t)'
  <2>1. t \in ready
    BY <1>1, <1>5 DEF ConnsWoken, WakesRead
  <2> QED
    BY <1>2, <1>3, <1>4, <1>5, <2>1 DEF WakesRead
<1>6. ASSUME NEW t \in Tokens, IsKnown(t), Writable(conns[t], Peer(t))
      PROVE  WakesWrite(t)'
  <2>1. t \in ready
    BY <1>1, <1>6 DEF ConnsWoken, WakesWrite
  <2> QED
    BY <1>2, <1>3, <1>4, <1>6, <2>1 DEF WakesWrite
<1> QED
  BY <1>1, <1>4, <1>5, <1>6 DEF ConnsWoken

(* When connections are accepted: epoll looks at a new one. *)
LEMMA ConnsAccept ==
    ASSUME IndInv, ConnsWoken, Accepts
    PROVE  ConnsWoken'
<1>1. PICK c \in backlog : AcceptOne(c) \/ AcceptLeaks(c)
  BY DEF Accepts
<1>2. /\ conns \in [Tokens -> ConnRecord] /\ client \in [Clients -> ClientRecord]
      /\ vacant \in Seq(Tokens) /\ c \in Clients
      /\ \A u \in Tokens : conns[u].client # c
      /\ \A u \in Tokens : IsKnown(u) => conns[u].client \in Clients
  BY <1>1
  DEF IndInv, CoreInv, ClientInv, IpcTypeOK, OneConnection, SlabTypeOK, ConnRecord,
      IsKnown
<1>3. /\ ready \subseteq ready' /\ UNCHANGED batch /\ \A t : ~Served(t)
      /\ \A d \in Clients \ {c} : client'[d] = client[d]
  BY <1>1, <1>2 DEF Accepts, Served, AcceptOne, AcceptLeaks, Reject
<1>4. \A u \in Tokens : conns'[u] = conns[u] \/ u \in ready'
  BY <1>1, <1>2 DEF AcceptOne, AcceptLeaks, Reject
<1>5. \A t : (WakesRead(t) => WakesRead(t)') /\ (WakesWrite(t) => WakesWrite(t)')
             /\ (t \in ready' => WakesRead(t)' /\ WakesWrite(t)')
  BY <1>3 DEF WakesRead, WakesWrite
<1>6. ASSUME NEW t \in Tokens, IsKnown(t)', conns'[t] = conns[t]
      PROVE  IsKnown(t) /\ Peer(t)' = Peer(t)
  BY <1>2, <1>3, <1>6 DEF IsKnown, Peer
<1> QED
  BY <1>3, <1>4, <1>5, <1>6 DEF ConnsWoken

(* When clients act: epoll sees what they do. *)
LEMMA ConnsClients ==
    ASSUME IndInv, ConnsWoken, ClientActs
    PROVE  ConnsWoken'
<1>1. PICK c \in Clients : ClientStep(c)
  BY DEF ClientActs
<1>2. /\ client \in [Clients -> ClientRecord] /\ ClientInv
      /\ \A u \in Tokens : IsKnown(u) => conns[u].client \in Clients
      /\ client[c].st = "idle" => \A u \in Tokens : conns[u].client # c
  BY DEF IndInv, CoreInv, ClientInv, IpcTypeOK, OneConnection, ConnRecord, IsKnown
<1>3. PICK r \in ClientRecord : ClientMoves(c, r)
  BY <1>1, <1>2, ClientOutcome
<1>4. /\ UNCHANGED <<conns, pc, job, batch>> /\ ready \subseteq ready'
      /\ \A d \in Clients \ {c} : client'[d] = client[d]
      /\ \A u \in Tokens : conns[u].client = c => u \in ready'
  BY <1>2, <1>3 DEF ClientActs, ClientMoves, loopVars, ConnOf
<1>5. \A t : (WakesRead(t) => WakesRead(t)') /\ (WakesWrite(t) => WakesWrite(t)')
             /\ (t \in ready' => WakesRead(t)' /\ WakesWrite(t)')
  BY <1>4 DEF WakesRead, WakesWrite
<1>6. ASSUME NEW t \in Tokens, IsKnown(t)', conns[t].client # c
      PROVE  IsKnown(t) /\ Peer(t)' = Peer(t)
  BY <1>2, <1>4, <1>6 DEF IsKnown, Peer
<1> QED
  BY <1>4, <1>5, <1>6 DEF ConnsWoken, Served

(* When one connection moves, the others stay woken. *)
LEMMA OthersWoken ==
    ASSUME ClientInv, ConnsWoken, NEW t \in Tokens, IsKnown(t),
           NEW k, NEW p, Moves(t, k, p), ready \ {t} \subseteq ready',
           \A e \in batch \ batch' : e.tok = t,
           \A u \in Tokens \ {t} : ~Served(u)
    PROVE  \A u \in Tokens \ {t} : IsKnown(u)' =>
              /\ (Readable(Peer(u)) /\ ~Served(u) => WakesRead(u))'
              /\ (Writable(conns[u], Peer(u)) => WakesWrite(u))'
<1> SUFFICES ASSUME NEW u \in Tokens \ {t}, IsKnown(u)'
             PROVE  /\ (Readable(Peer(u)) /\ ~Served(u) => WakesRead(u))'
                    /\ (Writable(conns[u], Peer(u)) => WakesWrite(u))'
  OBVIOUS
<1>1. conns'[u] = conns[u] /\ (IsKnown(u) => client'[conns[u].client] = Peer(u))
  BY MovesFrame
<1>2. IsKnown(u) /\ Peer(u)' = Peer(u)
  BY <1>1 DEF IsKnown, Peer
<1>3. (WakesRead(u) => WakesRead(u)') /\ (WakesWrite(u) => WakesWrite(u)')
  BY WakesKept
<1> QED
  BY <1>1, <1>2, <1>3 DEF ConnsWoken

(* When a connection's event is handled: what it said is dealt with, and what
   it did not say still has its edge. *)
LEMMA ConnsHandled ==
    ASSUME IndInv, SocketInv, ConnsWoken, NEW e \in batch, HandleConn(e)
    PROVE  ConnsWoken'
<1> DEFINE t == e.tok
<1>1. /\ pc = "events" /\ t \in Tokens /\ IsKnown(t) /\ batch' = batch \ {e}
      /\ ClientInv
  BY DEF HandleConn, Handling, IsKnown, IndInv, CoreInv
<1>2. PICK k \in ConnRecord, p \in ClientRecord :
         \/ Closes(t, p) /\ UNCHANGED <<pc, job>>
         \/ Reads(t, k, p) /\ pc' = "request" /\ job' = e
         \/ Idles(t, k, p, e.r, e.w) /\ UNCHANGED <<pc, job>>
  BY HandleConnOutcome
<1>3. \A f \in batch : f.tok = t => f = e
  BY <1>1 DEF SocketInv, Ended, BatchInv
<1>4. \A u : ~Served(u)
  BY <1>1 DEF Served
<1> HIDE DEF t
<1>5. PICK m : Moves(t, m, p) /\ ready \ {t} \subseteq ready'
  BY <1>2 DEF Closes, Reads, Idles, Stays
<1>6. \A u \in Tokens \ {t} : IsKnown(u)' =>
         /\ (Readable(Peer(u)) /\ ~Served(u) => WakesRead(u))'
         /\ (Writable(conns[u], Peer(u)) => WakesWrite(u))'
  BY <1>1, <1>4, <1>5, OthersWoken DEF t
<1>7. ASSUME NEW n, Moves(t, n, p), IsKnown(t)', n.client = conns[t].client
      PROVE  conns'[t] = n /\ Peer(t)' = p
  BY <1>1, <1>7, MovesFrame DEF Peer, t
<1>8. ASSUME IsKnown(t)'
      PROVE  /\ (Readable(Peer(t)) /\ ~Served(t) => WakesRead(t))'
             /\ (Writable(conns[t], Peer(t)) => WakesWrite(t))'
  <2>1. CASE Closes(t, p)
    <3>1. conns'[t] = NoConn
      BY <1>1, <2>1, MovesFrame DEF Closes, t
    <3> QED
      BY <1>8, <3>1 DEF IsKnown, NoConn, NewConn
  <2>2. CASE Reads(t, k, p) /\ pc' = "request" /\ job' = e
    <3>1. Served(t)' /\ conns'[t] = k /\ Peer(t)' = p
      BY <1>7, <1>8, <2>2 DEF Reads, Served, t
    <3>2. ~k.writable_registered
      BY <2>2 DEF Reads, Consistent
    <3> QED
      BY <3>1, <3>2 DEF Writable
  <2>3. CASE Idles(t, k, p, e.r, e.w)
    <3>1. /\ conns'[t] = k /\ Peer(t)' = p /\ ready \subseteq ready'
          /\ p.st = Peer(t).st /\ p.line = Peer(t).line
      BY <1>7, <1>8, <2>3 DEF Idles, Stays
    <3>2. ASSUME Readable(p) PROVE WakesRead(t)'
      <4>1. Readable(Peer(t)) /\ ~e.r
        BY <2>3, <3>1, <3>2 DEF Readable, Idles
      <4>2. WakesRead(t)
        BY <1>1, <1>4, <4>1 DEF ConnsWoken, t
      <4> QED
        BY <1>3, <3>1, <4>1, <4>2 DEF WakesRead
    <3>3. ASSUME Writable(k, p) PROVE WakesWrite(t)'
      <4>1. Writable(conns[t], Peer(t)) /\ ~e.w
        BY <2>3, <3>3 DEF Idles
      <4>2. WakesWrite(t)
        BY <1>1, <4>1 DEF ConnsWoken, t
      <4> QED
        BY <1>3, <3>1, <4>1, <4>2 DEF WakesWrite
    <3> QED
      BY <3>1, <3>2, <3>3
  <2> QED
    BY <1>2, <2>1, <2>2, <2>3
<1> QED
  BY <1>6, <1>8 DEF ConnsWoken

(* When a response is queued: the connection is closed or has an edge. *)
LEMMA ConnsFinish ==
    ASSUME IndInv, SocketInv, ConnsWoken, FinishRequest
    PROVE  ConnsWoken'
<1>1. PICK t \in Tokens :
         /\ t = job.tok /\ IsKnown(t) /\ UNCHANGED batch /\ ClientInv
         /\ pc = "request" /\ pc' = "events"
  BY DEF FinishRequest, IndInv, CoreInv, LoopInv, Serving, Unanswered
<1>2. PICK k \in ConnRecord, p \in ClientRecord :
         Closes(t, p) \/ (Stays(t, k, p) /\ t \in ready')
  BY <1>1, FinishOutcome
<1>3. \A u \in Tokens \ {t} : ~Served(u)
  BY <1>1 DEF Served
<1>4. PICK m : Moves(t, m, p) /\ ready \ {t} \subseteq ready'
  BY <1>2 DEF Closes, Stays
<1>5. \A u \in Tokens \ {t} : IsKnown(u)' =>
         /\ (Readable(Peer(u)) /\ ~Served(u) => WakesRead(u))'
         /\ (Writable(conns[u], Peer(u)) => WakesWrite(u))'
  BY <1>1, <1>3, <1>4, OthersWoken
<1>6. ASSUME IsKnown(t)' PROVE WakesRead(t)' /\ WakesWrite(t)'
  <2>1. CASE Closes(t, p)
    <3>1. conns'[t] = NoConn
      BY <1>1, <2>1, MovesFrame DEF Closes
    <3> QED
      BY <1>6, <3>1 DEF IsKnown, NoConn, NewConn
  <2>2. CASE t \in ready'
    BY <2>2 DEF WakesRead, WakesWrite
  <2> QED
    BY <1>2, <2>1, <2>2
<1> QED
  BY <1>5, <1>6 DEF ConnsWoken

(* So connections stay woken. *)
LEMMA ConnsStep ==
    ASSUME IndInv, TokenOwnership, SocketInv, ~Ended, ConnsWoken, [Next]_vars, ~Ended'
    PROVE  ConnsWoken'
<1>1. BatchInv
  BY DEF SocketInv
<1> QED
  BY <1>1, StepKinds, ConnsQuiet, ConnsPoll, ConnsAccept, ConnsClients,
     ConnsHandled, ConnsFinish

-----------------------------------------------------------------------------
(* The applications stay woken *)

(* A child that is tracked and dead is one that waitpid reports. *)
LEMMA ExitedIs ==
    ASSUME AppInv, NEW a \in Apps
    PROVE  Exited(a) <=> Running(a) /\ proc[app[a].pid].st = "zombie"
BY DEF AppInv, TrackedChild, Exited, PollPid

(* The step leaves the process of b what it was, or not dead. *)
SameChild(b) ==
    /\ app'[b].state = app[b].state /\ app'[b].pid = app[b].pid
    /\ app'[b].tokens = app[b].tokens
    /\ Running(b) => \/ proc'[app[b].pid].st = proc[app[b].pid].st
                     \/ proc'[app[b].pid].st # "zombie"

(* Reaping stops one application and touches the process of no other. *)
LEMMA ReapOthers ==
    ASSUME AppInv, NEW a \in Apps, Running(a), Reap(a, ~Stopping)
    PROVE  app'[a].state = "stopped" /\ \A b \in Apps \ {a} : SameChild(b)
<1> DEFINE pid  == app[a].pid
           left == [proc EXCEPT ![pid] = FreeProc]
<1>1. app \in [Apps -> AppRecord] /\ proc \in [Pids -> ProcRecord]
  BY DEF AppInv, AppTypeOK
<1>2. PICK long \in BOOLEAN, fate \in KillFates :
         /\ proc' = [p \in Pids |-> IF left[p].app = a
                                    THEN CgroupKilled(left[p], fate) ELSE left[p]]
         /\ app' = [app EXCEPT ![a] =
               IF MayRestart(a, ~Stopping)
               THEN Scheduled(a, proc[pid].ret = "ok", long) ELSE Stopped(@)]
  BY Zenon DEF Reap
<1>3. /\ Scheduled(a, proc[pid].ret = "ok", long).state = "stopped"
      /\ Stopped(app[a]).state = "stopped"
  <2>1. (proc[pid].ret = "ok") \in BOOLEAN
    OBVIOUS
  <2> QED
    BY <1>1, <2>1, ScheduledFacts, StoppedFacts
<1>4. app'[a].state = "stopped" /\ \A b \in Apps \ {a} : app'[b] = app[b]
  BY <1>1, <1>2, <1>3
<1>5. ASSUME NEW b \in Apps \ {a}, Running(b)
      PROVE  proc'[app[b].pid] = proc[app[b].pid]
  <2>1. /\ app[b].pid \in Pids /\ proc[app[b].pid].app = b
        /\ proc[pid].app = a
    BY <1>5 DEF AppInv, TrackedChild
  <2>2. app[b].pid # pid
    BY <2>1
  <2>3. left[app[b].pid] = proc[app[b].pid]
    BY <1>1, <2>1, <2>2
  <2> HIDE DEF left
  <2> QED
    BY <1>2, <2>1, <2>3
<1> QED
  BY <1>4, <1>5 DEF SameChild

(* What a method of App or the passing of time does to the child of b: it is
   left alone, signalled, or a new one that lives. *)
LEMMA EffectOnChild ==
    ASSUME AppInv, vacant \in Seq(Tokens), NEW a \in Apps, AppEffect(a),
           NEW b \in Apps, Running(b)'
    PROVE  SameChild(b) \/ proc'[app'[b].pid].st # "zombie"
<1>1. app \in [Apps -> AppRecord] /\ proc \in [Pids -> ProcRecord]
  BY DEF AppInv, AppTypeOK
<1>2. Running(b) => app[b].pid \in Pids /\ proc[app[b].pid].st # "free"
  BY DEF AppInv, TrackedChild
<1>3. ASSUME NEW r \in AppRecord, RuntimeStart(a, r)
      PROVE  SameChild(b) \/ proc'[app'[b].pid].st # "zombie"
  <2>1. PICK p \in FreePids : /\ app' = [app EXCEPT ![a] = Launched(r, p)]
                              /\ proc' = [proc EXCEPT ![p] = Spawned(a)]
                              /\ Len(vacant) >= 3
    BY <1>3 DEF RuntimeStart
  <2>2. p \in Pids /\ proc[p].st = "free"
    BY DEF FreePids
  <2>3. Launched(r, p).pid = p
    BY <2>1, <2>2, LaunchedFacts
  <2>4. CASE b = a
    <3>1. app'[b].pid = p /\ proc'[p] = Spawned(a)
      BY <1>1, <2>1, <2>2, <2>3, <2>4
    <3> QED
      BY <3>1 DEF Spawned
  <2>5. CASE b # a
    <3>1. app'[b] = app[b] /\ (Running(b) => proc'[app[b].pid] = proc[app[b].pid])
      BY <1>1, <1>2, <2>1, <2>2, <2>5
    <3> QED
      BY <3>1 DEF SameChild
  <2> QED
    BY <2>4, <2>5
<1>4. ASSUME NEW r, RuntimeFails(a, r), r = app[a] \/ r.state = "stopped"
      PROVE  SameChild(b)
  <2>1. /\ app' = [app EXCEPT ![a] = r]
        /\ \/ proc' = proc
           \/ \E p \in FreePids : proc' = [proc EXCEPT ![p] = Spawned(a)]
    BY <1>4 DEF RuntimeFails
  <2>2. app'[b] = app[b]
    BY <1>1, <1>4, <2>1 DEF Running
  <2>3. Running(b) => proc'[app[b].pid] = proc[app[b].pid]
    BY <1>1, <1>2, <2>1 DEF FreePids
  <2> QED
    BY <2>2, <2>3 DEF SameChild
<1>5. /\ Stopped(app[a]).state = "stopped"
      /\ Anew(app[a]) \in AppRecord /\ app[a] \in AppRecord
  <2>1. app[a] \in AppRecord /\ \A r \in AppRecord : Anew(r) \in AppRecord
    BY <1>1 DEF Anew, AppRecord
  <2> QED
    BY <2>1, StoppedFacts
<1>6. CASE app' = [app EXCEPT ![a] = Stopped(@)] /\ UNCHANGED proc
  <2>1. app'[b] = app[b]
    BY <1>1, <1>5, <1>6 DEF Running
  <2> QED
    BY <1>6, <2>1 DEF SameChild
<1>7. ASSUME NEW force \in BOOLEAN, AppStop(a, force) PROVE SameChild(b)
  <2>1. \/ app' = app
        \/ app' = [app EXCEPT ![a] = AskedToStop(@)]
        \/ app' = [app EXCEPT ![a] = Cancelled(@)]
    BY <1>1, <1>7, Zenon DEF AppStop, AskedToStop, Cancelled
  <2>2. /\ app'[b].state = app[b].state /\ app'[b].pid = app[b].pid
        /\ app'[b].tokens = app[b].tokens
    BY <1>1, <2>1, StopRecordFacts
  <2>3. \A q \in Pids : proc'[q] = proc[q] \/ proc'[q] = Signalled(proc[q], force)
    BY <1>1, <1>7 DEF AppStop
  <2>4. \A q \in ProcRecord :
           Signalled(q, force).st = q.st \/ Signalled(q, force).st # "zombie"
    BY DEF Signalled, ProcRecord, Alive
  <2> QED
    BY <1>1, <1>2, <2>2, <2>3, <2>4 DEF SameChild
<1>8. CASE Running(a) /\ Reap(a, ~Stopping)
  BY <1>8, ReapOthers DEF Running
<1>9. CASE DelayElapses(a)
  <2>1. app' = [app EXCEPT ![a].restart_deadline = "due"] /\ UNCHANGED proc
    BY <1>9 DEF DelayElapses
  <2>2. /\ app'[b].state = app[b].state /\ app'[b].pid = app[b].pid
        /\ app'[b].tokens = app[b].tokens
    BY <1>1, <2>1 DEF AppRecord
  <2> QED
    BY <2>1, <2>2 DEF SameChild
<1> QED
  BY <1>3, <1>4, <1>5, <1>6, <1>7, <1>8, <1>9 DEF AppEffect

(* A child ends with an edge on its pidfd. *)
LEMMA ExitsWake ==
    ASSUME IndInv, [Next]_vars, NEW b \in Apps, Exited(b)'
    PROVE  \/ Exited(b) /\ app'[b].tokens = app[b].tokens
           \/ app'[b].tokens["pidfd"] \in ready'
<1>1. AppInv /\ AppInv' /\ vacant \in Seq(Tokens)
  BY NextInd DEF IndInv, CoreInv, SlabTypeOK
<1>2. Running(b)' /\ proc'[app'[b].pid].st = "zombie"
  <2>1. AppInv' => \A a \in Apps :
                      Exited(a)' <=> Running(a)' /\ proc'[app'[a].pid].st = "zombie"
    BY DEF AppInv, TrackedChild, Exited, PollPid
  <2> QED
    BY <1>1, <2>1
<1>3. CASE UNCHANGED <<app, proc>>
  BY <1>3 DEF Exited, Running, PollPid
<1>4. CASE \E a \in Apps : AppEffect(a)
  <2>1. SameChild(b)
    BY <1>1, <1>2, <1>4, EffectOnChild
  <2>2. Running(b) /\ proc[app[b].pid].st = "zombie"
    BY <1>2, <2>1 DEF SameChild, Running
  <2> QED
    BY <1>1, <2>1, <2>2, ExitedIs DEF SameChild
<1>5. CASE ProcEffect /\ UNCHANGED app
  <2>1. proc \in [Pids -> ProcRecord] /\ Running(b) /\ app[b].pid \in Pids
        /\ proc[app[b].pid].st # "free" /\ proc[app[b].pid].child
        /\ proc[app[b].pid].app = b
    BY <1>1, <1>2, <1>5 DEF AppInv, AppTypeOK, TrackedChild, Running
  <2>2. PICK p \in Pids : ProcFork(p) \/ \E ret \in {"ok", "err"} : ProcExit(p, ret)
    BY <1>5 DEF ProcEffect
  <2>3. CASE proc'[app[b].pid] = proc[app[b].pid]
    BY <1>1, <1>2, <1>5, <2>1, <2>3, ExitedIs
  <2>4. CASE proc'[app[b].pid] # proc[app[b].pid]
    <3>1. ~ProcFork(p)
      BY <2>1, <2>4 DEF ProcFork, FreePids
    <3>2. PICK ret \in {"ok", "err"} : ProcExit(p, ret)
      BY <2>2, <3>1
    <3>3. p = app[b].pid
      BY <2>1, <2>4, <3>2 DEF ProcExit
    <3>4. app[b].tokens["pidfd"] \in ready'
      BY <2>1, <3>2, <3>3 DEF ProcExit
    <3> QED
      BY <1>5, <3>4
  <2> QED
    BY <2>3, <2>4
<1> QED
  BY <1>3, <1>4, <1>5, StepEffects

(* Which handler an event is given to. *)
Handles(e) ==
    HandleSignal(e) \/ HandleListener(e) \/ HandleConn(e) \/ HandleApp(e) \/ HandleLog(e)

(* Only poll takes the edges of files that stay: every other step drops those of
   the files it closes, and an event only when it is handled. *)
LEMMA EdgesKept ==
    ASSUME IndInv, [Next]_vars, ~Ended', ~Poll
    PROVE  /\ \A t \in ready \ ready' :
                 \/ IsKnown(t) \/ t \in logs
                 \/ \E a \in Apps : Running(a) /\ Reap(a, ~Stopping)
                                    /\ t \in OwnTokens(a)
           /\ \A e \in batch \ batch' : Handles(e)
<1>1. ASSUME NEW t, NEW c, NEW w, IsKnown(t), FlushAndReconcile(t, c, w)
      PROVE  \A u \in ready \ ready' : IsKnown(u)
  BY <1>1 DEF FlushAndReconcile, Close
<1>2. CASE AcceptAll
  BY <1>2 DEF AcceptAll, AcceptOne, AcceptLeaks, Reject
<1>3. CASE FinishRequest
  <2>1. IsKnown(job.tok) /\ UNCHANGED batch
    BY <1>3 DEF FinishRequest, IndInv, CoreInv, LoopInv, Serving, Unanswered
  <2> QED
    BY <1>1, <1>3, <2>1 DEF FinishRequest, Respond
<1>4. ASSUME NEW e \in batch, HandleConn(e)
      PROVE  (\A u \in ready \ ready' : IsKnown(u)) /\ batch' = batch \ {e}
  BY <1>1, <1>4 DEF HandleConn, Handling, ServeIdle, Close, ReadRequest
<1>5. ASSUME NEW e \in batch, HandleSignal(e) \/ HandleListener(e)
      PROVE  UNCHANGED ready /\ batch' = batch \ {e}
  BY <1>5 DEF HandleSignal, HandleListener, appVars
<1>6. ASSUME NEW e \in batch, HandleApp(e)
      PROVE  /\ \A t \in ready \ ready' :
                   \E a \in Apps : Running(a) /\ Reap(a, ~Stopping)
                                   /\ t \in OwnTokens(a)
             /\ batch' = batch \ {e}
  BY <1>6 DEF HandleApp, Reap, OwnTokens
<1>7. ASSUME NEW e \in batch, HandleLog(e)
      PROVE  (\A u \in ready \ ready' : u \in logs) /\ batch' = batch \ {e}
  BY <1>7 DEF HandleLog, LogClose
<1>8. CASE ServeRequest \/ CreateApp \/ RestartApp \/ ShutdownApp
  <2>1. UNCHANGED batch
    BY <1>8 DEF ServeRequest, CreateApp, RestartApp, ShutdownApp
  <2>2. UNCHANGED ready
    BY <1>8
    DEF ServeRequest, CreateApp, RestartApp, ShutdownApp, AppStart, AppStop,
        AppCreate, AppCreateFails, MaybeRestart, RuntimeStart, RuntimeFails
  <2> QED
    BY <2>1, <2>2
<1>9. CASE Bind \/ EventsDone \/ RestartDone \/ ShutdownDone \/ Check
  BY <1>9 DEF Bind, EventsDone, RestartDone, ShutdownDone, Check, appVars
<1>10. CASE LogAcceptAll \/ PushUpdates
  BY <1>10 DEF LogAcceptAll, PushUpdates, LogClose, loopVars
<1>11. CASE MainEnvironment
  <2>1. UNCHANGED batch
    BY <1>11 DEF MainEnvironment, Sigint, loopVars
  <2>2. ready \subseteq ready'
    BY <1>11
    DEF MainEnvironment, ProcExit, ProcFork, ProcOutput, DelayElapses, Sigint,
        ClientStep, Connect, Send, Receive, HangUp, ComeBack
  <2> QED
    BY <2>1, <2>2
<1>12. CASE LogEnvironment \/ UNCHANGED vars
  BY <1>12 DEF LogEnvironment, LogConnect, LogTraffic, vars, appVars, loopVars
<1> QED
  BY <1>2, <1>3, <1>4, <1>5, <1>6, <1>7, <1>8, <1>9, <1>10, <1>11, <1>12
  DEF Next, Daemon, MainStep, LogStep, Environment, Done, Handles

(* Of a file that is no connection poll keeps the edge, unless nothing is ready
   after all. *)
LEMMA PollKeeps ==
    ASSUME BatchInv, Poll, NEW t, ~IsKnown(t), WakesRead(t),
           t = UNIX_LISTENER_TOKEN => backlog # {},
           t = LOG_LISTENER_TOKEN => log_backlog > 0,
           t = SIGNALFD_TOKEN => sigpending
    PROVE  WakesRead(t)'
<1>1. batch = {} /\ t \in ready
  BY DEF Poll, BatchInv, Busy, WakesRead
<1>2. EventOf(t).tok = t /\ EventOf(t).r
  BY DEF EventOf
<1>3. t \in Reportable
  BY <1>1, <1>2 DEF Reportable
<1> QED
  BY <1>2, <1>3, PollReports DEF WakesRead

(* An application keeps its wakeup until it is reaped. *)
LEMMA AppsStep ==
    ASSUME IndInv, TokenOwnership, SocketInv, ~Ended, AppsWoken, [Next]_vars, ~Ended'
    PROVE  AppsWoken'
<1> SUFFICES ASSUME NEW a \in Apps, Exited(a)'
             PROVE  WakesRead(app[a].tokens["pidfd"])'
  BY DEF AppsWoken
<1>1. CASE app'[a].tokens["pidfd"] \in ready'
  BY <1>1 DEF WakesRead
<1>2. CASE Exited(a) /\ app'[a].tokens = app[a].tokens
  <2>1. PICK t : t = app[a].tokens["pidfd"]
    OBVIOUS
  <2>2. WakesRead(t) /\ Running(a) /\ Running(a)'
    BY <1>2, <2>1 DEF AppsWoken, Exited
  <2>3. t \in OwnTokens(a) /\ t \in Tokens
    BY <2>1, <2>2
    DEF OwnTokens, IndInv, CoreInv, AppInv, RuntimesHoldTokens, Fds, Range
  <2>4. ~IsKnown(t) /\ t \notin logs /\ t \notin ReservedTokens
    BY <2>2, <2>3, TokensAssumption DEF TokenOwnership, Connected
  <2>5. \A b \in Apps : Running(b) /\ t \in OwnTokens(b) => b = a
    BY <2>2, <2>3 DEF TokenOwnership
  <2>6. AppInv
    BY DEF IndInv, CoreInv
  <2>7. ASSUME Reap(a, ~Stopping) PROVE FALSE
    BY <2>2, <2>6, <2>7, ReapOthers DEF Running
  <2>8. CASE Poll
    BY <1>2, <2>1, <2>2, <2>4, <2>8, PollKeeps DEF SocketInv, ReservedTokens
  <2>9. CASE ~Poll
    <3>1. t \in ready => t \in ready'
      BY <2>4, <2>5, <2>7, <2>9, EdgesKept
    <3>2. ASSUME NEW e \in batch \ batch', e.tok = t, e.r PROVE FALSE
      <4>1. Handles(e)
        BY <2>9, <3>2, EdgesKept
      <4>2. HandleApp(e)
        BY <2>3, <2>4, <3>2, <4>1
        DEF Handles, HandleSignal, HandleListener, HandleConn, HandleLog, ReservedTokens
      <4>3. \A b \in Apps : Running(b) /\ app[b].tokens["pidfd"] = t => b = a
        <5>1. ASSUME NEW b \in Apps, Running(b), app[b].tokens["pidfd"] = t
              PROVE  t \in OwnTokens(b)
          BY <2>6, <5>1 DEF OwnTokens, AppInv, RuntimesHoldTokens, Fds, Range
        <5> QED
          BY <2>5, <5>1
      <4>4. PollPid(a) = "exited" /\ pc' # "panic"
        BY <1>2 DEF Exited, Ended
      <4> QED
        BY <2>1, <2>2, <2>7, <3>2, <4>2, <4>3, <4>4 DEF HandleApp
    <3>3. WakesRead(t)'
      BY <2>2, <3>1, <3>2 DEF WakesRead
    <3> QED
      BY <1>2, <2>1, <3>3
  <2> QED
    BY <2>8, <2>9
<1> QED
  BY <1>1, <1>2, ExitsWake

(* The events of a file that is no client's and no application's are dropped by
   its handler only. *)
LEMMA ReservedKept ==
    ASSUME IndInv, SocketInv, [Next]_vars, ~Ended, ~Ended', NEW t \in ReservedTokens,
           WakesRead(t),
           Poll => /\ t = UNIX_LISTENER_TOKEN => backlog # {}
                   /\ t = LOG_LISTENER_TOKEN => log_backlog > 0
                   /\ t = SIGNALFD_TOKEN => sigpending,
           \A e \in batch : e.tok = t => ~Handles(e)
    PROVE  WakesRead(t)'
<1>1. t \notin Tokens /\ ~IsKnown(t) /\ t \notin logs
  BY TokensAssumption DEF IndInv, LogTypeOK, IsKnown
<1>2. ASSUME NEW a \in Apps, Running(a) PROVE t \notin OwnTokens(a)
  BY <1>1, <1>2
  DEF OwnTokens, IndInv, CoreInv, AppInv, RuntimesHoldTokens, Fds, Range
<1>3. CASE Poll
  BY <1>1, <1>3, PollKeeps DEF SocketInv
<1>4. CASE ~Poll
  <2>1. t \in ready => t \in ready'
    BY <1>1, <1>2, <1>4, EdgesKept
  <2>2. \A e \in batch : e.tok = t => e \in batch'
    BY <1>4, EdgesKept
  <2> QED
    BY <2>1, <2>2 DEF WakesRead
<1> QED
  BY <1>3, <1>4

(* A pending SIGINT keeps its wakeup until it is read. *)
LEMMA SignalStep ==
    ASSUME IndInv, SocketInv, ~Ended, SignalWoken, [Next]_vars, ~Ended'
    PROVE  SignalWoken'
<1> SUFFICES ASSUME sigpending', pc' # "create"
             PROVE  WakesRead(SIGNALFD_TOKEN)'
  BY DEF SignalWoken
<1>1. CASE Sigint \/ Bind
  <2>1. SIGNALFD_TOKEN \in ready'
    BY <1>1 DEF Sigint, Bind
  <2> QED
    BY <2>1 DEF WakesRead
<1>2. CASE ~Sigint /\ ~Bind
  <2>1. /\ sigpending /\ (pc = "create" => pc' = "create")
        /\ \A e \in batch : ~HandleSignal(e)
    BY <1>2
    DEF Next, Daemon, MainStep, LogStep, CreateApp, Poll, AcceptAll, HandleSignal,
        HandleListener, HandleConn, HandleApp, Handling, ServeRequest, FinishRequest,
        EventsDone, RestartApp, RestartDone, ShutdownApp, ShutdownDone, Check,
        LogAcceptAll, PushUpdates, HandleLog, Environment, MainEnvironment,
        LogEnvironment, Done, Ended, vars, loopVars
  <2>2. WakesRead(SIGNALFD_TOKEN)
    BY <2>1 DEF SignalWoken
  <2>3. \A e \in batch : e.tok = SIGNALFD_TOKEN => ~Handles(e)
    BY <2>1, TokensAssumption
    DEF Handles, HandleListener, HandleConn, HandleApp, HandleLog, IsKnown,
        ReservedTokens, IndInv, LogTypeOK
  <2>4. Poll => /\ SIGNALFD_TOKEN = UNIX_LISTENER_TOKEN => backlog # {}
                /\ SIGNALFD_TOKEN = LOG_LISTENER_TOKEN => log_backlog > 0
                /\ SIGNALFD_TOKEN = SIGNALFD_TOKEN => sigpending
    BY <2>1, TokensAssumption
  <2> QED
    BY <2>2, <2>3, <2>4, ReservedKept DEF ReservedTokens
<1> QED
  BY <1>1, <1>2

(* When accept and epoll_ctl do not fail, a client that waits to be accepted
   keeps its wakeup until accept_all runs, which leaves none behind. *)
LEMMA ControlListenerStep ==
    ASSUME Faults \cap {"accept", "register"} = {},
           IndInv, SocketInv, ~Ended, [Next]_vars, ~Ended',
           backlog # {} => pc = "accept" \/ WakesRead(UNIX_LISTENER_TOKEN),
           backlog' # {}, pc' # "accept"
    PROVE  WakesRead(UNIX_LISTENER_TOKEN)'
<1>1. CASE UNIX_LISTENER_TOKEN \in ready'
  BY <1>1 DEF WakesRead
<1>2. CASE UNIX_LISTENER_TOKEN \notin ready'
  <2>1. backlog' \subseteq backlog
    <3>1. CASE \E c \in Clients : ClientStep(c)
      BY <1>2, <3>1 DEF ClientStep, Connect, Send, Receive, HangUp, ComeBack
    <3>2. CASE ~\E c \in Clients : ClientStep(c)
      BY <3>2
      DEF Next, Daemon, MainStep, LogStep, CreateApp, Bind, Poll, AcceptAll,
          AcceptOne, AcceptLeaks, Reject, HandleSignal, HandleListener, HandleConn,
          ReadRequest, ServeIdle, FlushAndReconcile, HandleApp, ServeRequest,
          FinishRequest, Respond, EventsDone, RestartApp, RestartDone, ShutdownApp,
          ShutdownDone, Check, LogAcceptAll, PushUpdates, HandleLog, Environment,
          MainEnvironment, Sigint, LogEnvironment, Done, vars, ipcVars
    <3> QED
      BY <3>1, <3>2
  <2>2. pc # "accept" /\ \A e \in batch : ~HandleListener(e)
    BY <2>1
    DEF Next, Daemon, MainStep, LogStep, CreateApp, Bind, Poll, AcceptAll, AcceptLeaks,
        HandleSignal, HandleListener, HandleConn, HandleApp, Handling, ServeRequest,
        FinishRequest, EventsDone, RestartApp, RestartDone, ShutdownApp, ShutdownDone,
        Check, LogAcceptAll, PushUpdates, HandleLog, Environment, MainEnvironment,
        Sigint, LogEnvironment, Done, Ended, vars, ipcVars, loopVars
  <2>3. \A e \in batch : e.tok = UNIX_LISTENER_TOKEN => ~Handles(e)
    BY <2>2, TokensAssumption
    DEF Handles, HandleSignal, HandleConn, HandleApp, HandleLog, IsKnown,
        ReservedTokens, IndInv, LogTypeOK
  <2>4. Poll => /\ UNIX_LISTENER_TOKEN = UNIX_LISTENER_TOKEN => backlog # {}
                /\ UNIX_LISTENER_TOKEN = LOG_LISTENER_TOKEN => log_backlog > 0
                /\ UNIX_LISTENER_TOKEN = SIGNALFD_TOKEN => sigpending
    BY <2>1, TokensAssumption
  <2> QED
    BY <2>1, <2>2, <2>3, <2>4, ReservedKept DEF ReservedTokens
<1> QED
  BY <1>1, <1>2

(* The same for a log client. *)
LEMMA LogListenerStep ==
    ASSUME Faults \cap {"accept", "register"} = {},
           IndInv, SocketInv, ~Ended, [Next]_vars, ~Ended',
           log_backlog > 0 => pc = "log_accept" \/ WakesRead(LOG_LISTENER_TOKEN),
           log_backlog' > 0, pc' # "log_accept"
    PROVE  WakesRead(LOG_LISTENER_TOKEN)'
<1>1. CASE LOG_LISTENER_TOKEN \in ready'
  BY <1>1 DEF WakesRead
<1>2. CASE LOG_LISTENER_TOKEN \notin ready'
  <2>1. log_backlog \in Nat
    BY DEF IndInv, LogTypeOK
  <2>2. ~LogConnect
    BY <1>2 DEF LogConnect
  <2>3. log_backlog' <= log_backlog
    BY <2>1, <2>2
    DEF Next, Daemon, LogStep, LogAcceptAll, LogAcceptOne, LogAcceptLeaks, PushUpdates,
        HandleLog, LogClose, Environment, LogEnvironment, LogTraffic, Done, vars, logVars
  <2>4. log_backlog > 0
    BY <2>1, <2>3, NextInd DEF IndInv, LogTypeOK
  <2>5. pc # "log_accept" /\ \A e \in batch : e.tok = LOG_LISTENER_TOKEN => ~HandleLog(e)
    <3>1. ASSUME LogStep PROVE pc # "log_accept" /\ \A e \in batch :
                               e.tok = LOG_LISTENER_TOKEN => ~HandleLog(e)
      <4>1. ~LogAcceptAll
        BY <2>4 DEF LogAcceptAll, LogAcceptLeaks, logVars
      <4>2. LOG_LISTENER_TOKEN \notin logs
        BY TokensAssumption DEF IndInv, LogTypeOK, ReservedTokens
      <4> QED
        BY <3>1, <4>1, <4>2 DEF LogStep, PushUpdates, HandleLog, Handling
    <3>2. ASSUME ~LogStep PROVE pc # "log_accept" /\ \A e \in batch : ~HandleLog(e)
      <4>1. \A e \in batch : ~HandleLog(e)
        BY <3>2 DEF LogStep
      <4>2. pc # "log_accept"
        BY <3>2
        DEF Next, Daemon, MainStep, CreateApp, Bind, Poll, AcceptAll, HandleSignal,
            HandleListener, HandleConn, HandleApp, Handling, ServeRequest,
            FinishRequest, EventsDone, RestartApp, RestartDone, ShutdownApp,
            ShutdownDone, Check, Environment, MainEnvironment, Sigint, LogEnvironment,
            Done, Ended, vars, loopVars
      <4> QED
        BY <4>1, <4>2
    <3> QED
      BY <3>1, <3>2
  <2>6. \A e \in batch : e.tok = LOG_LISTENER_TOKEN => ~Handles(e)
    BY <2>5, TokensAssumption
    DEF Handles, HandleSignal, HandleListener, HandleConn, HandleApp, IsKnown,
        ReservedTokens
  <2>7. Poll => /\ LOG_LISTENER_TOKEN = UNIX_LISTENER_TOKEN => backlog # {}
                /\ LOG_LISTENER_TOKEN = LOG_LISTENER_TOKEN => log_backlog > 0
                /\ LOG_LISTENER_TOKEN = SIGNALFD_TOKEN => sigpending
    BY <2>4, TokensAssumption
  <2> QED
    BY <2>4, <2>5, <2>6, <2>7, ReservedKept DEF ReservedTokens
<1> QED
  BY <1>1, <1>2

(* Initially nothing waits. *)
LEMMA WakeInit == Init => WakeInv /\ ListenersWoken
<1> SUFFICES ASSUME Init PROVE ConnsWoken /\ AppsWoken /\ SignalWoken /\ ListenersWoken
  BY DEF WakeInv
<1>1. \A t \in Tokens : ~IsKnown(t)
  BY DEF Init, IpcInit, IsKnown, NoConn, NewConn
<1>2. \A a \in Apps : ~Running(a)
  BY DEF Init, AppInit, NewApp, Running
<1> QED
  BY <1>1, <1>2
  DEF ConnsWoken, AppsWoken, Exited, SignalWoken, ListenersWoken, Init, IpcInit, LogInit

(* Connections, applications and the signal stay woken, whatever fails. *)
LEMMA WakeStep ==
    ASSUME IndInv, TokenOwnership, SocketInv, WakeInv, [Next]_vars
    PROVE  WakeInv'
<1> SUFFICES ASSUME ~Ended' PROVE ConnsWoken' /\ AppsWoken' /\ SignalWoken'
  BY DEF WakeInv
<1>1. ~Ended
  BY EndedStays DEF Ended, vars, loopVars
<1> QED
  BY <1>1, ConnsStep, AppsStep, SignalStep DEF WakeInv

(* WakeInv holds throughout. *)
LEMMA SpecWake == Spec => []WakeInv
<1>1. WakeInv /\ IndInv /\ TokenOwnership /\ SocketInv /\ [Next]_vars => WakeInv'
  BY WakeStep
<1> QED
  BY <1>1, WakeInit, SpecInd, TokensOwned, SpecSocket, PTL DEF Spec

(* When the loop is about to wait, every exited child, every connection with
   something to read or room to write and every pending SIGINT has an edge that
   epoll will report, and a connection that is to be closed has something left
   to write. *)
NoOwnWakeupLost ==
    pc = "poll" =>
       /\ \A a \in Apps : Running(a) /\ PollPid(a) = "exited"
                            => app[a].tokens["pidfd"] \in ready
       /\ \A t \in Connected :
             /\ ConnReadable(t) => t \in ready
             /\ conns[t].write_buf > 0 => conns[t].writable_registered
             /\ ConnWritable(t) => t \in ready
             /\ conns[t].close_after_flush => conns[t].write_buf > 0
       /\ sigpending => SIGNALFD_TOKEN \in ready

(* That is what the two invariants say of such a state. *)
LEMMA WokenAtPoll ==
    ASSUME SocketInv, WakeInv
    PROVE  NoOwnWakeupLost
<1> SUFFICES ASSUME pc = "poll"
             PROVE  /\ \A a \in Apps : Running(a) /\ PollPid(a) = "exited"
                                          => app[a].tokens["pidfd"] \in ready
                    /\ \A t \in Connected :
                          /\ ConnReadable(t) => t \in ready
                          /\ conns[t].write_buf > 0 => conns[t].writable_registered
                          /\ ConnWritable(t) => t \in ready
                          /\ conns[t].close_after_flush => conns[t].write_buf > 0
                    /\ sigpending => SIGNALFD_TOKEN \in ready
  BY DEF NoOwnWakeupLost
<1>1. /\ ConnsInv /\ BatchInv /\ ConnsWoken /\ AppsWoken /\ SignalWoken
      /\ batch = {} /\ \A t : ~Served(t)
  BY DEF SocketInv, WakeInv, Ended, BatchInv, Busy, Served
<1>2. \A t : (WakesRead(t) => t \in ready) /\ (WakesWrite(t) => t \in ready)
  BY <1>1 DEF WakesRead, WakesWrite
<1>3. ASSUME NEW t \in Connected
      PROVE  /\ ConnReadable(t) => t \in ready
             /\ conns[t].write_buf > 0 => conns[t].writable_registered
             /\ ConnWritable(t) => t \in ready
             /\ conns[t].close_after_flush => conns[t].write_buf > 0
  <2>1. t \in Tokens /\ IsKnown(t)
    BY DEF Connected
  <2>2. Consistent(conns[t], Peer(t)) /\ Settled(conns[t], Peer(t))
    BY <1>1, <2>1 DEF ConnsInv
  <2>3. /\ ConnReadable(t) => Readable(Peer(t))
        /\ ConnWritable(t) => Writable(conns[t], Peer(t))
    BY DEF ConnReadable, Readable, ConnWritable, Writable
  <2> QED
    BY <1>1, <1>2, <2>1, <2>2, <2>3 DEF ConnsWoken, Consistent, Settled
<1> QED
  BY <1>1, <1>2, <1>3 DEF AppsWoken, SignalWoken, Exited

(* No wakeup of a child, of a connection or of the signalfd is ever lost, for any
   order of events and whatever system calls fail: edges taken by one iteration
   are handled by it, and what reconcile, reap and accept_all change is looked at
   by epoll afresh (main.rs, ipc.rs). *)
THEOREM OwnWakeupsKept == Spec => []NoOwnWakeupLost
<1>1. SocketInv /\ WakeInv => NoOwnWakeupLost
  BY WokenAtPoll
<1> QED
  BY <1>1, SpecSocket, SpecWake, PTL

(* When accept and epoll_ctl do not fail, no client waiting to be accepted is
   forgotten either: the loop never waits with work left that epoll will not
   report.  A failed accept does lose it: the hypothesis is needed. *)
THEOREM WakeupsKept ==
    ASSUME Faults \cap {"accept", "register"} = {}
    PROVE  Spec => []NoLostWakeup
<1> DEFINE Listening == ~Ended => ListenersWoken
<1>1. Init => Listening
  BY WakeInit
<1>2. IndInv /\ SocketInv /\ Listening /\ [Next]_vars => Listening'
  <2> SUFFICES ASSUME IndInv, SocketInv, Listening, [Next]_vars, ~Ended'
               PROVE  ListenersWoken'
    OBVIOUS
  <2>1. ~Ended
    BY EndedStays DEF Ended, vars, loopVars
  <2> QED
    BY <2>1, ControlListenerStep, LogListenerStep DEF ListenersWoken
<1>3. SocketInv /\ NoOwnWakeupLost /\ Listening => NoLostWakeup
  <2> SUFFICES ASSUME SocketInv, NoOwnWakeupLost, Listening, pc = "poll"
               PROVE  /\ backlog # {} => UNIX_LISTENER_TOKEN \in ready
                      /\ log_backlog > 0 => LOG_LISTENER_TOKEN \in ready
    BY DEF NoOwnWakeupLost, NoLostWakeup
  <2>1. batch = {} /\ ListenersWoken
    BY DEF SocketInv, BatchInv, Busy, Ended
  <2> QED
    BY <2>1 DEF ListenersWoken, WakesRead
<1> HIDE DEF Listening
<1> QED
  BY <1>1, <1>2, <1>3, SpecInd, SpecSocket, OwnWakeupsKept, PTL DEF Spec

-----------------------------------------------------------------------------
(* The slab counts.  When no registration fails and the slab was made for every
   application and every connection there may be at once, no token is lost. *)

RunningApps == {a \in Apps : Running(a)}

EnoughTokens ==
    Len(SlabOrder) >= 3 * NumApps + MaxConnections + MaxLogConnections

(* Every token is vacant or owned, by count and one by one. *)
SlabCounted ==
    Len(vacant) + 3 * Cardinality(RunningApps) + Cardinality(Connected)
       + Cardinality(logs) = Len(SlabOrder)

SlabOwned ==
    \A t \in Tokens : \/ t \in Range(vacant) \/ t \in Connected \/ t \in logs
                      \/ \E a \in Apps : t \in OwnTokens(a)

(* The limits on the connections of the two sockets are kept. *)
ConnectionsBounded ==
    Cardinality(Connected) <= MaxConnections /\ Cardinality(logs) <= MaxLogConnections

(* At startup the applications are created one after the other. *)
NotCreated == pc = "create" => \A a \in Apps : a >= idx => ~Running(a)

CountInv == SlabCounted /\ SlabOwned /\ ConnectionsBounded /\ NotCreated

(* The tokens of the applications but those in S are left alone. *)
AppsKeep(S) ==
    \A a \in Apps \ S : (Running(a)' <=> Running(a)) /\ OwnTokens(a)' = OwnTokens(a)

(* What a step may do to the slab when it leaks nothing. *)
SlabKept ==
    UNCHANGED <<vacant, logs>> /\ Connected' = Connected /\ AppsKeep({})

AppTakesTokens(a) ==
    /\ ~Running(a) /\ Running(a)' /\ Len(vacant) >= 3
    /\ vacant' = Allocate(vacant, 3) /\ OwnTokens(a)' = Range(TopTokens(vacant))
    /\ AppsKeep({a}) /\ Connected' = Connected /\ UNCHANGED logs

AppReturnsTokens(a) ==
    /\ Running(a) /\ ~Running(a)'
    /\ vacant' = FreeTokens(vacant, app[a].tokens)
    /\ AppsKeep({a}) /\ Connected' = Connected /\ UNCHANGED logs

ConnTakesToken ==
    /\ vacant # <<>> /\ vacant' = Allocate(vacant, 1) /\ AppsKeep({})
    /\ \/ /\ Cardinality(Connected) < MaxConnections
          /\ Connected' = Connected \cup {vacant[1]} /\ UNCHANGED logs
       \/ /\ Cardinality(logs) < MaxLogConnections
          /\ logs' = logs \cup {vacant[1]} /\ Connected' = Connected

ConnReturnsToken(t) ==
    /\ t \in Tokens /\ vacant' = Free(vacant, t) /\ AppsKeep({})
    /\ \/ t \in Connected /\ Connected' = Connected \ {t} /\ UNCHANGED logs
       \/ t \in logs /\ logs' = logs \ {t} /\ Connected' = Connected

SlabMoves ==
    \/ SlabKept \/ ConnTakesToken
    \/ \E a \in Apps : AppTakesTokens(a) \/ AppReturnsTokens(a)
    \/ \E t \in Tokens : ConnReturnsToken(t)

(* How many tokens allocate and free leave, and that they leave the others. *)
LEMMA SlabLengths ==
    ASSUME NEW s \in Seq(Tokens)
    PROVE  /\ \A t \in Tokens : Len(Free(s, t)) = Len(s) + 1
           /\ \A n \in 0..Len(s) :
                 /\ Len(Allocate(s, n)) = Len(s) - n
                 /\ \A t \in Range(s) : t \in Range(Allocate(s, n))
                                        \/ \E i \in 1..n : t = s[i]
<1>1. \A t \in Tokens : Len(Free(s, t)) = Len(s) + 1
  BY DEF Free
<1>2. ASSUME NEW n \in 0..Len(s)
      PROVE  /\ Len(Allocate(s, n)) = Len(s) - n
             /\ \A t \in Range(s) : t \in Range(Allocate(s, n))
                                    \/ \E i \in 1..n : t = s[i]
  <2> DEFINE u == Allocate(s, n)
  <2>1. /\ Len(u) = Len(s) - n /\ DOMAIN u = 1..(Len(s) - n)
        /\ \A i \in 1..(Len(s) - n) : u[i] = s[i + n]
        /\ DOMAIN s = 1..Len(s) /\ Len(s) \in Nat
    BY DEF Allocate
  <2> HIDE DEF u
  <2>2. ASSUME NEW i \in 1..Len(s), ~(i \in 1..n) PROVE s[i] \in Range(u)
    <3>1. i - n \in 1..(Len(s) - n) /\ (i - n) + n = i
      BY <2>1, <2>2
    <3>2. s[i] = u[i - n]
      BY <2>1, <3>1
    <3> QED
      BY <2>1, <3>1, <3>2 DEF Range
  <2> QED
    BY <2>1, <2>2 DEF u, Range
<1> QED
  BY <1>1, <1>2

(* AppRuntime::stop gives three tokens back. *)
LEMMA FreeTokensLength ==
    ASSUME NEW s \in Seq(Tokens), NEW toks \in [Fds -> Tokens]
    PROVE  Len(FreeTokens(s, toks)) = Len(s) + 3
<1> DEFINE s1 == Free(s, toks["pidfd"])
           s2 == Free(s1, toks["stdout"])
<1>1. toks["pidfd"] \in Tokens /\ toks["stdout"] \in Tokens /\ toks["stderr"] \in Tokens
  BY DEF Fds
<1>2. s1 \in Seq(Tokens) /\ Len(s1) = Len(s) + 1
  BY <1>1, FreeType, SlabLengths
<1> HIDE DEF s1
<1>3. s2 \in Seq(Tokens) /\ Len(s2) = Len(s1) + 1
  BY <1>1, <1>2, FreeType, SlabLengths
<1> HIDE DEF s2
<1>4. Len(Free(s2, toks["stderr"])) = Len(s2) + 1
  BY <1>1, <1>3, SlabLengths
<1>5. FreeTokens(s, toks) = Free(s2, toks["stderr"])
  BY DEF FreeTokens, s1, s2
<1>6. Len(s) \in Nat /\ Len(s1) \in Nat /\ Len(s2) \in Nat
  BY <1>2, <1>3
<1> QED
  BY <1>2, <1>3, <1>4, <1>5, <1>6

(* There are finitely many tokens. *)
LEMMA TokensFinite ==
    IsFiniteSet(Tokens)
<1> DEFINE n == Len(SlabOrder)
<1>1. n \in Nat /\ SlabOrder \in [1..n -> Tokens] /\ DOMAIN SlabOrder = 1..n
  BY TokensAssumption
<1>2. \A t \in Tokens : \E i \in 1..n : SlabOrder[i] = t
  BY <1>1, TokensAssumption DEF Range
<1>3. IsFiniteSet(1..n)
  BY <1>1, FS_Interval
<1> HIDE DEF n
<1>4. SlabOrder \in Surjection(1..n, Tokens)
  BY <1>1, <1>2 DEF Surjection
<1> QED
  BY <1>3, <1>4, FS_Surjection

(* Applications and connections can be counted. *)
LEMMA OwnersFinite ==
    ASSUME LogTypeOK
    PROVE  /\ IsFiniteSet(RunningApps) /\ IsFiniteSet(Connected) /\ IsFiniteSet(logs)
           /\ Cardinality(RunningApps) \in Nat /\ Cardinality(Connected) \in Nat
           /\ Cardinality(logs) \in Nat
           /\ \A a \in Apps : ~Running(a) => Cardinality(RunningApps) <= NumApps - 1
<1>1. NumApps \in Nat /\ 1 \in Int /\ NumApps \in Int
  BY AppAssumption
<1>2. IsFiniteSet(Apps) /\ Cardinality(Apps) = NumApps
  <2>1. IsFiniteSet(1..NumApps)
        /\ Cardinality(1..NumApps) = IF 1 > NumApps THEN 0 ELSE NumApps - 1 + 1
    BY <1>1, FS_Interval
  <2>2. 1 > NumApps => NumApps = 0
    BY <1>1
  <2> QED
    BY <1>1, <2>1, <2>2 DEF Apps
<1>3. RunningApps \subseteq Apps /\ Connected \subseteq Tokens /\ logs \subseteq Tokens
  BY DEF RunningApps, Connected, LogTypeOK
<1>4. IsFiniteSet(RunningApps) /\ IsFiniteSet(Connected) /\ IsFiniteSet(logs)
  BY <1>2, <1>3, TokensFinite, FS_Subset
<1>5. ASSUME NEW a \in Apps, ~Running(a)
      PROVE  Cardinality(RunningApps) <= NumApps - 1
  <2>1. RunningApps \subseteq Apps \ {a}
    BY <1>5 DEF RunningApps
  <2>2. IsFiniteSet(Apps \ {a}) /\ Cardinality(Apps \ {a}) = NumApps - 1
    BY <1>2, FS_RemoveElement
  <2>3. Cardinality(RunningApps) <= Cardinality(Apps \ {a})
    BY <2>1, <2>2, FS_Subset
  <2> QED
    BY <2>2, <2>3
<1> QED
  BY <1>4, <1>5, FS_CardinalityType

(* So there are tokens for an application that does not run. *)
LEMMA TokensSpare ==
    ASSUME EnoughTokens, IndInv, CountInv, NEW a \in Apps, ~Running(a)
    PROVE  Len(vacant) >= 3
<1>1. /\ Cardinality(RunningApps) \in Nat /\ Cardinality(Connected) \in Nat
      /\ Cardinality(logs) \in Nat /\ Cardinality(RunningApps) <= NumApps - 1
  BY OwnersFinite DEF IndInv
<1>2. /\ NumApps \in Nat /\ MaxConnections \in Nat /\ MaxLogConnections \in Nat
      /\ Len(SlabOrder) \in Nat /\ Len(vacant) \in Nat
  BY AppAssumption, IpcAssumption, LogConnsAssumption, TokensAssumption
  DEF IndInv, CoreInv, SlabTypeOK
<1>3. /\ Len(vacant) + 3 * Cardinality(RunningApps) + Cardinality(Connected)
            + Cardinality(logs) = Len(SlabOrder)
      /\ Cardinality(Connected) <= MaxConnections
      /\ Cardinality(logs) <= MaxLogConnections
      /\ Len(SlabOrder) >= 3 * NumApps + MaxConnections + MaxLogConnections
  BY DEF CountInv, SlabCounted, ConnectionsBounded, EnoughTokens
<1> QED
  BY <1>1, <1>2, <1>3

(* The three tokens of a new runtime are the ones that leave the slab. *)
LEMMA TopTokensLeave ==
    ASSUME NEW s \in Seq(Tokens), Len(s) >= 3
    PROVE  \A t \in Range(s) : t \in Range(Allocate(s, 3)) \/ t \in Range(TopTokens(s))
<1>1. TopTokens(s) \in [Fds -> Tokens] /\ 3 \in 0..Len(s)
  BY TopTokensType
<1>2. /\ TopTokens(s)["pidfd"] = s[1] /\ TopTokens(s)["stdout"] = s[2]
      /\ TopTokens(s)["stderr"] = s[3]
  BY DEF TopTokens, Fds
<1>3. Range(TopTokens(s)) = {s[1], s[2], s[3]}
  BY <1>1, <1>2, RangeOfTokens
<1>4. \A t \in Range(s) : t \in Range(Allocate(s, 3)) \/ \E i \in 1..3 : t = s[i]
  BY <1>1, SlabLengths
<1>5. \A i \in 1..3 : i = 1 \/ i = 2 \/ i = 3
  OBVIOUS
<1>6. \A i \in 1..3 : s[i] \in Range(TopTokens(s))
  BY <1>3, <1>5
<1> QED
  BY <1>4, <1>6

(* The running applications after a step. *)
LEMMA RunningAfter ==
    ASSUME NEW a \in Apps
    PROVE  /\ AppsKeep({}) => RunningApps' = RunningApps
           /\ AppsKeep({a}) /\ Running(a)' => RunningApps' = RunningApps \cup {a}
           /\ AppsKeep({a}) /\ ~Running(a)' => RunningApps' = RunningApps \ {a}
BY DEF AppsKeep, RunningApps

(* No such step loses a token. *)
LEMMA MovesOwned ==
    ASSUME IndInv, TokenOwnership, SlabOwned, SlabMoves
    PROVE  SlabOwned'
<1>1. vacant \in Seq(Tokens) /\ IsInjective(vacant)
  BY DEF IndInv, CoreInv, SlabTypeOK, TokenOwnership
<1> SUFFICES ASSUME NEW t \in Tokens
             PROVE  \/ t \in Range(vacant') \/ t \in Connected' \/ t \in logs'
                    \/ \E a \in Apps : t \in OwnTokens(a)'
  BY DEF SlabOwned
<1>2. \/ t \in Range(vacant) \/ t \in Connected \/ t \in logs
      \/ \E a \in Apps : t \in OwnTokens(a)
  BY DEF SlabOwned
<1>3. CASE SlabKept
  BY <1>2, <1>3 DEF SlabKept, AppsKeep
<1>4. CASE ConnTakesToken
  <2>1. 1 \in 0..Len(vacant)
    BY <1>1, <1>4 DEF ConnTakesToken
  <2>2. t \in Range(vacant) => t \in Range(vacant') \/ t = vacant[1]
    BY <1>1, <1>4, <2>1, SlabLengths DEF ConnTakesToken
  <2> QED
    BY <1>2, <1>4, <2>2 DEF ConnTakesToken, AppsKeep
<1>5. ASSUME NEW a \in Apps, AppTakesTokens(a)
      PROVE  \/ t \in Range(vacant') \/ t \in Connected' \/ t \in logs'
             \/ \E b \in Apps : t \in OwnTokens(b)'
  <2>1. t \in Range(vacant) => t \in Range(vacant') \/ t \in OwnTokens(a)'
    BY <1>1, <1>5, TopTokensLeave DEF AppTakesTokens
  <2>2. OwnTokens(a) = {} /\ \A b \in Apps \ {a} : OwnTokens(b)' = OwnTokens(b)
    BY <1>5 DEF AppTakesTokens, OwnTokens, AppsKeep
  <2> QED
    BY <1>2, <1>5, <2>1, <2>2 DEF AppTakesTokens
<1>6. ASSUME NEW a \in Apps, AppReturnsTokens(a)
      PROVE  \/ t \in Range(vacant') \/ t \in Connected' \/ t \in logs'
             \/ \E b \in Apps : t \in OwnTokens(b)'
  <2>1. /\ app[a].tokens \in [Fds -> Tokens] /\ IsInjective(app[a].tokens)
        /\ OwnTokens(a) = Range(app[a].tokens)
        /\ Range(app[a].tokens) \cap Range(vacant) = {}
    BY <1>6
    DEF AppReturnsTokens, IndInv, CoreInv, AppInv, RuntimesHoldTokens, TokenOwnership,
        OwnTokens
  <2>2. Range(vacant') = Range(vacant) \cup OwnTokens(a)
    BY <1>1, <1>6, <2>1, FreeTokensOwn DEF AppReturnsTokens
  <2> QED
    BY <1>2, <1>6, <2>2 DEF AppReturnsTokens, AppsKeep
<1>7. ASSUME NEW u \in Tokens, ConnReturnsToken(u)
      PROVE  \/ t \in Range(vacant') \/ t \in Connected' \/ t \in logs'
             \/ \E b \in Apps : t \in OwnTokens(b)'
  <2>1. u \notin Range(vacant)
    BY <1>7 DEF ConnReturnsToken, TokenOwnership
  <2>2. Range(vacant') = Range(vacant) \cup {u}
    BY <1>1, <1>7, <2>1, FreeOwns DEF ConnReturnsToken
  <2> QED
    BY <1>2, <1>7, <2>2 DEF ConnReturnsToken, AppsKeep
<1> QED
  BY <1>3, <1>4, <1>5, <1>6, <1>7 DEF SlabMoves

(* Nor does it change the count. *)
LEMMA MovesCounted ==
    ASSUME IndInv, TokenOwnership, SlabCounted, ConnectionsBounded, SlabMoves
    PROVE  SlabCounted' /\ ConnectionsBounded'
<1>1. /\ vacant \in Seq(Tokens) /\ Len(vacant) \in Nat /\ Len(SlabOrder) \in Nat
      /\ MaxConnections \in Nat /\ MaxLogConnections \in Nat
  BY TokensAssumption, IpcAssumption, LogConnsAssumption DEF IndInv, CoreInv, SlabTypeOK
<1>2. /\ IsFiniteSet(RunningApps) /\ IsFiniteSet(Connected) /\ IsFiniteSet(logs)
      /\ Cardinality(RunningApps) \in Nat /\ Cardinality(Connected) \in Nat
      /\ Cardinality(logs) \in Nat
  BY OwnersFinite DEF IndInv
<1>3. /\ Len(vacant) + 3 * Cardinality(RunningApps) + Cardinality(Connected)
            + Cardinality(logs) = Len(SlabOrder)
      /\ Cardinality(Connected) <= MaxConnections
      /\ Cardinality(logs) <= MaxLogConnections
  BY DEF SlabCounted, ConnectionsBounded
<1> SUFFICES /\ Len(vacant') + 3 * Cardinality(RunningApps') + Cardinality(Connected')
                   + Cardinality(logs') = Len(SlabOrder)
             /\ Cardinality(Connected') <= MaxConnections
             /\ Cardinality(logs') <= MaxLogConnections
  BY DEF SlabCounted, ConnectionsBounded
<1>4. CASE SlabKept
  <2>1. RunningApps' = RunningApps
    BY <1>4 DEF SlabKept, AppsKeep, RunningApps
  <2> QED
    BY <1>3, <1>4, <2>1 DEF SlabKept
<1>5. CASE ConnTakesToken
  <2>1. RunningApps' = RunningApps /\ 1 \in 0..Len(vacant)
    BY <1>1, <1>5 DEF ConnTakesToken, AppsKeep, RunningApps
  <2>2. Len(vacant') = Len(vacant) - 1
    BY <1>1, <1>5, <2>1, SlabLengths DEF ConnTakesToken
  <2>3. vacant[1] \notin Connected /\ vacant[1] \notin logs
    <3>1. vacant[1] \in Range(vacant)
      BY <1>1, <2>1 DEF Range
    <3> QED
      BY <3>1 DEF TokenOwnership
  <2>4. /\ Cardinality(Connected \cup {vacant[1]}) = Cardinality(Connected) + 1
        /\ Cardinality(logs \cup {vacant[1]}) = Cardinality(logs) + 1
    BY <1>2, <2>3, FS_AddElement
  <2>5. CASE /\ Cardinality(Connected) < MaxConnections
             /\ Connected' = Connected \cup {vacant[1]} /\ UNCHANGED logs
    <3>1. /\ (Len(vacant) - 1) + 3 * Cardinality(RunningApps)
                + (Cardinality(Connected) + 1) + Cardinality(logs) = Len(SlabOrder)
          /\ Cardinality(Connected) + 1 <= MaxConnections
      BY <1>1, <1>2, <1>3, <2>5
    <3>2. Cardinality(Connected') = Cardinality(Connected) + 1
      BY <2>4, <2>5
    <3> QED
      BY <1>3, <2>1, <2>2, <2>5, <3>1, <3>2
  <2>6. CASE /\ Cardinality(logs) < MaxLogConnections
             /\ logs' = logs \cup {vacant[1]} /\ Connected' = Connected
    <3>1. /\ (Len(vacant) - 1) + 3 * Cardinality(RunningApps)
                + Cardinality(Connected) + (Cardinality(logs) + 1) = Len(SlabOrder)
          /\ Cardinality(logs) + 1 <= MaxLogConnections
      BY <1>1, <1>2, <1>3, <2>6
    <3>2. Cardinality(logs') = Cardinality(logs) + 1
      BY <2>4, <2>6
    <3> QED
      BY <1>3, <2>1, <2>2, <2>6, <3>1, <3>2
  <2> QED
    BY <1>5, <2>5, <2>6 DEF ConnTakesToken
<1>6. ASSUME NEW a \in Apps, AppTakesTokens(a)
      PROVE  /\ Len(vacant') + 3 * Cardinality(RunningApps') + Cardinality(Connected')
                   + Cardinality(logs') = Len(SlabOrder)
             /\ Connected' = Connected /\ logs' = logs
  <2>1. RunningApps' = RunningApps \cup {a} /\ a \notin RunningApps
        /\ 3 \in 0..Len(vacant) /\ Connected' = Connected /\ logs' = logs
    BY <1>1, <1>6, RunningAfter DEF AppTakesTokens, RunningApps
  <2>2. Len(vacant') = Len(vacant) - 3
    BY <1>1, <1>6, <2>1, SlabLengths DEF AppTakesTokens
  <2>3. Cardinality(RunningApps') = Cardinality(RunningApps) + 1
    BY <1>2, <2>1, FS_AddElement
  <2>4. (Len(vacant) - 3) + 3 * (Cardinality(RunningApps) + 1)
           + Cardinality(Connected) + Cardinality(logs) = Len(SlabOrder)
    BY <1>1, <1>2, <1>3
  <2> QED
    BY <2>1, <2>2, <2>3, <2>4
<1>7. ASSUME NEW a \in Apps, AppReturnsTokens(a)
      PROVE  /\ Len(vacant') + 3 * Cardinality(RunningApps') + Cardinality(Connected')
                   + Cardinality(logs') = Len(SlabOrder)
             /\ Connected' = Connected /\ logs' = logs
  <2>1. RunningApps' = RunningApps \ {a} /\ a \in RunningApps
        /\ Connected' = Connected /\ logs' = logs
    BY <1>7, RunningAfter DEF AppReturnsTokens, RunningApps
  <2>2. app[a].tokens \in [Fds -> Tokens]
    BY <1>7 DEF AppReturnsTokens, IndInv, CoreInv, AppInv, RuntimesHoldTokens
  <2>3. Len(vacant') = Len(vacant) + 3
    BY <1>1, <1>7, <2>2, FreeTokensLength DEF AppReturnsTokens
  <2>4. Cardinality(RunningApps') = Cardinality(RunningApps) - 1
    BY <1>2, <2>1, FS_RemoveElement
  <2>5. (Len(vacant) + 3) + 3 * (Cardinality(RunningApps) - 1)
           + Cardinality(Connected) + Cardinality(logs) = Len(SlabOrder)
    BY <1>1, <1>2, <1>3
  <2> QED
    BY <2>1, <2>3, <2>4, <2>5
<1>8. ASSUME NEW t \in Tokens, ConnReturnsToken(t)
      PROVE  /\ Len(vacant') + 3 * Cardinality(RunningApps') + Cardinality(Connected')
                   + Cardinality(logs') = Len(SlabOrder)
             /\ Cardinality(Connected') <= MaxConnections
             /\ Cardinality(logs') <= MaxLogConnections
  <2>1. RunningApps' = RunningApps
    BY <1>8 DEF ConnReturnsToken, AppsKeep, RunningApps
  <2>2. Len(vacant') = Len(vacant) + 1
    BY <1>1, <1>8, SlabLengths DEF ConnReturnsToken
  <2>3. /\ t \in Connected => Cardinality(Connected \ {t}) = Cardinality(Connected) - 1
        /\ t \in logs => Cardinality(logs \ {t}) = Cardinality(logs) - 1
    BY <1>2, FS_RemoveElement
  <2>4. CASE t \in Connected /\ Connected' = Connected \ {t} /\ UNCHANGED logs
    <3>1. /\ (Len(vacant) + 1) + 3 * Cardinality(RunningApps)
                + (Cardinality(Connected) - 1) + Cardinality(logs) = Len(SlabOrder)
          /\ Cardinality(Connected) - 1 <= MaxConnections
      BY <1>1, <1>2, <1>3
    <3>2. Cardinality(Connected') = Cardinality(Connected) - 1
      BY <2>3, <2>4
    <3> QED
      BY <1>3, <2>1, <2>2, <2>4, <3>1, <3>2
  <2>5. CASE t \in logs /\ logs' = logs \ {t} /\ Connected' = Connected
    <3>1. /\ (Len(vacant) + 1) + 3 * Cardinality(RunningApps)
                + Cardinality(Connected) + (Cardinality(logs) - 1) = Len(SlabOrder)
          /\ Cardinality(logs) - 1 <= MaxLogConnections
      BY <1>1, <1>2, <1>3
    <3>2. Cardinality(logs') = Cardinality(logs) - 1
      BY <2>3, <2>5
    <3> QED
      BY <1>3, <2>1, <2>2, <2>5, <3>1, <3>2
  <2> QED
    BY <1>8, <2>4, <2>5 DEF ConnReturnsToken
<1> QED
  BY <1>3, <1>4, <1>5, <1>6, <1>7, <1>8 DEF SlabMoves

(* A failed start of an application that does not run leaks no token when there
   are three and every registration succeeds. *)
LEMMA NoLeakyStart ==
    ASSUME "register" \notin Faults, NEW a, NEW r, RuntimeFails(a, r),
           vacant \in Seq(Tokens), Len(vacant) >= 3
    PROVE  UNCHANGED vacant
<1>1. \A n \in 0..3 : ~(n = Len(vacant) /\ n < 3)
  OBVIOUS
<1> QED
  BY <1>1 DEF RuntimeFails

(* A step that leaves the slab and the connections, and of every application that
   runs its tokens. *)
LEMMA KeepsSlab ==
    ASSUME UNCHANGED <<vacant, logs, conns>>,
           \A b \in Apps : app'[b].state = app[b].state /\ app'[b].tokens = app[b].tokens
    PROVE  SlabKept
BY DEF SlabKept, AppsKeep, Connected, IsKnown, OwnTokens, Running

(* What the methods of App do to the slab. *)
LEMMA EffectOnSlab ==
    ASSUME "register" \notin Faults, IndInv, NEW a \in Apps,
           ~Running(a) => Len(vacant) >= 3, UNCHANGED <<conns, logs>>,
           \/ ~Running(a) /\ \E r \in AppRecord : RuntimeStart(a, r)
           \/ ~Running(a) /\ \E r \in {app[a], Stopped(app[a])} : RuntimeFails(a, r)
           \/ /\ ~Running(a) /\ app' = [app EXCEPT ![a] = Stopped(@)]
              /\ UNCHANGED vacant
           \/ \E force \in BOOLEAN : AppStop(a, force)
           \/ Running(a) /\ Reap(a, ~Stopping)
           \/ DelayElapses(a)
    PROVE  SlabKept \/ AppTakesTokens(a) \/ AppReturnsTokens(a)
<1>1. /\ app \in [Apps -> AppRecord] /\ vacant \in Seq(Tokens) /\ AppInv
  BY DEF IndInv, CoreInv, AppInv, AppTypeOK, SlabTypeOK
<1>2. Connected' = Connected
  BY DEF Connected, IsKnown
<1>3. ASSUME ~Running(a), NEW r \in AppRecord, RuntimeStart(a, r)
      PROVE  AppTakesTokens(a)
  <2>1. PICK p \in FreePids : app' = [app EXCEPT ![a] = Launched(r, p)]
    BY <1>3 DEF RuntimeStart
  <2>2. Launched(r, p).state = "running" /\ Launched(r, p).tokens = TopTokens(vacant)
    BY <1>3 DEF Launched, AppRecord
  <2>3. /\ app'[a].state = "running" /\ app'[a].tokens = TopTokens(vacant)
        /\ \A b \in Apps \ {a} : app'[b] = app[b]
    BY <1>1, <2>1, <2>2
  <2>4. /\ Running(a)' /\ OwnTokens(a)' = Range(TopTokens(vacant))
        /\ AppsKeep({a})
    BY <2>3 DEF Running, OwnTokens, AppsKeep
  <2> QED
    BY <1>2, <1>3, <2>4 DEF AppTakesTokens, RuntimeStart
<1>4. ASSUME ~Running(a), UNCHANGED vacant,
             NEW r \in {app[a], Stopped(app[a])}, app' = [app EXCEPT ![a] = r]
      PROVE  SlabKept
  <2>1. r.state # "running"
    BY <1>1, <1>4, StoppedFacts DEF Running
  <2>2. ~Running(a)' /\ \A b \in Apps \ {a} : app'[b] = app[b]
    BY <1>1, <1>4, <2>1 DEF Running
  <2>3. AppsKeep({})
    BY <1>4, <2>2 DEF AppsKeep, OwnTokens, Running
  <2> QED
    BY <1>2, <1>4, <2>3 DEF SlabKept
<1>5. ASSUME ~Running(a), NEW r \in {app[a], Stopped(app[a])}, RuntimeFails(a, r)
      PROVE  SlabKept
  BY <1>1, <1>4, <1>5, NoLeakyStart DEF RuntimeFails
<1>6. ASSUME NEW force \in BOOLEAN, AppStop(a, force) PROVE SlabKept
  <2>1. \A b \in Apps : app'[b] \in {app[b], AskedToStop(app[b]), Cancelled(app[b])}
    BY <1>1, <1>6 DEF AppStop, AskedToStop, Cancelled
  <2>2. \A b \in Apps : /\ app'[b].state = app[b].state
                        /\ app'[b].tokens = app[b].tokens
    BY <1>1, <2>1, StopRecordFacts
  <2> QED
    BY <1>6, <2>2, KeepsSlab DEF AppStop
<1>7. ASSUME Running(a), Reap(a, ~Stopping) PROVE AppReturnsTokens(a)
  <2>1. app'[a].state = "stopped" /\ \A b \in Apps \ {a} : SameChild(b)
    BY <1>1, <1>7, ReapOthers
  <2>2. ~Running(a)' /\ AppsKeep({a})
    BY <2>1 DEF Running, AppsKeep, OwnTokens, SameChild
  <2> QED
    BY <1>2, <1>7, <2>2 DEF AppReturnsTokens, Reap
<1>8. ASSUME DelayElapses(a) PROVE SlabKept
  <2>1. \A r \in AppRecord :
           /\ [r EXCEPT !.restart_deadline = "due"].state = r.state
           /\ [r EXCEPT !.restart_deadline = "due"].tokens = r.tokens
    BY DEF AppRecord
  <2>2. \A b \in Apps : /\ app'[b].state = app[b].state
                        /\ app'[b].tokens = app[b].tokens
    BY <1>1, <1>8, <2>1 DEF DelayElapses
  <2> QED
    BY <1>8, <2>2, KeepsSlab DEF DelayElapses
<1>9. CASE /\ ~Running(a) /\ app' = [app EXCEPT ![a] = Stopped(@)]
           /\ UNCHANGED vacant
  BY <1>4, <1>9
<1> QED
  BY <1>3, <1>5, <1>6, <1>7, <1>8, <1>9

(* What handle_writable and reconcile do to it. *)
LEMMA FlushOnSlab ==
    ASSUME IndInv, NEW t \in Tokens, IsKnown(t), NEW c \in ConnRecord, NEW writable,
           c.client = conns[t].client,
           (\E n : Close(t, n)) \/ FlushAndReconcile(t, c, writable),
           UNCHANGED <<app, logs>>
    PROVE  SlabKept \/ ConnReturnsToken(t)
<1>1. conns \in [Tokens -> ConnRecord] /\ t \in Connected
  BY DEF IndInv, CoreInv, ClientInv, IpcTypeOK, Connected
<1>2. AppsKeep({})
  BY DEF AppsKeep, OwnTokens, Running
<1>3. ASSUME NEW n, Close(t, n) PROVE ConnReturnsToken(t)
  <2>1. conns' = [conns EXCEPT ![t] = NoConn] /\ vacant' = Free(vacant, t)
    BY <1>3 DEF Close
  <2>2. NoConn.client = NoClient
    BY DEF NoConn, NewConn
  <2>3. Connected' = Connected \ {t}
    BY <1>1, <2>1, <2>2 DEF Connected, IsKnown
  <2> QED
    BY <1>1, <1>2, <2>1, <2>3 DEF ConnReturnsToken
<1>4. CASE FlushAndReconcile(t, c, writable)
  <2>1. \/ \E n : Close(t, n)
        \/ \E left : /\ conns' = [conns EXCEPT ![t] =
                           [c EXCEPT !.write_buf = left,
                                     !.writable_registered = left > 0]]
                     /\ UNCHANGED vacant
    BY <1>4, Zenon DEF FlushAndReconcile
  <2>2. ASSUME NEW left,
               conns' = [conns EXCEPT ![t] =
                           [c EXCEPT !.write_buf = left,
                                     !.writable_registered = left > 0]],
               UNCHANGED vacant
        PROVE  SlabKept
    <3> DEFINE k == [c EXCEPT !.write_buf = left,
                              !.writable_registered = left > 0]
    <3>1. k.client = c.client
      BY DEF ConnRecord
    <3>2. Connected' = Connected
      BY <1>1, <2>2, <3>1 DEF Connected, IsKnown
    <3> QED
      BY <1>2, <2>2, <3>2 DEF SlabKept
  <2> QED
    BY <1>3, <2>1, <2>2
<1> QED
  BY <1>3, <1>4

(* Every step is of one of those kinds. *)
LEMMA SlabStep ==
    ASSUME "register" \notin Faults, EnoughTokens, IndInv, CountInv, [Next]_vars
    PROVE  SlabMoves
<1>1. /\ AppInv /\ app \in [Apps -> AppRecord] /\ conns \in [Tokens -> ConnRecord]
      /\ vacant \in Seq(Tokens) /\ logs \subseteq Tokens
  BY DEF IndInv, CoreInv, AppInv, AppTypeOK, ClientInv, IpcTypeOK, SlabTypeOK, LogTypeOK
<1>2. ASSUME UNCHANGED <<app, vacant, conns, logs>> PROVE SlabMoves
  BY <1>2, KeepsSlab DEF SlabMoves
<1>3. ASSUME UNCHANGED <<app, logs>> \/ UNCHANGED <<app, conns>> PROVE AppsKeep({})
  BY <1>3 DEF AppsKeep, OwnTokens, Running
<1>4. ASSUME NEW a \in Apps, UNCHANGED <<conns, logs>>,
             \/ ~Running(a) /\ \E r \in AppRecord : RuntimeStart(a, r)
             \/ ~Running(a) /\ \E r \in {app[a], Stopped(app[a])} : RuntimeFails(a, r)
             \/ /\ ~Running(a) /\ app' = [app EXCEPT ![a] = Stopped(@)]
                /\ UNCHANGED vacant
             \/ \E force \in BOOLEAN : AppStop(a, force)
             \/ Running(a) /\ Reap(a, ~Stopping)
             \/ DelayElapses(a)
      PROVE  SlabMoves
  <2>1. ~Running(a) => Len(vacant) >= 3
    BY TokensSpare
  <2> QED
    BY <1>4, <2>1, EffectOnSlab DEF SlabMoves
<1>5. ASSUME NEW a \in Apps
      PROVE  Pending(a) => ~Running(a)
  BY <1>1 DEF AppInv, RestartJustified
<1>6. CASE MainStep /\ UNCHANGED logVars
  <2>1. logs' = logs
    BY <1>6 DEF logVars
  <2>2. CASE CreateApp
    <3>1. idx \in Apps /\ UNCHANGED <<conns, logs>> /\ ~Running(idx)
          /\ app[idx] \in AppRecord
      BY <1>1, <2>1, <2>2 DEF CreateApp, ipcVars, CountInv, NotCreated, Apps
    <3> QED
      BY <1>2, <1>4, <2>2, <3>1 DEF CreateApp, AppCreate, AppCreateFails
  <2>3. CASE ServeRequest
    <3>1. idx \in Apps /\ UNCHANGED <<conns, logs>> /\ app[idx] \in AppRecord
      BY <1>1, <2>1, <2>3 DEF ServeRequest, ipcVars
    <3>2. [app[idx] EXCEPT !.consecutive_failures = 0, !.stop_requested = FALSE]
             \in AppRecord
      BY <3>1 DEF AppRecord
    <3>3. CASE AppStart(idx)
      BY <1>2, <1>4, <3>1, <3>2, <3>3 DEF AppStart
    <3>4. CASE \E force : AppStop(idx, force)
      <4>1. \A b \in Apps : app'[b] \in {app[b], AskedToStop(app[b]), Cancelled(app[b])}
        BY <1>1, <3>1, <3>4 DEF AppStop, AskedToStop, Cancelled
      <4>2. \A b \in Apps : /\ app'[b].state = app[b].state
                            /\ app'[b].tokens = app[b].tokens
        BY <1>1, <4>1, StopRecordFacts
      <4> QED
        BY <3>1, <3>4, <4>2, KeepsSlab DEF AppStop, SlabMoves
    <3> QED
      BY <1>2, <2>3, <3>1, <3>3, <3>4 DEF ServeRequest
  <2>4. CASE RestartApp
    <3>1. idx \in Apps /\ UNCHANGED <<conns, logs>> /\ app[idx] \in AppRecord
          /\ MaybeRestart(idx, ~Stopping)
      BY <1>1, <2>1, <2>4 DEF RestartApp, ipcVars
    <3>2. app[idx].restart_deadline = "due" => Pending(idx)
      BY DEF Pending
    <3> QED
      BY <1>2, <1>4, <1>5, <3>1, <3>2 DEF MaybeRestart
  <2>5. CASE ShutdownApp
    <3>1. (sigint_count >= SIGINT_THRESHOLD) \in BOOLEAN
      OBVIOUS
    <3>2. idx \in Apps /\ UNCHANGED <<conns, logs>>
          /\ AppStop(idx, sigint_count >= SIGINT_THRESHOLD)
      BY <2>1, <2>5 DEF ShutdownApp, ipcVars
    <3> QED
      BY <1>4, <3>1, <3>2
  <2>6. CASE \E e \in batch : HandleApp(e)
    <3>1. UNCHANGED <<conns, logs>>
      BY <2>1, <2>6 DEF HandleApp, ipcVars
    <3>2. UNCHANGED <<app, vacant>> \/ \E a \in Apps : Running(a) /\ Reap(a, ~Stopping)
      BY <2>6 DEF HandleApp
    <3> QED
      BY <1>2, <1>4, <3>1, <3>2
  <2>7. CASE AcceptAll
    <3>1. UNCHANGED <<app, logs>>
      BY <2>1, <2>7 DEF AcceptAll
    <3>2. ASSUME NEW c \in backlog, vacant # <<>>, vacant' = Allocate(vacant, 1),
                 Cardinality(Connected) < MaxConnections,
                 conns' = [conns EXCEPT ![vacant[1]] = NewConn(c)]
          PROVE  SlabMoves
      <4>1. vacant[1] \in Tokens /\ c # NoClient /\ NewConn(c).client = c
        BY <1>1, <3>2, IpcAssumption
        DEF NewConn, IndInv, CoreInv, ClientInv, IpcTypeOK
      <4>2. Connected' = Connected \cup {vacant[1]}
        BY <1>1, <3>2, <4>1 DEF Connected, IsKnown
      <4> QED
        BY <1>3, <3>1, <3>2, <4>2 DEF SlabMoves, ConnTakesToken
    <3>3. \/ UNCHANGED <<vacant, conns>>
          \/ \E c \in backlog :
                /\ vacant # <<>> /\ vacant' = Allocate(vacant, 1)
                /\ Cardinality(Connected) < MaxConnections
                /\ conns' = [conns EXCEPT ![vacant[1]] = NewConn(c)]
      BY <2>7 DEF AcceptAll, AcceptOne, AcceptLeaks, Reject, ipcVars
    <3> QED
      BY <1>2, <3>1, <3>2, <3>3
  <2>8. ASSUME NEW e \in batch, HandleConn(e) PROVE SlabMoves
    <3>1. e.tok \in Tokens /\ IsKnown(e.tok) /\ UNCHANGED <<app, logs>>
          /\ conns[e.tok] \in ConnRecord
      BY <1>1, <2>1, <2>8 DEF HandleConn, IsKnown
    <3>2. CASE Close(e.tok, 0)
      BY <3>1, <3>2, FlushOnSlab DEF SlabMoves
    <3>3. CASE ReadRequest(e.tok)
      <4>1. \A r \in ConnRecord : \A b :
               [r EXCEPT !.close_after_flush = b].client = r.client
        BY DEF ConnRecord
      <4>2. /\ conns' = [conns EXCEPT ![e.tok].close_after_flush =
                            @ \/ Peer(e.tok).st = "quit"]
            /\ UNCHANGED vacant
        BY <3>3 DEF ReadRequest
      <4>3. \A t \in Tokens : conns'[t].client = conns[t].client
        BY <1>1, <3>1, <4>1, <4>2
      <4>4. Connected' = Connected
        BY <4>3 DEF Connected, IsKnown
      <4> QED
        BY <1>3, <3>1, <4>2, <4>4 DEF SlabMoves, SlabKept
    <3>4. CASE ServeIdle(e.tok, e.r, e.w)
      <4> DEFINE b == conns[e.tok].close_after_flush
                         \/ (e.r /\ Peer(e.tok).st = "quit")
                 k == [conns[e.tok] EXCEPT !.close_after_flush = b]
      <4>1. b \in BOOLEAN
        OBVIOUS
      <4>2. k.client = conns[e.tok].client /\ k \in ConnRecord
        BY <3>1, <4>1 DEF ConnRecord
      <4>3. FlushAndReconcile(e.tok, k, e.w)
        BY <3>4 DEF ServeIdle
      <4> HIDE DEF k
      <4> QED
        BY <3>1, <4>2, <4>3, FlushOnSlab DEF SlabMoves
    <3> QED
      BY <2>8, <3>2, <3>3, <3>4 DEF HandleConn
  <2>9. CASE FinishRequest
    <3> DEFINE t == job.tok
               k == [conns[t] EXCEPT !.write_buf = @ + ResponseChunks,
                                     !.close_after_flush = TRUE]
    <3>1. Unanswered(t) /\ UNCHANGED <<app, logs>> /\ Respond(t, job.w)
      BY <2>1, <2>9 DEF FinishRequest, IndInv, CoreInv, LoopInv, Serving
    <3>2. t \in Tokens /\ IsKnown(t) /\ conns[t].write_buf = 0
          /\ conns[t] \in ConnRecord
      BY <1>1, <3>1 DEF Unanswered
    <3>3. 0 + ResponseChunks \in 0..ResponseChunks
      BY IpcAssumption
    <3>4. k.client = conns[t].client /\ k \in ConnRecord
      BY <3>2, <3>3 DEF ConnRecord
    <3>5. FlushAndReconcile(t, k, job.w)
      BY <3>1 DEF Respond
    <3> HIDE DEF k, t
    <3> QED
      BY <3>1, <3>2, <3>4, <3>5, FlushOnSlab DEF SlabMoves
  <2>10. CASE Bind \/ Poll \/ EventsDone \/ RestartDone \/ ShutdownDone \/ Check
              \/ \E e \in batch : HandleSignal(e) \/ HandleListener(e)
    <3>1. UNCHANGED <<app, vacant, conns>>
      BY <2>10
      DEF Bind, Poll, EventsDone, RestartDone, ShutdownDone, Check, HandleSignal,
          HandleListener, appVars, ipcVars
    <3> QED
      BY <1>2, <2>1, <3>1
  <2> QED
    BY <1>6, <2>2, <2>3, <2>4, <2>5, <2>6, <2>7, <2>8, <2>9, <2>10 DEF MainStep
<1>7. CASE LogStep
  <2>1. UNCHANGED <<app, conns>> /\ Connected' = Connected
    BY <1>7 DEF LogStep, LogAcceptAll, PushUpdates, HandleLog, ipcVars, Connected, IsKnown
  <2>2. ASSUME NEW t \in logs, LogClose(t) PROVE SlabMoves
    BY <1>1, <1>3, <2>1, <2>2 DEF LogClose, SlabMoves, ConnReturnsToken
  <2>3. CASE LogAcceptOne
    BY <1>2, <1>3, <2>1, <2>3 DEF LogAcceptOne, SlabMoves, ConnTakesToken
  <2>4. \/ UNCHANGED <<logs, vacant>> \/ LogAcceptOne \/ \E t \in logs : LogClose(t)
    BY <1>7 DEF LogStep, LogAcceptAll, LogAcceptLeaks, PushUpdates, HandleLog, logVars
  <2> QED
    BY <1>2, <2>1, <2>2, <2>3, <2>4
<1>8. CASE MainEnvironment /\ UNCHANGED logVars
  <2>1. logs' = logs
    BY <1>8 DEF logVars
  <2>2. CASE \E a \in Apps : DelayElapses(a) /\ UNCHANGED ipcVars
    BY <1>4, <2>1, <2>2 DEF ipcVars
  <2>3. CASE ~\E a \in Apps : DelayElapses(a) /\ UNCHANGED ipcVars
    <3>1. UNCHANGED <<app, vacant, conns>>
      BY <1>8, <2>3
      DEF MainEnvironment, ProcExit, ProcFork, ProcOutput, Sigint, ClientStep, Connect,
          Send, Receive, HangUp, ComeBack, ipcVars
    <3> QED
      BY <1>2, <2>1, <3>1
  <2> QED
    BY <2>2, <2>3
<1>9. CASE LogEnvironment \/ UNCHANGED vars
  <2>1. UNCHANGED <<app, vacant, conns, logs>>
    BY <1>9
    DEF LogEnvironment, LogConnect, LogTraffic, vars, appVars, ipcVars, logVars
  <2> QED
    BY <1>2, <2>1
<1> QED
  BY <1>6, <1>7, <1>8, <1>9 DEF Next, Daemon, Environment, Done

(* During startup only the application that is created may start. *)
LEMMA NotCreatedStep ==
    ASSUME IndInv, NotCreated, [Next]_vars
    PROVE  NotCreated'
<1> SUFFICES ASSUME pc' = "create", NEW b \in Apps, b >= idx', Running(b)' PROVE FALSE
  BY DEF NotCreated
<1>1. app \in [Apps -> AppRecord] /\ idx \in 1..(NumApps + 1) /\ NumApps \in Nat
  BY AppAssumption DEF IndInv, CoreInv, AppInv, AppTypeOK, LoopInv, LoopTypeOK
<1>2. CASE CreateApp
  <2>1. pc = "create" /\ idx' = idx + 1 /\ idx \in Apps /\ b # idx /\ b >= idx
    BY <1>1, <1>2 DEF CreateApp, Apps
  <2>2. app'[b] = app[b]
    BY <1>1, <1>2, <2>1
    DEF CreateApp, AppCreate, AppCreateFails, RuntimeStart, RuntimeFails
  <2> QED
    BY <2>1, <2>2 DEF NotCreated, Running
<1>3. CASE ~CreateApp
  <2>1. pc = "create" /\ idx' = idx
    BY <1>3
    DEF Next, Daemon, MainStep, LogStep, Bind, Poll, AcceptAll, HandleSignal,
        HandleListener, HandleConn, HandleApp, Handling, ServeRequest, FinishRequest,
        EventsDone, RestartApp, RestartDone, ShutdownApp, ShutdownDone, Check,
        LogAcceptAll, PushUpdates, HandleLog, Environment, MainEnvironment, Sigint,
        LogEnvironment, Done, vars, loopVars
  <2>2. UNCHANGED app \/ \E a \in Apps : DelayElapses(a)
    BY <1>3, <2>1
    DEF Next, Daemon, MainStep, LogStep, Bind, Poll, AcceptAll, HandleSignal,
        HandleListener, HandleConn, HandleApp, Handling, ServeRequest, FinishRequest,
        EventsDone, RestartApp, RestartDone, ShutdownApp, ShutdownDone, Check,
        LogAcceptAll, PushUpdates, HandleLog, Environment, MainEnvironment, Sigint,
        LogEnvironment, Done, ProcExit, ProcFork, ProcOutput, ClientStep, vars, appVars
  <2>3. \A r \in AppRecord : [r EXCEPT !.restart_deadline = "due"].state = r.state
    BY DEF AppRecord
  <2>4. app'[b].state = app[b].state
    BY <1>1, <2>2, <2>3 DEF DelayElapses
  <2> QED
    BY <2>1, <2>4 DEF NotCreated, Running
<1> QED
  BY <1>2, <1>3

(* Initially every token is vacant. *)
LEMMA CountInit == Init => CountInv
<1> SUFFICES ASSUME Init PROVE CountInv
  OBVIOUS
<1>1. NewApp.state = "stopped" /\ NoConn.client = NoClient
  BY DEF NewApp, NoConn, NewConn
<1>2. RunningApps = {} /\ Connected = {} /\ logs = {} /\ vacant = SlabOrder
  BY <1>1
  DEF Init, AppInit, SlabInit, IpcInit, LogInit, RunningApps, Running, Connected, IsKnown
<1>3. Cardinality({}) = 0 /\ Len(SlabOrder) \in Nat
  BY FS_EmptySet, TokensAssumption
<1>4. SlabCounted /\ ConnectionsBounded
  BY <1>2, <1>3, IpcAssumption, LogConnsAssumption DEF SlabCounted, ConnectionsBounded
<1> QED
  BY <1>2, <1>4, TokensAssumption DEF CountInv, SlabOwned, NotCreated, RunningApps

(* CountInv holds throughout, under those two conditions. *)
LEMMA SpecCount ==
    ASSUME "register" \notin Faults, EnoughTokens
    PROVE  Spec => []CountInv
<1>1. CountInv /\ IndInv /\ TokenOwnership /\ [Next]_vars => CountInv'
  BY SlabStep, MovesOwned, MovesCounted, NotCreatedStep DEF CountInv
<1> QED
  BY <1>1, CountInit, SpecInd, TokensOwned, PTL DEF Spec

(* No token is ever lost, and both sockets keep to their limits, when the slab
   has a token for everything that may need one at a time (max_mio_tokens is at
   least three per application, and one per connection that may be open) and no
   registration with epoll fails: every start, stop, accept and close gives back
   what it took.  A failed registration, or a start that runs out of tokens half
   way, does lose them. *)
THEOREM NoTokenLost ==
    ASSUME "register" \notin Faults,
           Len(SlabOrder) >= 3 * NumApps + MaxConnections + MaxLogConnections
    PROVE  Spec => []TokensAccounted
<1>1. EnoughTokens
  BY DEF EnoughTokens
<1>2. IndInv /\ CountInv => TokensAccounted
  <2> SUFFICES ASSUME IndInv, CountInv PROVE TokensAccounted
    OBVIOUS
  <2>1. /\ Range(vacant) \subseteq Tokens /\ Connected \subseteq Tokens
        /\ logs \subseteq Tokens
    BY DEF IndInv, CoreInv, SlabTypeOK, LogTypeOK, Connected, Range
  <2>2. \A a \in Apps : OwnTokens(a) \subseteq Tokens
    BY DEF IndInv, CoreInv, AppInv, RuntimesHoldTokens, OwnTokens, Range
  <2>3. UNION {OwnTokens(a) : a \in Apps} \subseteq Tokens
    BY <2>2
  <2>4. Tokens \subseteq Range(vacant) \cup Connected \cup logs
                            \cup UNION {OwnTokens(a) : a \in Apps}
    BY DEF CountInv, SlabOwned
  <2> QED
    BY <2>1, <2>3, <2>4 DEF TokensAccounted
<1> QED
  BY <1>1, <1>2, SpecInd, SpecCount, PTL
=============================================================================
