------------------------- MODULE ConnectionsProofs -------------------------
(***************************************************************************)
(* The pool of the MySQL and StarRocks connectors, for any number of       *)
(* threads, connections, pools and attempts, and the attempts of one       *)
(* operation.  Read against src/app/connectors/mysql.py, starrocks.py and  *)
(* postgresql.py.                                                          *)
(*                                                                         *)
(* A connection has one holder, although threads return connections to     *)
(* whatever pool the connector has by then.  What makes it inductive is    *)
(* that a thread holds a connection exactly in the places of an attempt    *)
(* that use one (Control), that no two pools share one either (Apart), and *)
(* that whatever is held or idle has not been closed, so that a connection *)
(* created anew is nobody's (InUse).                                       *)
(*                                                                         *)
(* On that rest the slots: as long as the connector has been opened once,  *)
(* _created is the number of connections there are, in every order in      *)
(* which threads and the owner create, return, discard and drain them      *)
(* (Counted); what nobody may use again is nowhere to be had (Buried);     *)
(* and a committed result is on its way to the caller (Delivered).         *)
(*                                                                         *)
(* An operation is late by the shares of its limit that its statements     *)
(* have had so far (CallBounded), and which connection serves it follows   *)
(* from the snapshot (CallServed).                                         *)
(*                                                                         *)
(* Side by side they keep their types, the pool of StarRocks included,     *)
(* which puts a connection back after a failure (StarInv).                 *)
(***************************************************************************)
EXTENDS MCConnections, FiniteSetTheorems, TLAPS

(* Where threads and the owner are says what they have in their hands.     *)
Control ==
    /\ \A t \in Threads :
           (held[t] # None) <=> pc[t] \in {"begin", "run", "putback", "put"}
    /\ \A t \in Threads :
           pc[t] \in {"get", "grow", "wait", "put"} => using[t] \in Pools
    /\ owner \in {"fill", "here", "drain"} => pool \in Pools
    /\ pool # None => pool \in Pools

(* Threads and pools never share a connection.                             *)
Apart ==
    /\ \A t, u \in Threads : held[t] # None /\ held[t] = held[u] => t = u
    /\ \A p \in Pools : \A i \in 1..Len(idle[p]) : \A t \in Threads :
           idle[p][i] # held[t]
    /\ \A p, q \in Pools : \A i \in 1..Len(idle[p]), j \in 1..Len(idle[q]) :
           idle[p][i] = idle[q][j] => p = q /\ i = j

(* What somebody has is not closed.                                        *)
InUse ==
    /\ \A t \in Threads : held[t] # None => conn[held[t]] # "closed"
    /\ \A p \in Pools : \A i \in 1..Len(idle[p]) :
           conn[idle[p][i]] # "closed"

IInv == TypeOK /\ Control /\ Apart /\ InUse

-----------------------------------------------------------------------------
(* What a step does to the connections                                     *)

(* No connection that somebody other than the thread t has is closed.      *)
OthersOpen(t) ==
    \A c \in Conns : c # held[t] /\ conn'[c] = "closed" => conn[c] = "closed"

Keeps ==
    /\ idle' = idle /\ held' = held
    /\ \A c \in Conns : conn'[c] = "closed" => conn[c] = "closed"

Drops(t) ==
    /\ idle' = idle /\ held' = [held EXCEPT ![t] = None] /\ OthersOpen(t)

Creates(c) == conn[c] = "closed" /\ conn' = [conn EXCEPT ![c] = "ok"]

Gets(t, c) ==
    /\ Creates(c) /\ held' = [held EXCEPT ![t] = c] /\ idle' = idle

Adds(p, c) ==
    /\ Creates(c) /\ idle' = [idle EXCEPT ![p] = Append(@, c)]
    /\ held' = held

Takes(t, p) ==
    /\ idle[p] # <<>> /\ held' = [held EXCEPT ![t] = Head(idle[p])]
    /\ idle' = [idle EXCEPT ![p] = Tail(@)] /\ conn' = conn

Puts(t, p) ==
    /\ held[t] # None /\ held' = [held EXCEPT ![t] = None]
    /\ idle' = [idle EXCEPT ![p] = Append(@, held[t])] /\ conn' = conn

Drains(p) ==
    /\ idle[p] # <<>> /\ idle' = [idle EXCEPT ![p] = Tail(@)]
    /\ conn' = [conn EXCEPT ![Head(idle[p])] = "closed"] /\ held' = held

Effect ==
    \/ Keeps
    \/ \E t \in Threads : Drops(t)
    \/ \E t \in Threads, c \in Conns : Gets(t, c)
    \/ \E p \in Pools, c \in Conns : Adds(p, c)
    \/ \E t \in Threads, p \in Pools : Takes(t, p) \/ Puts(t, p)
    \/ \E p \in Pools : Drains(p)

LEMMA EndsEffect ==
    ASSUME TypeOK, NEW t \in Threads, NEW how \in {"ok", "again", "fatal"},
           Ends(t, how), PoolAssumption
    PROVE  /\ held' = [held EXCEPT ![t] = None]
           /\ using' = [using EXCEPT ![t] = None]
           /\ \E place \in {"borrow", "out"} : pc' = [pc EXCEPT ![t] = place]
           /\ pending' \in [Threads -> {"ok", "again", "fatal"}]
           /\ retry' \in [Threads -> 0..Retries]
           /\ answer' \in [Threads -> {"none", "rows", "error"}]
<1>1. /\ held' = [held EXCEPT ![t] = None]
      /\ using' = [using EXCEPT ![t] = None]
      /\ pending' = [pending EXCEPT ![t] = "ok"]
  BY DEF Ends, Forgets
<1>2. CASE how = "again" /\ kind[t] = "execute" /\ retry[t] < Retries
  <2>1. /\ retry' = [retry EXCEPT ![t] = @ + 1]
        /\ pc' = [pc EXCEPT ![t] = "borrow"] /\ answer' = answer
    BY <1>2 DEF Ends
  <2>2. retry[t] \in 0..Retries /\ retry[t] + 1 \in 0..Retries
    BY <1>2 DEF TypeOK, PoolAssumption
  <2> QED
    BY <1>1, <2>1, <2>2 DEF TypeOK
<1>3. CASE ~(how = "again" /\ kind[t] = "execute" /\ retry[t] < Retries)
  <2>1. /\ retry' = retry /\ pc' = [pc EXCEPT ![t] = "out"]
        /\ answer' = [answer EXCEPT ![t] = IF how = "ok" THEN "rows"
                                           ELSE "error"]
    BY <1>3 DEF Ends
  <2> QED
    BY <1>1, <2>1 DEF TypeOK
<1> QED
  BY <1>2, <1>3

LEMMA EndsTypes ==
    ASSUME TypeOK, NEW t \in Threads, NEW how \in {"ok", "again", "fatal"},
           Ends(t, how), PoolAssumption
    PROVE  /\ pc' \in [Threads -> {"out", "borrow", "get", "grow", "wait",
                                   "begin", "run", "putback", "put"}]
           /\ using' \in [Threads -> Pools \cup {None}]
           /\ held' \in [Threads -> Conns \cup {None}]
           /\ retry' \in [Threads -> 0..Retries]
           /\ pending' \in [Threads -> {"ok", "again", "fatal"}]
           /\ answer' \in [Threads -> {"none", "rows", "error"}]
<1>1. PICK place \in {"borrow", "out"} : pc' = [pc EXCEPT ![t] = place]
  BY EndsEffect
<1>2. /\ held' = [held EXCEPT ![t] = None]
      /\ using' = [using EXCEPT ![t] = None]
  BY EndsEffect
<1>3. /\ retry' \in [Threads -> 0..Retries]
      /\ pending' \in [Threads -> {"ok", "again", "fatal"}]
      /\ answer' \in [Threads -> {"none", "rows", "error"}]
  BY EndsEffect
<1> QED
  BY <1>1, <1>2, <1>3 DEF TypeOK

(* An attempt that is over leaves the thread as Control wants it.          *)
LEMMA EndsControl ==
    ASSUME TypeOK, Control, PoolAssumption, NEW t \in Threads,
           NEW how \in {"ok", "again", "fatal"}, Ends(t, how),
           UNCHANGED <<owner, pool>>
    PROVE  Control'
<1>1. PICK place \in {"borrow", "out"} :
          /\ held' = [held EXCEPT ![t] = None]
          /\ using' = [using EXCEPT ![t] = None]
          /\ pc' = [pc EXCEPT ![t] = place]
  BY EndsEffect
<1>2. \A u \in Threads : u # t =>
          /\ held'[u] = held[u] /\ pc'[u] = pc[u] /\ using'[u] = using[u]
  BY <1>1 DEF TypeOK
<1>3. held'[t] = None /\ pc'[t] = place
  BY <1>1 DEF TypeOK
<1> QED
  BY <1>1, <1>2, <1>3 DEF Control

(* A thread that goes on and keeps what it has.                            *)
LEMMA GoesControl ==
    ASSUME TypeOK, Control, NEW t \in Threads, NEW place, Goes(t, place),
           UNCHANGED <<held, using, owner, pool>>,
           place \in {"begin", "run", "putback", "put"} <=>
               pc[t] \in {"begin", "run", "putback", "put"},
           place \in {"get", "grow", "wait", "put"} => using[t] \in Pools
    PROVE  Control'
<1>1. /\ pc'[t] = place
      /\ \A u \in Threads : u # t => pc'[u] = pc[u]
  BY DEF Goes, TypeOK
<1> QED
  BY <1>1 DEF Control

-----------------------------------------------------------------------------
(* No effect gives a connection two holders                                *)

(* A connection is in one place of one pool.                               *)
LEMMA OnePlace ==
    ASSUME IInv, NEW p \in Pools, NEW i \in 1..Len(idle[p]),
           NEW q \in Pools, NEW j \in 1..Len(idle[q]),
           idle[p][i] = idle[q][j]
    PROVE  p = q /\ i = j
<1>1. \A b, d \in Pools : \A n \in 1..Len(idle[b]), m \in 1..Len(idle[d]) :
         idle[b][n] = idle[d][m] => b = d /\ n = m
  BY DEF IInv, Apart
<1> QED
  BY <1>1, Zenon

LEMMA EffectApart ==
    ASSUME PoolAssumption, IInv, TypeOK', Effect
    PROVE  (Apart /\ InUse)'
<1>1. /\ None \notin Conns
      /\ \A t \in Threads : held[t] \in Conns \union {None}
      /\ \A p \in Pools : /\ idle[p] \in Seq(Conns) /\ Len(idle[p]) \in Nat
                          /\ \A i \in 1..Len(idle[p]) : idle[p][i] \in Conns
  BY DEF IInv, TypeOK, PoolAssumption
<1>2. CASE Keeps
  BY <1>1, <1>2 DEF Keeps, IInv, Apart, InUse
<1>3. ASSUME NEW t \in Threads, Drops(t) PROVE (Apart /\ InUse)'
  <2>1. /\ held'[t] = None
        /\ \A u \in Threads : u # t => held'[u] = held[u]
        /\ idle' = idle
    BY <1>3 DEF Drops, IInv, TypeOK
  <2>2. Apart'
    BY <1>1, <2>1 DEF IInv, Apart
  <2>3. \A u \in Threads : held'[u] # None => conn'[held'[u]] # "closed"
    BY <1>1, <1>3, <2>1 DEF Drops, OthersOpen, IInv, Apart, InUse
  <2>4. \A p \in Pools : \A i \in 1..Len(idle'[p]) :
            conn'[idle'[p][i]] # "closed"
    BY <1>1, <1>3, <2>1 DEF Drops, OthersOpen, IInv, Apart, InUse
  <2> QED
    BY <2>2, <2>3, <2>4 DEF InUse
<1>4. ASSUME NEW t \in Threads, NEW c \in Conns, Gets(t, c)
      PROVE  (Apart /\ InUse)'
  <2>1. /\ held'[t] = c /\ conn[c] = "closed" /\ idle' = idle
        /\ \A u \in Threads : u # t => held'[u] = held[u]
        /\ conn'[c] = "ok" /\ \A d \in Conns : d # c => conn'[d] = conn[d]
    BY <1>4 DEF Gets, Creates, IInv, TypeOK
  <2>2. /\ \A u \in Threads : held[u] # c
        /\ \A p \in Pools : \A i \in 1..Len(idle[p]) : idle[p][i] # c
    BY <1>1, <2>1 DEF IInv, InUse
  <2> QED
    BY <1>1, <2>1, <2>2 DEF IInv, Apart, InUse
<1>5. ASSUME NEW p \in Pools, NEW c \in Conns, Adds(p, c)
      PROVE  (Apart /\ InUse)'
  <2>1. /\ held' = held /\ conn[c] = "closed"
        /\ idle'[p] = Append(idle[p], c)
        /\ \A q \in Pools : q # p => idle'[q] = idle[q]
        /\ conn'[c] = "ok" /\ \A d \in Conns : d # c => conn'[d] = conn[d]
    BY <1>5 DEF Adds, Creates, IInv, TypeOK
  <2>2. /\ Len(idle'[p]) = Len(idle[p]) + 1
        /\ idle'[p][Len(idle[p]) + 1] = c
        /\ \A i \in 1..Len(idle[p]) : idle'[p][i] = idle[p][i]
    BY <1>1, <2>1
  <2>3. ASSUME NEW q \in Pools, NEW i \in 1..Len(idle'[q])
        PROVE  \/ i \in 1..Len(idle[q]) /\ idle'[q][i] = idle[q][i]
               \/ q = p /\ i = Len(idle[p]) + 1 /\ idle'[q][i] = c
    <3>1. CASE q = p
      <4>1. i \in 1..Len(idle[p]) + 1
        BY <2>2, <3>1
      <4>2. i \in 1..Len(idle[p]) \/ i = Len(idle[p]) + 1
        BY <1>1, <4>1
      <4> QED
        BY <2>2, <3>1, <4>2
    <3>2. CASE q # p
      BY <2>1, <3>2
    <3> QED
      BY <3>1, <3>2
  <2>4. /\ \A u \in Threads : held[u] # c
        /\ \A q \in Pools : \A i \in 1..Len(idle[q]) : idle[q][i] # c
    BY <1>1, <2>1 DEF IInv, InUse
  <2>5. ASSUME NEW q \in Pools, NEW i \in 1..Len(idle'[q])
        PROVE  /\ \A t \in Threads : idle'[q][i] # held'[t]
               /\ conn'[idle'[q][i]] # "closed"
    BY <1>1, <2>1, <2>3, <2>4 DEF IInv, Apart, InUse
  <2>6. ASSUME NEW q \in Pools, NEW i \in 1..Len(idle'[q]),
               NEW r \in Pools, NEW k \in 1..Len(idle'[r]),
               idle'[q][i] = idle'[r][k]
        PROVE  q = r /\ i = k
    <3> DEFINE Old(b, j) == j \in 1..Len(idle[b]) /\ idle'[b][j] = idle[b][j]
               New(b, j) == b = p /\ j = Len(idle[p]) + 1 /\ idle'[b][j] = c
    <3>1. (Old(q, i) \/ New(q, i)) /\ (Old(r, k) \/ New(r, k))
      BY <2>3
    <3>2. CASE Old(q, i) /\ Old(r, k)
      <4>1. idle[q][i] = idle[r][k]
        BY <2>6, <3>2
      <4>2. i \in 1..Len(idle[q]) /\ k \in 1..Len(idle[r])
        BY <3>2
      <4> QED
        BY <4>1, <4>2, OnePlace
    <3>3. ~(Old(q, i) /\ New(r, k)) /\ ~(New(q, i) /\ Old(r, k))
      BY <2>4, <2>6
    <3>4. CASE New(q, i) /\ New(r, k)
      BY <3>4
    <3> HIDE DEF Old, New
    <3> QED
      BY <3>1, <3>2, <3>3, <3>4
  <2>7. /\ \A t, u \in Threads : held'[t] # None /\ held'[t] = held'[u]
                                   => t = u
        /\ \A t \in Threads : held'[t] # None => conn'[held'[t]] # "closed"
    BY <1>1, <2>1, <2>4 DEF IInv, Apart, InUse
  <2> QED
    BY <2>5, <2>6, <2>7 DEF Apart, InUse
<1>6. ASSUME NEW t \in Threads, NEW p \in Pools, Takes(t, p)
      PROVE  (Apart /\ InUse)'
  <2>1. /\ held'[t] = idle[p][1] /\ conn' = conn /\ Len(idle[p]) >= 1
        /\ \A u \in Threads : u # t => held'[u] = held[u]
        /\ \A q \in Pools : q # p => idle'[q] = idle[q]
        /\ idle'[p] = Tail(idle[p])
    BY <1>1, <1>6 DEF Takes, IInv, TypeOK
  <2>2. /\ Len(idle'[p]) = Len(idle[p]) - 1
        /\ \A i \in 1..Len(idle'[p]) : /\ idle'[p][i] = idle[p][i + 1]
                                      /\ i + 1 \in 2..Len(idle[p])
    BY <1>1, <2>1
  <2>3. ASSUME NEW q \in Pools, NEW i \in 1..Len(idle'[q])
        PROVE  \E k \in 1..Len(idle[q]) :
                   /\ idle'[q][i] = idle[q][k]
                   /\ k = IF q = p THEN i + 1 ELSE i
    <3>1. CASE q = p
      <4>1. i \in 1..Len(idle'[p])
        BY <3>1
      <4>2. /\ idle'[p][i] = idle[p][i + 1]
            /\ i + 1 \in 1..Len(idle[p])
        BY <1>1, <2>2, <4>1
      <4> QED
        BY <3>1, <4>2
    <3>2. CASE q # p
      BY <2>1, <3>2
    <3> QED
      BY <3>1, <3>2
  <2>4. /\ idle[p][1] \in Conns
        /\ \A u \in Threads : held[u] # idle[p][1]
        /\ \A q \in Pools : \A i \in 1..Len(idle[q]) :
               idle[q][i] = idle[p][1] => q = p /\ i = 1
    <3>1. 1 \in 1..Len(idle[p])
      BY <1>1, <2>1
    <3> QED
      BY <1>1, <3>1 DEF IInv, Apart
  <2>5. ASSUME NEW q \in Pools, NEW i \in 1..Len(idle'[q])
        PROVE  /\ idle'[q][i] \in Conns /\ idle'[q][i] # idle[p][1]
               /\ \A u \in Threads : idle'[q][i] # held'[u]
               /\ conn'[idle'[q][i]] # "closed"
    <3>1. PICK k \in 1..Len(idle[q]) :
              /\ idle'[q][i] = idle[q][k]
              /\ k = IF q = p THEN i + 1 ELSE i
      BY <2>3
    <3>2. idle[q][k] \in Conns /\ ~(q = p /\ k = 1)
      BY <1>1, <3>1
    <3>3. idle'[q][i] \in Conns /\ idle'[q][i] # idle[p][1]
      BY <2>4, <3>1, <3>2
    <3>4. /\ \A u \in Threads : idle[q][k] # held[u]
          /\ conn[idle[q][k]] # "closed"
      BY <1>1 DEF IInv, Apart, InUse
    <3> QED
      BY <2>1, <3>1, <3>3, <3>4
  <2>6. ASSUME NEW q \in Pools, NEW i \in 1..Len(idle'[q]),
               NEW r \in Pools, NEW k \in 1..Len(idle'[r]),
               idle'[q][i] = idle'[r][k]
        PROVE  q = r /\ i = k
    <3>1. PICK m \in 1..Len(idle[q]) :
              /\ idle'[q][i] = idle[q][m]
              /\ m = IF q = p THEN i + 1 ELSE i
      BY <2>3
    <3>2. PICK n \in 1..Len(idle[r]) :
              /\ idle'[r][k] = idle[r][n]
              /\ n = IF r = p THEN k + 1 ELSE k
      BY <2>3
    <3>3. q = r /\ m = n
      <4>1. idle[q][m] = idle[r][n]
        BY <2>6, <3>1, <3>2
      <4> QED
        BY <4>1, OnePlace
    <3> QED
      BY <3>1, <3>2, <3>3
  <2>7. /\ \A u, w \in Threads : held'[u] # None /\ held'[u] = held'[w]
                                   => u = w
        /\ \A u \in Threads : held'[u] # None => conn'[held'[u]] # "closed"
    BY <1>1, <2>1, <2>4 DEF IInv, Apart, InUse
  <2> QED
    BY <2>5, <2>6, <2>7 DEF Apart, InUse
<1>7. ASSUME NEW t \in Threads, NEW p \in Pools, Puts(t, p)
      PROVE  (Apart /\ InUse)'
  <2>1. /\ held'[t] = None /\ held[t] \in Conns /\ conn' = conn
        /\ \A u \in Threads : u # t => held'[u] = held[u]
        /\ \A q \in Pools : q # p => idle'[q] = idle[q]
        /\ idle'[p] = Append(idle[p], held[t])
    BY <1>1, <1>7 DEF Puts, IInv, TypeOK
  <2>2. /\ Len(idle'[p]) = Len(idle[p]) + 1
        /\ idle'[p][Len(idle[p]) + 1] = held[t]
        /\ \A i \in 1..Len(idle[p]) : idle'[p][i] = idle[p][i]
    BY <1>1, <2>1
  <2>3. ASSUME NEW q \in Pools, NEW i \in 1..Len(idle'[q])
        PROVE  \/ i \in 1..Len(idle[q]) /\ idle'[q][i] = idle[q][i]
               \/ q = p /\ i = Len(idle[p]) + 1 /\ idle'[q][i] = held[t]
    <3>1. CASE q = p
      <4>1. i \in 1..Len(idle[p]) + 1
        BY <2>2, <3>1
      <4>2. i \in 1..Len(idle[p]) \/ i = Len(idle[p]) + 1
        BY <1>1, <4>1
      <4> QED
        BY <2>2, <3>1, <4>2
    <3>2. CASE q # p
      BY <2>1, <3>2
    <3> QED
      BY <3>1, <3>2
  <2>4. /\ \A u \in Threads : u # t => held[u] # held[t]
        /\ \A q \in Pools : \A i \in 1..Len(idle[q]) : idle[q][i] # held[t]
        /\ conn[held[t]] # "closed"
    BY <1>1, <2>1 DEF IInv, Apart, InUse
  <2>5. ASSUME NEW q \in Pools, NEW i \in 1..Len(idle'[q])
        PROVE  /\ \A u \in Threads : idle'[q][i] # held'[u]
               /\ conn'[idle'[q][i]] # "closed"
    BY <1>1, <2>1, <2>3, <2>4 DEF IInv, Apart, InUse
  <2>6. ASSUME NEW q \in Pools, NEW i \in 1..Len(idle'[q]),
               NEW r \in Pools, NEW k \in 1..Len(idle'[r]),
               idle'[q][i] = idle'[r][k]
        PROVE  q = r /\ i = k
    BY <2>3, <2>4, <2>6 DEF IInv, Apart
  <2>7. /\ \A u, w \in Threads : held'[u] # None /\ held'[u] = held'[w]
                                   => u = w
        /\ \A u \in Threads : held'[u] # None => conn'[held'[u]] # "closed"
    BY <1>1, <2>1, <2>4 DEF IInv, Apart, InUse
  <2> QED
    BY <2>5, <2>6, <2>7 DEF Apart, InUse
<1>8. ASSUME NEW p \in Pools, Drains(p) PROVE (Apart /\ InUse)'
  <2>1. /\ held' = held /\ Len(idle[p]) >= 1
        /\ \A q \in Pools : q # p => idle'[q] = idle[q]
        /\ idle'[p] = Tail(idle[p])
        /\ \A d \in Conns : d # idle[p][1] => conn'[d] = conn[d]
    BY <1>1, <1>8 DEF Drains, IInv, TypeOK
  <2>2. /\ Len(idle'[p]) = Len(idle[p]) - 1
        /\ \A i \in 1..Len(idle'[p]) : /\ idle'[p][i] = idle[p][i + 1]
                                      /\ i + 1 \in 2..Len(idle[p])
    BY <1>1, <2>1
  <2>3. ASSUME NEW q \in Pools, NEW i \in 1..Len(idle'[q])
        PROVE  \E k \in 1..Len(idle[q]) :
                   /\ idle'[q][i] = idle[q][k]
                   /\ k = IF q = p THEN i + 1 ELSE i
    <3>1. CASE q = p
      <4>1. i \in 1..Len(idle'[p])
        BY <3>1
      <4>2. /\ idle'[p][i] = idle[p][i + 1]
            /\ i + 1 \in 1..Len(idle[p])
        BY <1>1, <2>2, <4>1
      <4> QED
        BY <3>1, <4>2
    <3>2. CASE q # p
      BY <2>1, <3>2
    <3> QED
      BY <3>1, <3>2
  <2>4. /\ idle[p][1] \in Conns
        /\ \A u \in Threads : held[u] # idle[p][1]
        /\ \A q \in Pools : \A i \in 1..Len(idle[q]) :
               idle[q][i] = idle[p][1] => q = p /\ i = 1
    <3>1. 1 \in 1..Len(idle[p])
      BY <1>1, <2>1
    <3> QED
      BY <1>1, <3>1 DEF IInv, Apart
  <2>5. ASSUME NEW q \in Pools, NEW i \in 1..Len(idle'[q])
        PROVE  /\ idle'[q][i] \in Conns /\ idle'[q][i] # idle[p][1]
               /\ \A u \in Threads : idle'[q][i] # held'[u]
               /\ conn'[idle'[q][i]] # "closed"
    <3>1. PICK k \in 1..Len(idle[q]) :
              /\ idle'[q][i] = idle[q][k]
              /\ k = IF q = p THEN i + 1 ELSE i
      BY <2>3
    <3>2. idle[q][k] \in Conns /\ ~(q = p /\ k = 1)
      BY <1>1, <3>1
    <3>3. idle'[q][i] \in Conns /\ idle'[q][i] # idle[p][1]
      BY <2>4, <3>1, <3>2
    <3>4. /\ \A u \in Threads : idle[q][k] # held[u]
          /\ conn[idle[q][k]] # "closed"
      BY <1>1 DEF IInv, Apart, InUse
    <3> QED
      BY <2>1, <3>1, <3>3, <3>4
  <2>6. ASSUME NEW q \in Pools, NEW i \in 1..Len(idle'[q]),
               NEW r \in Pools, NEW k \in 1..Len(idle'[r]),
               idle'[q][i] = idle'[r][k]
        PROVE  q = r /\ i = k
    <3>1. PICK m \in 1..Len(idle[q]) :
              /\ idle'[q][i] = idle[q][m]
              /\ m = IF q = p THEN i + 1 ELSE i
      BY <2>3
    <3>2. PICK n \in 1..Len(idle[r]) :
              /\ idle'[r][k] = idle[r][n]
              /\ n = IF r = p THEN k + 1 ELSE k
      BY <2>3
    <3>3. q = r /\ m = n
      <4>1. idle[q][m] = idle[r][n]
        BY <2>6, <3>1, <3>2
      <4> QED
        BY <4>1, OnePlace
    <3> QED
      BY <3>1, <3>2, <3>3
  <2>7. /\ \A u, w \in Threads : held'[u] # None /\ held'[u] = held'[w]
                                   => u = w
        /\ \A u \in Threads : held'[u] # None => conn'[held'[u]] # "closed"
    BY <1>1, <2>1, <2>4 DEF IInv, Apart, InUse
  <2> QED
    BY <2>5, <2>6, <2>7 DEF Apart, InUse
<1> QED
  BY <1>2, <1>3, <1>4, <1>5, <1>6, <1>7, <1>8 DEF Effect

-----------------------------------------------------------------------------
(* Every step has one of the effects, and keeps Control                    *)

LEMMA UnusableKept ==
    ASSUME PoolAssumption, IInv, NEW t \in Threads,
           NEW how \in {"ok", "again", "fatal"},
           pc[t] \in {"begin", "run"}, Unusable(t, how)
    PROVE  TypeOK' /\ Control' /\ Effect
<1>1. /\ TypeOK /\ Control /\ held[t] \in Conns
      /\ UNCHANGED <<pool, opens, filled, owner, idle, closed, kind,
                     committed>>
  BY DEF IInv, Control, TypeOK, Unusable
<1>2. CASE Discards /\ pool # None
  <2>1. Discard(pool, held[t]) /\ Ends(t, how) /\ pool \in Pools
    BY <1>1, <1>2 DEF Unusable, Control
  <2>2. Control'
    BY <1>1, <2>1, EndsControl
  <2>3. Drops(t)
    BY <1>1, <2>1, EndsEffect DEF Drops, OthersOpen, Discard, TypeOK
  <2>4. created' \in [Pools -> Nat] /\ conn' \in [Conns -> {"ok", "lost",
                                                    "dead", "closed"}]
    BY <1>1, <2>1 DEF Discard, TypeOK
  <2>5. TypeOK'
    BY <1>1, <2>1, <2>4, EndsTypes DEF TypeOK
  <2> QED
    BY <2>2, <2>3, <2>5 DEF Effect
<1>3. CASE Discards /\ pool = None
  <2>1. /\ Ends(t, "again") /\ created' = created
        /\ conn' = [conn EXCEPT ![held[t]] = IF @ = "lost" THEN "dead"
                                             ELSE @]
    BY <1>3 DEF Unusable
  <2>2. Control'
    BY <1>1, <2>1, EndsControl
  <2>3. Drops(t)
    BY <1>1, <2>1, EndsEffect DEF Drops, OthersOpen, TypeOK
  <2>4. TypeOK'
    BY <1>1, <2>1, EndsTypes DEF TypeOK
  <2> QED
    BY <2>2, <2>3, <2>4 DEF Effect
<1>4. CASE ~Discards
  <2>1. /\ Goes(t, "putback") /\ UNCHANGED <<held, using, created, retry,
                                            answer>>
        /\ conn' = [conn EXCEPT ![held[t]] = IF @ = "lost" THEN "dead"
                                             ELSE @]
        /\ pending' = [pending EXCEPT ![t] = how]
    BY <1>4 DEF Unusable
  <2>2. Control'
    BY <1>1, <2>1, GoesControl
  <2>3. Keeps
    BY <1>1, <2>1 DEF Keeps, TypeOK
  <2>4. TypeOK'
    BY <1>1, <2>1 DEF Goes, TypeOK
  <2> QED
    BY <2>2, <2>3, <2>4 DEF Effect
<1> QED
  BY <1>2, <1>3, <1>4 DEF PoolAssumption

(* The owner's steps and the loss of a connection.                         *)
LEMMA OwnerKept ==
    ASSUME PoolAssumption, IInv, Owner \/ \E c \in Conns : Lose(c)
    PROVE  TypeOK' /\ Control' /\ Effect
<1>1. TypeOK /\ Control
  BY DEF IInv
<1>2. CASE Open
  <2>1. Control' /\ Keeps
    BY <1>1, <1>2
       DEF Open, threadVars, Control, Keeps, Pools, PoolAssumption, TypeOK
  <2>2. TypeOK'
    BY <1>1, <1>2 DEF Open, threadVars, TypeOK, Pools, PoolAssumption
  <2> QED
    BY <2>1, <2>2 DEF Effect
<1>3. CASE Fill
  <2>1. PICK c \in Conns :
            /\ conn[c] = "closed" /\ conn' = [conn EXCEPT ![c] = "ok"]
            /\ idle' = [idle EXCEPT ![pool] = Append(@, c)]
            /\ created' = [created EXCEPT ![pool] = @ + 1]
    BY <1>3 DEF Fill
  <2>2. /\ pool \in Pools /\ filled' \in 0..MinSize
        /\ UNCHANGED <<pool, opens, owner, closed, threadVars>>
    BY <1>1, <1>3 DEF Fill, Control, TypeOK, PoolAssumption
  <2>3. PICK p \in Pools : p = pool
    BY <2>2
  <2>4. Adds(p, c)
    BY <2>1, <2>2, <2>3 DEF Adds, Creates, threadVars
  <2>5. Control'
    BY <1>1, <2>2 DEF Control, threadVars
  <2>6. TypeOK'
    BY <1>1, <2>1, <2>2 DEF TypeOK, threadVars
  <2> QED
    BY <2>3, <2>4, <2>5, <2>6 DEF Effect
<1>4. CASE Opened \/ Close
  <2>1. Control' /\ Keeps
    BY <1>1, <1>4 DEF Opened, Close, threadVars, Control, Keeps
  <2>2. TypeOK'
    <3>1. 0 \in 0..MinSize
      BY DEF PoolAssumption
    <3>2. CASE Opened
      BY <1>1, <3>1, <3>2 DEF Opened, threadVars, TypeOK
    <3>3. CASE Close
      BY <1>1, <3>3 DEF Close, threadVars, TypeOK
    <3> QED
      BY <1>4, <3>2, <3>3
  <2> QED
    BY <2>1, <2>2 DEF Effect
<1>5. CASE Drain
  <2>1. /\ pool \in Pools /\ idle[pool] # <<>>
        /\ idle[pool] \in Seq(Conns) /\ Head(idle[pool]) \in Conns
        /\ Tail(idle[pool]) \in Seq(Conns)
    BY <1>1, <1>5 DEF Drain, Control, TypeOK
  <2>2. /\ idle' = [idle EXCEPT ![pool] = Tail(@)]
        /\ conn' = [conn EXCEPT ![Head(idle[pool])] = "closed"]
        /\ UNCHANGED <<pool, opens, filled, owner, closed, threadVars>>
        /\ created' = [created EXCEPT ![pool] = IF @ = 0 THEN 0 ELSE @ - 1]
    BY <1>5 DEF Drain, Discard
  <2>3. PICK p \in Pools : p = pool
    BY <2>1
  <2>4. Drains(p)
    BY <2>1, <2>2, <2>3 DEF Drains, threadVars
  <2>5. Control'
    BY <1>1, <2>2 DEF Control, threadVars
  <2>6. TypeOK'
    BY <1>1, <2>1, <2>2 DEF TypeOK, threadVars
  <2> QED
    BY <2>3, <2>4, <2>5, <2>6 DEF Effect
<1>6. CASE Closed
  <2>1. Control' /\ Keeps
    BY <1>1, <1>6 DEF Closed, threadVars, Control, Keeps
  <2>2. TypeOK'
    BY <1>1, <1>6 DEF Closed, threadVars, TypeOK
  <2> QED
    BY <2>1, <2>2 DEF Effect
<1>7. ASSUME NEW c \in Conns, Lose(c) PROVE TypeOK' /\ Control' /\ Effect
  <2>1. Control' /\ Keeps
    BY <1>1, <1>7 DEF Lose, threadVars, Control, Keeps, TypeOK
  <2>2. TypeOK'
    BY <1>1, <1>7 DEF Lose, threadVars, TypeOK
  <2> QED
    BY <2>1, <2>2 DEF Effect
<1> QED
  BY <1>2, <1>3, <1>4, <1>5, <1>6, <1>7 DEF Owner

(* An attempt that ends where no connection is borrowed, and one that only *)
(* goes on.                                                                *)
LEMMA ThreadKept ==
    ASSUME PoolAssumption, IInv, NEW t \in Threads,
           \/ TimedOut(t) \/ Borrow(t) \/ NoneIdle(t) \/ GrowFails(t)
           \/ Full(t) \/ Exhausted(t) \/ Begin(t) \/ Run(t) \/ Refused(t)
    PROVE  TypeOK' /\ Control' /\ Effect
<1>1. TypeOK /\ Control
  BY DEF IInv
<1>2. ASSUME NEW how \in {"ok", "again", "fatal"}, Ends(t, how),
             UNCHANGED <<poolVars, kind, committed>>
      PROVE  TypeOK' /\ Control' /\ Effect
  <2>1. Control'
    BY <1>1, <1>2, EndsControl DEF poolVars
  <2>2. TypeOK'
    BY <1>1, <1>2, EndsTypes DEF poolVars, TypeOK
  <2>3. Drops(t)
    BY <1>1, <1>2, EndsEffect DEF poolVars, Drops, OthersOpen
  <2> QED
    BY <2>1, <2>2, <2>3 DEF Effect
<1>3. ASSUME NEW place \in {"get", "grow", "wait", "begin", "run",
                            "putback"},
             Goes(t, place), UNCHANGED <<poolVars, held, kind, retry, answer>>,
             using' \in {using, [using EXCEPT ![t] = pool]},
             pending' \in [Threads -> {"ok", "again", "fatal"}],
             committed' \in [Threads -> BOOLEAN],
             place \in {"begin", "run", "putback"} <=>
                 pc[t] \in {"begin", "run", "putback", "put"},
             place \in {"get", "grow", "wait"} => using'[t] \in Pools,
             pc[t] # "put"
      PROVE  TypeOK' /\ Control' /\ Effect
  <2>1. TypeOK'
    <3>1. pc' \in [Threads -> {"out", "borrow", "get", "grow", "wait",
                               "begin", "run", "putback", "put"}]
      BY <1>1, <1>3 DEF Goes, TypeOK
    <3>2. using' \in [Threads -> Pools \cup {None}]
      <4>1. /\ using \in [Threads -> Pools \cup {None}]
            /\ pool \in Pools \cup {None}
        BY <1>1 DEF TypeOK
      <4> QED
        BY <1>3, <4>1
    <3> QED
      BY <1>1, <1>3, <3>1, <3>2 DEF poolVars, TypeOK
  <2>2. /\ pc'[t] = place /\ held' = held /\ owner' = owner /\ pool' = pool
        /\ \A u \in Threads : u # t => pc'[u] = pc[u] /\ using'[u] = using[u]
    BY <1>1, <1>3 DEF Goes, poolVars, TypeOK
  <2>3. Control'
    BY <1>1, <1>3, <2>2 DEF Control
  <2>4. Keeps
    BY <1>3 DEF poolVars, Keeps
  <2> QED
    BY <2>1, <2>3, <2>4 DEF Effect
<1>4. CASE TimedOut(t)
  BY <1>2, <1>4 DEF TimedOut
<1>5. CASE Borrow(t)
  <2>1. CASE pool = None /\ Ends(t, "again")
    BY <1>2, <1>5, <2>1 DEF Borrow
  <2>2. CASE closed[pool] /\ Ends(t, "fatal")
    BY <1>2, <1>5, <2>2 DEF Borrow
  <2>3. CASE /\ pool # None /\ using' = [using EXCEPT ![t] = pool]
             /\ Goes(t, "get")
             /\ UNCHANGED <<held, retry, pending, answer>>
    <3>1. using'[t] \in Pools
      BY <1>1, <2>3 DEF Control, TypeOK
    <3> QED
      BY <1>1, <1>3, <1>5, <2>3, <3>1 DEF Borrow, TypeOK
  <2> QED
    BY <1>5, <2>1, <2>2, <2>3 DEF Borrow
<1>6. CASE NoneIdle(t)
  BY <1>1, <1>3, <1>6 DEF NoneIdle, Control, TypeOK
<1>7. CASE GrowFails(t)
  BY <1>2, <1>7 DEF GrowFails
<1>8. CASE Full(t)
  BY <1>1, <1>3, <1>8 DEF Full, Control, TypeOK
<1>9. CASE Exhausted(t)
  BY <1>2, <1>9 DEF Exhausted
<1>10. CASE Begin(t)
  BY <1>1, <1>3, <1>10 DEF Begin, Control, TypeOK
<1>11. CASE Run(t)
  <2>1. /\ pending' \in [Threads -> {"ok", "again", "fatal"}]
        /\ committed' \in [Threads -> BOOLEAN]
    BY <1>1, <1>11 DEF Run, TypeOK
  <2> QED
    BY <1>3, <1>11, <2>1 DEF Run
<1>12. CASE Refused(t)
  <2>1. /\ pending' \in [Threads -> {"ok", "again", "fatal"}]
        /\ committed' \in [Threads -> BOOLEAN]
    BY <1>1, <1>12 DEF Refused, TypeOK
  <2> QED
    BY <1>3, <1>12, <2>1 DEF Refused
<1> QED
  BY <1>4, <1>5, <1>6, <1>7, <1>8, <1>9, <1>10, <1>11, <1>12

(* A connection changes hands.                                             *)
LEMMA HandsKept ==
    ASSUME PoolAssumption, IInv, NEW t \in Threads,
           Take(t) \/ Grow(t) \/ PutBack(t) \/ Put(t) \/ PutFull(t)
    PROVE  TypeOK' /\ Control' /\ Effect
<1>1. TypeOK /\ Control /\ None \notin Conns
  BY DEF IInv, PoolAssumption
<1>2. ASSUME NEW c \in Conns, held' = [held EXCEPT ![t] = c],
             Goes(t, "begin"), UNCHANGED <<using, owner, pool>>
      PROVE  Control'
  <2>1. /\ held'[t] = c /\ pc'[t] = "begin"
        /\ \A u \in Threads : u # t => held'[u] = held[u] /\ pc'[u] = pc[u]
    BY <1>1, <1>2 DEF Goes, TypeOK
  <2> QED
    BY <1>1, <1>2, <2>1 DEF Control
<1>3. CASE Take(t)
  <2>1. PICK p \in Pools : p = using[t]
    BY <1>1, <1>3 DEF Take, Control
  <2>2. /\ idle[p] # <<>> /\ Head(idle[p]) \in Conns
        /\ Tail(idle[p]) \in Seq(Conns)
    BY <1>1, <1>3, <2>1 DEF Take, TypeOK
  <2>3. Takes(t, p)
    BY <1>3, <2>1, <2>2 DEF Take, Takes
  <2>4. Control'
    BY <1>2, <1>3, <2>1, <2>2 DEF Take
  <2>5. TypeOK'
    BY <1>1, <1>3, <2>1, <2>2 DEF Take, Goes, TypeOK
  <2> QED
    BY <2>1, <2>3, <2>4, <2>5 DEF Effect
<1>4. CASE Grow(t)
  <2>1. PICK c \in Conns :
            /\ conn[c] = "closed" /\ conn' = [conn EXCEPT ![c] = "ok"]
            /\ created' = [created EXCEPT ![using[t]] = @ + 1]
            /\ held' = [held EXCEPT ![t] = c]
    BY <1>4 DEF Grow
  <2>2. Gets(t, c) /\ using[t] \in Pools
    BY <1>1, <1>4, <2>1 DEF Grow, Gets, Creates, Control
  <2>3. Control'
    BY <1>2, <1>4, <2>1 DEF Grow
  <2>4. TypeOK'
    BY <1>1, <1>4, <2>1, <2>2 DEF Grow, Goes, TypeOK
  <2> QED
    BY <2>2, <2>3, <2>4 DEF Effect
<1>5. ASSUME NEW p \in Pools, NEW how \in {"ok", "again", "fatal"},
             Discard(p, held[t]), Ends(t, how), held[t] \in Conns,
             UNCHANGED <<pool, opens, filled, owner, idle, closed, kind,
                        committed>>
      PROVE  TypeOK' /\ Control' /\ Effect
  <2>1. Control'
    BY <1>1, <1>5, EndsControl
  <2>2. Drops(t)
    BY <1>1, <1>5, EndsEffect DEF Drops, OthersOpen, Discard, TypeOK
  <2>3. /\ created' \in [Pools -> Nat]
        /\ conn' \in [Conns -> {"ok", "lost", "dead", "closed"}]
    BY <1>1, <1>5 DEF Discard, TypeOK
  <2>4. TypeOK'
    BY <1>1, <1>5, <2>3, EndsTypes DEF TypeOK
  <2> QED
    BY <2>1, <2>2, <2>4 DEF Effect
<1>6. CASE PutBack(t)
  <2>1. /\ held[t] \in Conns /\ pending[t] \in {"ok", "again", "fatal"}
        /\ UNCHANGED <<pool, opens, filled, owner, idle, closed, kind,
                       committed>>
    BY <1>1, <1>6 DEF PutBack, Control, TypeOK
  <2>2. CASE pool = None /\ Ends(t, "again") /\ UNCHANGED <<created, conn>>
    <3>1. Control'
      BY <1>1, <2>1, <2>2, EndsControl
    <3>2. Drops(t)
      BY <1>1, <2>1, <2>2, EndsEffect DEF Drops, OthersOpen
    <3>3. TypeOK'
      BY <1>1, <2>1, <2>2, EndsTypes DEF TypeOK
    <3> QED
      BY <3>1, <3>2, <3>3 DEF Effect
  <2>3. CASE pool # None /\ Discard(pool, held[t]) /\ Ends(t, pending[t])
    <3>1. pool \in Pools
      BY <1>1, <2>3 DEF Control
    <3> QED
      BY <1>5, <2>1, <2>3, <3>1
  <2>4. CASE /\ pool # None /\ using' = [using EXCEPT ![t] = pool]
             /\ Goes(t, "put")
             /\ UNCHANGED <<held, retry, pending, answer, created, conn>>
    <3>1. /\ using'[t] \in Pools /\ pc'[t] = "put" /\ pc[t] = "putback"
          /\ \A u \in Threads : u # t =>
                 pc'[u] = pc[u] /\ using'[u] = using[u]
      BY <1>1, <1>6, <2>4 DEF PutBack, Control, Goes, TypeOK
    <3>2. Control'
      BY <1>1, <2>1, <2>4, <3>1 DEF Control
    <3>3. Keeps
      BY <2>1, <2>4 DEF Keeps
    <3>4. TypeOK'
      BY <1>1, <2>1, <2>4 DEF Goes, TypeOK
    <3> QED
      BY <3>2, <3>3, <3>4 DEF Effect
  <2> QED
    BY <1>6, <2>2, <2>3, <2>4 DEF PutBack
<1>7. CASE Put(t) \/ PutFull(t)
  <2>1. PICK p \in Pools : p = using[t]
    BY <1>1, <1>7 DEF Put, PutFull, Control
  <2>2. /\ held[t] \in Conns /\ pending[t] \in {"ok", "again", "fatal"}
    BY <1>1, <1>7 DEF Put, PutFull, Control, TypeOK
  <2>3. CASE Put(t)
    <3>1. /\ idle' = [idle EXCEPT ![p] = Append(@, held[t])]
          /\ Ends(t, pending[t])
          /\ UNCHANGED <<pool, opens, filled, owner, created, closed, conn,
                         kind, committed>>
      BY <2>1, <2>3 DEF Put
    <3>2. Puts(t, p)
      BY <1>1, <2>2, <3>1, EndsEffect DEF Puts
    <3>3. Control'
      BY <1>1, <2>2, <3>1, EndsControl
    <3>4. idle' \in [Pools -> Seq(Conns)]
      BY <1>1, <2>2, <3>1 DEF TypeOK
    <3>5. /\ pc' \in [Threads -> {"out", "borrow", "get", "grow", "wait",
                                  "begin", "run", "putback", "put"}]
          /\ using' \in [Threads -> Pools \cup {None}]
          /\ held' \in [Threads -> Conns \cup {None}]
          /\ retry' \in [Threads -> 0..Retries]
          /\ pending' \in [Threads -> {"ok", "again", "fatal"}]
          /\ answer' \in [Threads -> {"none", "rows", "error"}]
      BY <1>1, <2>2, <3>1, EndsTypes
    <3>6. TypeOK'
      BY <1>1, <3>1, <3>4, <3>5 DEF TypeOK
    <3> QED
      BY <2>1, <3>2, <3>3, <3>6 DEF Effect
  <2>4. CASE PutFull(t)
    BY <1>5, <2>1, <2>2, <2>4 DEF PutFull
  <2> QED
    BY <1>7, <2>3, <2>4
<1> QED
  BY <1>3, <1>4, <1>6, <1>7

LEMMA CallKept ==
    ASSUME PoolAssumption, IInv, NEW t \in Threads, Call(t)
    PROVE  TypeOK' /\ Control' /\ Effect
<1>1. /\ TypeOK /\ Control /\ Goes(t, "borrow") /\ pc[t] = "out"
      /\ UNCHANGED <<poolVars, using, held, pending>>
  BY DEF IInv, Call
<1>2. Control'
  BY <1>1, GoesControl DEF poolVars
<1>3. Keeps
  BY <1>1 DEF poolVars, Keeps
<1>4. /\ kind' \in [Threads -> {"execute", "snapshot"}]
      /\ retry' \in [Threads -> 0..Retries]
      /\ committed' \in [Threads -> BOOLEAN]
      /\ answer' \in [Threads -> {"none", "rows", "error"}]
  <2>1. 0 \in 0..Retries
    BY DEF PoolAssumption
  <2> QED
    BY <1>1, <2>1 DEF Call, TypeOK
<1>5. TypeOK'
  BY <1>1, <1>4 DEF Goes, poolVars, TypeOK
<1> QED
  BY <1>2, <1>3, <1>5 DEF Effect

LEMMA NextKept ==
    ASSUME PoolAssumption, IInv, Next
    PROVE  TypeOK' /\ Control' /\ Effect
<1>1. CASE Owner \/ \E c \in Conns : Lose(c)
  BY <1>1, OwnerKept
<1>2. ASSUME NEW t \in Threads, BeginFails(t) \/ RunLost(t)
      PROVE  TypeOK' /\ Control' /\ Effect
  <2>1. pc[t] \in {"begin", "run"} /\ LossIs(t) \in {"ok", "again", "fatal"}
    BY <1>2 DEF BeginFails, RunLost, LossIs
  <2>2. PICK how \in {"ok", "again", "fatal"} : Unusable(t, how)
    BY <1>2, <2>1 DEF BeginFails, RunLost
  <2> QED
    BY <2>1, <2>2, UnusableKept
<1>3. ASSUME NEW t \in Threads, Works(t)
      PROVE  TypeOK' /\ Control' /\ Effect
  BY <1>2, <1>3, ThreadKept, HandsKept DEF Works
<1> QED
  BY <1>1, <1>3, CallKept DEF Next

LEMMA InvariantKept ==
    ASSUME PoolAssumption, IInv, [Next]_vars
    PROVE  IInv'
<1>1. CASE UNCHANGED vars
  BY <1>1 DEF vars, poolVars, threadVars, IInv, TypeOK, Control, Apart, InUse
<1>2. CASE Next
  BY <1>2, NextKept, EffectApart DEF IInv
<1> QED
  BY <1>1, <1>2

LEMMA InvariantBegins ==
    ASSUME PoolAssumption, Init
    PROVE  IInv
<1>1. TypeOK
  <2>1. /\ <<>> \in Seq(Conns) /\ 0 \in 0..MaxOpens /\ 0 \in 0..MinSize
        /\ 0 \in 0..Retries /\ 0 \in Nat
    BY DEF PoolAssumption
  <2> QED
    BY <2>1 DEF Init, TypeOK
<1>2. Control
  BY DEF Init, Control
<1>3. \A p \in Pools : 1..Len(idle[p]) = {}
  BY DEF Init
<1>4. Apart /\ InUse
  BY <1>3 DEF Init, Apart, InUse
<1> QED
  BY <1>1, <1>2, <1>4 DEF IInv

(* Every state of the connector and its threads satisfies the invariant.   *)
THEOREM Invariant ==
    ASSUME PoolAssumption
    PROVE  Spec => []IInv
  BY InvariantBegins, InvariantKept, PTL DEF Spec

(* The pools, connections and threads keep their types, whatever the       *)
(* number of threads, connections, pools and attempts.                     *)
THEOREM TypeCorrect ==
    ASSUME PoolAssumption
    PROVE  Spec => []TypeOK
<1>1. IInv => TypeOK
  BY DEF IInv
<1> QED
  BY <1>1, Invariant, PTL

(* No two operations talk over one connection, and none over one that is   *)
(* idle in a pool, also when the owner closes the connector and opens it   *)
(* again while they run.                                                   *)
THEOREM HolderAlone ==
    ASSUME PoolAssumption
    PROVE  Spec => []OneHolder
<1>1. IInv => OneHolder
  BY DEF IInv, TypeOK, Apart, OneHolder, Idle, Held
<1> QED
  BY <1>1, Invariant, PTL

-----------------------------------------------------------------------------
(* The connections that are not closed, and their number                   *)

(* Somebody has the connection c.                                          *)
Had(c) == \/ \E t \in Threads : held[t] = c
          \/ \E p \in Pools : \E i \in 1..Len(idle[p]) : idle[p][i] = c

(* The slots of the first pool: _created counts the connections, and no    *)
(* other pool has any.                                                     *)
Counted ==
    opens <= 1 =>
        /\ created[1] = Cardinality(Live) /\ created[1] <= MaxSize
        /\ pool \in {None, 1} /\ \A t \in Threads : using[t] \in {None, 1}
        /\ \A p \in Pools : p > 1 => idle[p] = <<>>
        /\ owner = "fill" => created[1] = filled
        /\ opens = 0 => created[1] = 0 /\ owner = "away"
        /\ opens = 0 \/ owner = "fill" =>
               \A t \in Threads : pc[t] = "out" /\ ~committed[t]
        /\ opens = 0 \/ owner \in {"fill", "here"} => ~closed[1]

(* A connection whose socket pymysql has closed is nobody's.               *)
Buried == Discards => \A c \in Conns : conn[c] = "dead" => ~Had(c)

(* An operation has no answer before it ends; while the connector stays    *)
(* open, what was committed has been answered or will be.                  *)
Delivered ==
    /\ \A t \in Threads : pc[t] # "out" => answer[t] = "none"
    /\ opens <= 1 /\ owner = "here" => \A t \in Threads : committed[t] =>
           \/ pc[t] = "out" /\ answer[t] = "rows"
           \/ pc[t] \in {"putback", "put"} /\ pending[t] = "ok"

PoolInv == IInv /\ Counted /\ Buried /\ Delivered

LEMMA LiveCounted ==
    ASSUME PoolAssumption
    PROVE  IsFiniteSet(Live) /\ Cardinality(Live) \in Nat
<1>1. Live \subseteq Conns /\ IsFiniteSet(Conns)
  BY DEF Live, PoolAssumption
<1>2. IsFiniteSet(Live)
  BY <1>1, FS_Subset
<1> QED
  BY <1>2, FS_CardinalityType

LEMMA LiveGrows ==
    ASSUME PoolAssumption, TypeOK, NEW c \in Conns, Creates(c)
    PROVE  Cardinality(Live') = Cardinality(Live) + 1
<1>1. Live' = Live \cup {c} /\ c \notin Live
  BY DEF Live, Creates, TypeOK
<1> QED
  BY <1>1, LiveCounted, FS_AddElement

LEMMA LiveShrinks ==
    ASSUME PoolAssumption, TypeOK, NEW c \in Conns, conn[c] # "closed",
           conn' = [conn EXCEPT ![c] = "closed"]
    PROVE  /\ Cardinality(Live) > 0
           /\ Cardinality(Live') = Cardinality(Live) - 1
<1>1. Live' = Live \ {c} /\ c \in Live
  BY DEF Live, TypeOK
<1>2. Cardinality(Live') = Cardinality(Live) - 1
  BY <1>1, LiveCounted, FS_RemoveElement
<1>3. Cardinality(Live) # 0
  BY <1>1, LiveCounted, FS_EmptySet
<1> QED
  BY <1>2, <1>3, LiveCounted

(* A connection that is lost, and one whose loss is noticed, stays counted.*)
LEMMA LiveStays ==
    ASSUME TypeOK, NEW c \in Conns, NEW s \in {"ok", "lost", "dead"},
           conn[c] # "closed", conn' = [conn EXCEPT ![c] = s]
    PROVE  Live' = Live
  BY DEF Live, TypeOK

(* What somebody has after a step he had before, or it is a new one.       *)
LEMMA EffectHad ==
    ASSUME PoolAssumption, IInv, TypeOK', Effect, NEW c \in Conns, Had(c)'
    PROVE  Had(c) \/ conn'[c] = "ok"
<1>1. /\ None \notin Conns
      /\ \A t \in Threads : held[t] \in Conns \union {None}
      /\ \A p \in Pools : /\ idle[p] \in Seq(Conns) /\ Len(idle[p]) \in Nat
                          /\ \A i \in 1..Len(idle[p]) : idle[p][i] \in Conns
  <2>1. /\ None \notin Conns
        /\ \A t \in Threads : held[t] \in Conns \union {None}
        /\ \A p \in Pools : idle[p] \in Seq(Conns)
    BY DEF IInv, TypeOK, PoolAssumption
  <2> QED
    BY <2>1
<1>2. CASE Keeps
  BY <1>2 DEF Keeps, Had
<1>3. ASSUME NEW t \in Threads, Drops(t)
      PROVE  Had(c)
  BY <1>1, <1>3 DEF Drops, Had, IInv, TypeOK
<1>4. ASSUME NEW t \in Threads, NEW d \in Conns, Gets(t, d)
      PROVE  Had(c) \/ conn'[c] = "ok"
  BY <1>1, <1>4 DEF Gets, Creates, Had, IInv, TypeOK
<1>5. ASSUME NEW p \in Pools, NEW d \in Conns, Adds(p, d)
      PROVE  Had(c) \/ conn'[c] = "ok"
  <2>1. /\ held' = held /\ conn'[d] = "ok"
        /\ idle'[p] = Append(idle[p], d)
        /\ \A q \in Pools : q # p => idle'[q] = idle[q]
    BY <1>5 DEF Adds, Creates, IInv, TypeOK
  <2>2. CASE \E t \in Threads : held'[t] = c
    BY <2>1, <2>2 DEF Had
  <2>3. ASSUME NEW q \in Pools, NEW i \in 1..Len(idle'[q]), idle'[q][i] = c
        PROVE  Had(c) \/ conn'[c] = "ok"
    <3>1. CASE q = p
      <4>1. /\ Len(idle'[p]) = Len(idle[p]) + 1
            /\ idle'[p][Len(idle[p]) + 1] = d
            /\ \A j \in 1..Len(idle[p]) : idle'[p][j] = idle[p][j]
        BY <1>1, <2>1
      <4>2. i \in 1..Len(idle[p]) \/ i = Len(idle[p]) + 1
        BY <1>1, <3>1, <4>1
      <4> QED
        BY <2>1, <2>3, <3>1, <4>1, <4>2 DEF Had
    <3>2. CASE q # p
      BY <2>1, <2>3, <3>2 DEF Had
    <3> QED
      BY <3>1, <3>2
  <2> QED
    BY <2>2, <2>3 DEF Had
<1>6. ASSUME NEW p \in Pools, idle[p] # <<>>,
             idle' = [idle EXCEPT ![p] = Tail(@)],
             \A t \in Threads : held'[t] \in {held[t], Head(idle[p])}
      PROVE  Had(c)
  <2>1. /\ \A q \in Pools : q # p => idle'[q] = idle[q]
        /\ idle'[p] = Tail(idle[p])
    BY <1>6 DEF IInv, TypeOK
  <2>2. /\ Len(idle[p]) >= 1 /\ Head(idle[p]) = idle[p][1]
        /\ 1 \in 1..Len(idle[p])
    BY <1>1, <1>6
  <2>3. CASE \E t \in Threads : held'[t] = c
    BY <1>6, <2>2, <2>3 DEF Had
  <2>4. ASSUME NEW q \in Pools, NEW i \in 1..Len(idle'[q]), idle'[q][i] = c
        PROVE  Had(c)
    <3>1. CASE q = p
      <4>1. i \in 1..Len(Tail(idle[p])) /\ Tail(idle[p])[i] = c
        BY <2>1, <2>4, <3>1
      <4>2. i + 1 \in 1..Len(idle[p]) /\ idle[p][i + 1] = c
        BY <1>1, <2>2, <4>1
      <4> QED
        BY <4>2 DEF Had
    <3>2. CASE q # p
      BY <2>1, <2>4, <3>2 DEF Had
    <3> QED
      BY <3>1, <3>2
  <2> QED
    BY <2>3, <2>4 DEF Had
<1>7. ASSUME NEW t \in Threads, NEW p \in Pools, Takes(t, p) PROVE Had(c)
  BY <1>6, <1>7 DEF Takes, IInv, TypeOK
<1>8. ASSUME NEW p \in Pools, Drains(p) PROVE Had(c)
  BY <1>6, <1>8 DEF Drains
<1>9. ASSUME NEW t \in Threads, NEW p \in Pools, Puts(t, p)
      PROVE  Had(c)
  <2>1. /\ held'[t] = None /\ held[t] \in Conns
        /\ \A u \in Threads : u # t => held'[u] = held[u]
        /\ \A q \in Pools : q # p => idle'[q] = idle[q]
        /\ idle'[p] = Append(idle[p], held[t])
    BY <1>1, <1>9 DEF Puts, IInv, TypeOK
  <2>2. CASE \E u \in Threads : held'[u] = c
    BY <1>1, <2>1, <2>2 DEF Had
  <2>3. ASSUME NEW q \in Pools, NEW i \in 1..Len(idle'[q]), idle'[q][i] = c
        PROVE  Had(c)
    <3>1. CASE q = p
      <4>1. /\ Len(idle'[p]) = Len(idle[p]) + 1
            /\ idle'[p][Len(idle[p]) + 1] = held[t]
            /\ \A j \in 1..Len(idle[p]) : idle'[p][j] = idle[p][j]
        BY <1>1, <2>1
      <4>2. i \in 1..Len(idle[p]) \/ i = Len(idle[p]) + 1
        BY <1>1, <3>1, <4>1
      <4> QED
        BY <2>1, <2>3, <3>1, <4>1, <4>2 DEF Had
    <3>2. CASE q # p
      BY <2>1, <2>3, <3>2 DEF Had
    <3> QED
      BY <3>1, <3>2
  <2> QED
    BY <2>2, <2>3 DEF Had
<1> QED
  BY <1>2, <1>3, <1>4, <1>5, <1>7, <1>8, <1>9 DEF Effect

(* A dead connection stays nobody's as long as nothing but the one a       *)
(* thread drops can die.                                                   *)
LEMMA StaysBuried ==
    ASSUME PoolAssumption, IInv, TypeOK', Effect, Buried,
           Discards => \A c \in Conns : conn'[c] = "dead" =>
               conn[c] = "dead" \/ ~Had(c)'
    PROVE  Buried'
  BY EffectHad DEF Buried

-----------------------------------------------------------------------------
(* The slots                                                               *)

LEMMA PoolsAre ==
    ASSUME PoolAssumption
    PROVE  1 \in Pools /\ Pools \subseteq Nat /\ None \notin Pools /\ None # 1
  BY DEF PoolAssumption, Pools

LEMMA CountsAre ==
    ASSUME PoolAssumption, IInv
    PROVE  /\ TypeOK /\ Control /\ 1 \in Pools /\ None \notin Pools /\ None # 1
           /\ opens \in Nat /\ created[1] \in Nat
<1>1. TypeOK /\ Control
  BY DEF IInv
<1>2. opens \in 0..MaxOpens /\ created \in [Pools -> Nat]
  BY <1>1 DEF TypeOK
<1> QED
  BY <1>1, <1>2, PoolsAre DEF PoolAssumption

(* What a thread does once the connector is there.                         *)
LEMMA ThreadCounted ==
    ASSUME PoolAssumption, IInv, TypeOK', Counted, NEW t \in Threads,
           opens <= 1 => opens = 1 /\ owner # "fill",
           UNCHANGED <<pool, opens, filled, owner, closed>>,
           using' \in {using, [using EXCEPT ![t] = None],
                       [using EXCEPT ![t] = pool]},
           opens <= 1 => \A p \in Pools : p > 1 => idle'[p] = idle[p],
           opens <= 1 => /\ created'[1] = Cardinality(Live')
                         /\ created'[1] <= MaxSize
    PROVE  Counted'
<1>1. /\ opens' = opens /\ owner' = owner /\ pool' = pool
      /\ closed' = closed
  OBVIOUS
<1>2. \A u \in Threads : using'[u] \in {using[u], None, pool}
  BY DEF IInv, TypeOK
<1>3. opens <= 1 => \A u \in Threads : using'[u] \in {None, 1}
  BY <1>2 DEF Counted
<1> QED
  BY <1>1, <1>3 DEF Counted

LEMMA DiscardCounted ==
    ASSUME PoolAssumption, IInv, Counted, opens <= 1, NEW c \in Conns,
           conn[c] # "closed", Discard(1, c)
    PROVE  /\ created'[1] = Cardinality(Live')
           /\ created'[1] <= MaxSize
<1>1. /\ Cardinality(Live) > 0
      /\ Cardinality(Live') = Cardinality(Live) - 1
  BY LiveShrinks DEF IInv, Discard
<1>2. 1 \in Pools
  BY PoolsAre
<1>3. created'[1] = IF created[1] = 0 THEN 0 ELSE created[1] - 1
  BY <1>2 DEF Discard, IInv, TypeOK
<1> QED
  BY <1>1, <1>3, LiveCounted DEF Counted, PoolAssumption

LEMMA CreatesCounted ==
    ASSUME PoolAssumption, IInv, Counted, opens <= 1, NEW c \in Conns,
           Creates(c), created[1] < MaxSize,
           created' = [created EXCEPT ![1] = @ + 1]
    PROVE  /\ created'[1] = Cardinality(Live')
           /\ created'[1] <= MaxSize
<1>1. Cardinality(Live') = Cardinality(Live) + 1
  BY LiveGrows DEF IInv
<1>2. 1 \in Pools
  BY PoolsAre
<1>3. created'[1] = created[1] + 1
  BY <1>2 DEF IInv, TypeOK
<1> QED
  BY <1>1, <1>3, LiveCounted DEF Counted, PoolAssumption

LEMMA WorksCounted ==
    ASSUME PoolAssumption, IInv, TypeOK', Counted, NEW t \in Threads,
           Works(t)
    PROVE  Counted'
<1>1. /\ TypeOK /\ Control /\ 1 \in Pools /\ None \notin Pools /\ None # 1
      /\ opens \in Nat /\ created[1] \in Nat
  BY CountsAre
<1>2. pc[t] # "out"
  BY DEF Works, TimedOut, Borrow, Take, NoneIdle, Grow, GrowFails, Full,
         Exhausted, Begin, BeginFails, RunLost, Run, Refused, PutBack, Put,
         PutFull
<1>3. opens <= 1 => /\ opens = 1 /\ owner # "fill"
                    /\ pool \in {None, 1} /\ using[t] \in {None, 1}
  BY <1>1, <1>2 DEF Counted
<1>4. ASSUME UNCHANGED <<pool, opens, filled, owner, closed, idle, created>>,
             using' \in {using, [using EXCEPT ![t] = None],
                         [using EXCEPT ![t] = pool]},
             Live' = Live
      PROVE  Counted'
  <2>1. opens <= 1 => /\ created'[1] = Cardinality(Live')
                      /\ created'[1] <= MaxSize
    BY <1>4 DEF Counted
  <2> QED
    BY <1>3, <1>4, <2>1, ThreadCounted
<1>5. ASSUME NEW how \in {"ok", "again", "fatal"}, Ends(t, how),
             UNCHANGED poolVars
      PROVE  Counted'
  BY <1>1, <1>4, <1>5, EndsEffect DEF poolVars, Live
<1>6. ASSUME NEW p \in Pools, p \in {pool, using[t]},
             NEW how \in {"ok", "again", "fatal"}, Ends(t, how),
             Discard(p, held[t]), held[t] # None,
             UNCHANGED <<pool, opens, filled, owner, closed, idle>>
      PROVE  Counted'
  <2>1. held[t] \in Conns /\ conn[held[t]] # "closed"
    BY <1>1, <1>6 DEF TypeOK, IInv, InUse
  <2>2. opens <= 1 => p = 1
    BY <1>1, <1>3, <1>6
  <2>3. opens <= 1 => /\ created'[1] = Cardinality(Live')
                      /\ created'[1] <= MaxSize
    BY <1>6, <2>1, <2>2, DiscardCounted
  <2>4. using' = [using EXCEPT ![t] = None]
    BY <1>1, <1>6, EndsEffect
  <2> QED
    BY <1>3, <1>6, <2>3, <2>4, ThreadCounted
<1>7. CASE TimedOut(t) \/ GrowFails(t) \/ Exhausted(t)
  BY <1>5, <1>7 DEF TimedOut, GrowFails, Exhausted
<1>8. CASE Borrow(t)
  <2>1. CASE pool = None /\ Ends(t, "again")
    BY <1>5, <1>8, <2>1 DEF Borrow
  <2>2. CASE closed[pool] /\ Ends(t, "fatal")
    BY <1>5, <1>8, <2>2 DEF Borrow
  <2>3. CASE using' = [using EXCEPT ![t] = pool]
    BY <1>4, <1>8, <2>3 DEF Borrow, poolVars, Live
  <2> QED
    BY <1>8, <2>1, <2>2, <2>3 DEF Borrow
<1>9. CASE NoneIdle(t) \/ Full(t) \/ Begin(t) \/ Run(t) \/ Refused(t)
  BY <1>4, <1>9 DEF NoneIdle, Full, Begin, Run, Refused, poolVars, Live
<1>10. CASE Take(t)
  <2>1. opens <= 1 => using[t] = 1
    BY <1>1, <1>3, <1>10 DEF Take, Control
  <2>2. opens <= 1 => \A p \in Pools : p > 1 => idle'[p] = idle[p]
    BY <1>1, <1>10, <2>1 DEF Take, TypeOK
  <2>3. Live' = Live
    BY <1>10 DEF Take, Live
  <2>4. opens <= 1 => /\ created'[1] = Cardinality(Live')
                      /\ created'[1] <= MaxSize
    BY <1>10, <2>3 DEF Take, Counted
  <2>5. UNCHANGED <<pool, opens, filled, owner, closed, using>>
    BY <1>10 DEF Take
  <2> QED
    BY <1>3, <2>2, <2>4, <2>5, ThreadCounted
<1>11. CASE Grow(t)
  <2>1. PICK c \in Conns :
            Creates(c) /\ created' = [created EXCEPT ![using[t]] = @ + 1]
    BY <1>11 DEF Grow, Creates
  <2>2. opens <= 1 => using[t] = 1
    BY <1>1, <1>3, <1>11 DEF Grow, Control
  <2>3. opens <= 1 => /\ created'[1] = Cardinality(Live')
                      /\ created'[1] <= MaxSize
    BY <1>11, <2>1, <2>2, CreatesCounted DEF Grow
  <2>4. UNCHANGED <<pool, opens, filled, owner, closed, using, idle>>
    BY <1>11 DEF Grow
  <2> QED
    BY <1>3, <2>3, <2>4, ThreadCounted
<1>12. CASE BeginFails(t) \/ RunLost(t)
  <2>1. /\ pc[t] \in {"begin", "run"}
        /\ LossIs(t) \in {"ok", "again", "fatal"}
    BY <1>12 DEF BeginFails, RunLost, LossIs
  <2>2. PICK how \in {"ok", "again", "fatal"} : Unusable(t, how)
    BY <1>12, <2>1 DEF BeginFails, RunLost
  <2>3. held[t] # None /\ held[t] \in Conns /\ conn[held[t]] # "closed"
    BY <1>1, <2>1 DEF Control, TypeOK, IInv, InUse
  <2>4. CASE Discards /\ pool # None
    <3>1. /\ pool \in Pools /\ Discard(pool, held[t]) /\ Ends(t, how)
          /\ UNCHANGED <<pool, opens, filled, owner, closed, idle>>
      BY <1>1, <2>2, <2>4 DEF Unusable, Control
    <3> QED
      BY <1>6, <2>3, <3>1
  <2>5. ASSUME conn' = [conn EXCEPT ![held[t]] = IF @ = "lost" THEN "dead"
                                                 ELSE @]
        PROVE  Live' = Live
    BY <1>1, <2>3, <2>5 DEF Live, TypeOK
  <2>6. CASE Discards /\ pool = None
    <3>1. /\ Ends(t, "again") /\ Live' = Live
          /\ UNCHANGED <<pool, opens, filled, owner, closed, idle, created>>
      BY <2>2, <2>5, <2>6 DEF Unusable
    <3>2. using' = [using EXCEPT ![t] = None]
      BY <1>1, <3>1, EndsEffect
    <3> QED
      BY <1>4, <3>1, <3>2
  <2>7. CASE ~Discards
    BY <1>4, <2>2, <2>5, <2>7 DEF Unusable
  <2> QED
    BY <2>4, <2>6, <2>7 DEF PoolAssumption
<1>13. CASE PutBack(t)
  <2>1. /\ held[t] # None /\ pending[t] \in {"ok", "again", "fatal"}
        /\ UNCHANGED <<pool, opens, filled, owner, closed, idle>>
    BY <1>1, <1>13 DEF PutBack, Control, TypeOK
  <2>2. CASE /\ pool = None /\ Ends(t, "again")
             /\ UNCHANGED <<created, conn>>
    BY <1>5, <2>1, <2>2 DEF poolVars
  <2>3. CASE pool # None /\ Discard(pool, held[t]) /\ Ends(t, pending[t])
    <3>1. pool \in Pools
      BY <1>1, <2>3 DEF Control
    <3> QED
      BY <1>6, <2>1, <2>3, <3>1
  <2>4. CASE /\ using' = [using EXCEPT ![t] = pool]
             /\ UNCHANGED <<created, conn>>
    BY <1>4, <2>1, <2>4 DEF Live
  <2> QED
    BY <1>13, <2>2, <2>3, <2>4 DEF PutBack
<1>14. CASE Put(t) \/ PutFull(t)
  <2>1. /\ using[t] \in Pools /\ held[t] # None
        /\ pending[t] \in {"ok", "again", "fatal"}
    BY <1>1, <1>14 DEF Put, PutFull, Control, TypeOK
  <2>2. CASE PutFull(t)
    BY <1>6, <2>1, <2>2 DEF PutFull
  <2>3. CASE Put(t)
    <3>1. opens <= 1 => using[t] = 1
      BY <1>1, <1>3, <2>1
    <3>2. opens <= 1 => \A p \in Pools : p > 1 => idle'[p] = idle[p]
      BY <1>1, <2>3, <3>1 DEF Put, TypeOK
    <3>3. Live' = Live
      BY <2>3 DEF Put, Live
    <3>4. opens <= 1 => /\ created'[1] = Cardinality(Live')
                        /\ created'[1] <= MaxSize
      BY <2>3, <3>3 DEF Put, Counted
    <3>5. /\ UNCHANGED <<pool, opens, filled, owner, closed>>
          /\ Ends(t, pending[t])
      BY <2>3 DEF Put
    <3>6. using' = [using EXCEPT ![t] = None]
      BY <1>1, <2>1, <3>5, EndsEffect
    <3> QED
      BY <1>3, <3>2, <3>4, <3>5, <3>6, ThreadCounted
  <2> QED
    BY <1>14, <2>2, <2>3
<1> QED
  BY <1>7, <1>8, <1>9, <1>10, <1>11, <1>12, <1>13, <1>14 DEF Works

LEMMA CallCounted ==
    ASSUME PoolAssumption, IInv, TypeOK', Counted, NEW t \in Threads, Call(t)
    PROVE  Counted'
<1>1. /\ opens > 0 /\ owner # "fill" /\ opens \in Nat
      /\ UNCHANGED <<poolVars, using>>
  BY DEF Call, IInv, TypeOK
<1>2. Live' = Live
  BY <1>1 DEF poolVars, Live
<1>3. opens <= 1 => /\ created'[1] = Cardinality(Live')
                    /\ created'[1] <= MaxSize
  BY <1>1, <1>2 DEF Counted, poolVars
<1> QED
  BY <1>1, <1>3, ThreadCounted DEF poolVars

LEMMA OwnerCounted ==
    ASSUME PoolAssumption, IInv, TypeOK', Counted,
           Owner \/ \E c \in Conns : Lose(c)
    PROVE  Counted'
<1>1. /\ TypeOK /\ Control /\ 1 \in Pools /\ None \notin Pools /\ None # 1
      /\ opens \in Nat /\ created[1] \in Nat
      /\ MinSize \in Nat /\ MaxSize \in Nat /\ MinSize <= MaxSize
  BY CountsAre DEF PoolAssumption
<1>2. CASE Open
  <2>1. /\ opens' = opens + 1 /\ pool' = opens + 1 /\ filled' = 0
        /\ owner' = "fill"
        /\ UNCHANGED <<idle, created, closed, conn, pc, using, committed>>
    BY <1>2 DEF Open, threadVars
  <2>2. Live' = Live
    BY <2>1 DEF Live
  <2> QED
    BY <1>1, <2>1, <2>2 DEF Counted
<1>3. CASE Fill
  <2>1. PICK c \in Conns :
            /\ Creates(c) /\ idle' = [idle EXCEPT ![pool] = Append(@, c)]
            /\ created' = [created EXCEPT ![pool] = @ + 1]
    BY <1>3 DEF Fill, Creates
  <2>2. /\ owner = "fill" /\ filled < MinSize /\ filled' = filled + 1
        /\ UNCHANGED <<pool, opens, owner, closed, threadVars>>
    BY <1>3 DEF Fill
  <2>3. opens <= 1 => pool = 1
    BY <1>1, <2>2 DEF Counted, Control
  <2>4. filled \in Nat
    BY <1>1 DEF TypeOK
  <2>5. opens <= 1 => created[1] = filled /\ created[1] < MaxSize
    BY <1>1, <2>2, <2>4 DEF Counted
  <2>6. opens <= 1 => /\ created'[1] = Cardinality(Live')
                      /\ created'[1] <= MaxSize
    BY <2>1, <2>3, <2>5, CreatesCounted
  <2>7. opens <= 1 => /\ \A p \in Pools : p > 1 => idle'[p] = idle[p]
                      /\ created'[1] = filled'
    BY <1>1, <2>1, <2>2, <2>3, <2>5 DEF TypeOK
  <2> QED
    BY <2>2, <2>6, <2>7 DEF Counted, threadVars
<1>4. CASE Opened \/ Close \/ Closed
  <2>1. /\ UNCHANGED <<opens, idle, created, conn, pc, using, committed>>
        /\ pool' \in {pool, None} /\ owner \in {"fill", "here", "drain"}
        /\ owner' # "fill"
    BY <1>4 DEF Opened, Close, Closed, threadVars
  <2>2. Live' = Live
    BY <2>1 DEF Live
  <2>3. opens <= 1 => opens # 0
    BY <2>1 DEF Counted
  <2>4. opens <= 1 /\ owner' = "here" => ~closed'[1]
    BY <1>4 DEF Opened, Close, Closed, Counted
  <2> QED
    BY <2>1, <2>2, <2>3, <2>4 DEF Counted
<1>5. CASE Drain
  <2>1. /\ pool \in Pools /\ 1 \in 1..Len(idle[pool])
        /\ Head(idle[pool]) = idle[pool][1] /\ idle[pool][1] \in Conns
        /\ owner = "drain"
    BY <1>1, <1>5 DEF Drain, Control, TypeOK
  <2>2. conn[Head(idle[pool])] # "closed"
    BY <2>1 DEF IInv, InUse
  <2>3. opens <= 1 => pool = 1
    BY <1>1, <2>1 DEF Counted
  <2>4. /\ Discard(pool, Head(idle[pool]))
        /\ idle' = [idle EXCEPT ![pool] = Tail(@)]
        /\ UNCHANGED <<pool, opens, filled, owner, closed, pc, using,
                       committed>>
    BY <1>5 DEF Drain, threadVars
  <2>5. opens <= 1 => /\ created'[1] = Cardinality(Live')
                      /\ created'[1] <= MaxSize
    BY <2>1, <2>2, <2>3, <2>4, DiscardCounted
  <2>6. opens <= 1 => \A p \in Pools : p > 1 => idle'[p] = idle[p]
    BY <1>1, <2>3, <2>4 DEF TypeOK
  <2>7. opens <= 1 => opens # 0
    BY <2>1 DEF Counted
  <2> QED
    BY <2>1, <2>4, <2>5, <2>6, <2>7 DEF Counted
<1>6. ASSUME NEW c \in Conns, Lose(c) PROVE Counted'
  <2>1. /\ UNCHANGED <<pool, opens, filled, owner, idle, created, closed, pc,
                       using, committed>>
        /\ conn[c] # "closed" /\ conn' = [conn EXCEPT ![c] = "lost"]
    BY <1>6 DEF Lose, threadVars
  <2>2. Live' = Live
    BY <1>1, <2>1, LiveStays
  <2> QED
    BY <2>1, <2>2 DEF Counted
<1> QED
  BY <1>2, <1>3, <1>4, <1>5, <1>6 DEF Owner

-----------------------------------------------------------------------------
(* What is dead, and what was committed                                    *)

LEMMA NextBuried ==
    ASSUME PoolAssumption, IInv, Buried, Next
    PROVE  Buried'
<1>1. TypeOK /\ TypeOK' /\ Effect
  BY NextKept DEF IInv
<1>2. CASE \A c \in Conns : conn'[c] = "dead" => conn[c] = "dead"
  BY <1>1, <1>2, StaysBuried
<1>3. CASE Owner \/ \E c \in Conns : Lose(c)
  BY <1>1, <1>2, <1>3 DEF Owner, Open, Fill, Opened, Close, Drain, Closed,
         Discard, Lose, TypeOK
<1>4. ASSUME NEW t \in Threads, Call(t) \/ Works(t),
             ~(BeginFails(t) \/ RunLost(t))
      PROVE  Buried'
  <2>1. \/ conn' = conn
        \/ \E c \in Conns, s \in {"ok", "closed"} :
               conn' = [conn EXCEPT ![c] = s]
        \/ conn' = [conn EXCEPT ![held[t]] = "closed"]
    BY <1>4 DEF Call, Works, poolVars, TimedOut, Borrow, Take, NoneIdle,
           Grow, GrowFails, Full, Exhausted, Begin, Run, Refused, PutBack,
           Put, PutFull, Discard
  <2> QED
    BY <1>1, <1>2, <2>1 DEF TypeOK
<1>5. ASSUME NEW t \in Threads, BeginFails(t) \/ RunLost(t)
      PROVE  Buried'
  <2>1. /\ pc[t] \in {"begin", "run"}
        /\ LossIs(t) \in {"ok", "again", "fatal"}
    BY <1>5 DEF BeginFails, RunLost, LossIs
  <2>2. PICK how \in {"ok", "again", "fatal"} : Unusable(t, how)
    BY <1>5, <2>1 DEF BeginFails, RunLost
  <2>3. CASE pool # None
    <3>1. Discards => conn' = [conn EXCEPT ![held[t]] = "closed"]
      BY <2>2, <2>3 DEF Unusable, Discard
    <3> QED
      BY <1>1, <3>1, StaysBuried DEF TypeOK
  <2>4. CASE Discards /\ pool = None
    <3>1. /\ Ends(t, "again") /\ idle' = idle
          /\ \A c \in Conns : c # held[t] => conn'[c] = conn[c]
      BY <1>1, <2>2, <2>4 DEF Unusable, TypeOK
    <3>2. held' = [held EXCEPT ![t] = None]
      BY <3>1 DEF Ends, Forgets
    <3>3. held[t] \in Conns /\ held[t] # None
      BY <1>1, <2>1 DEF IInv, Control, TypeOK
    <3>4. \A u \in Threads : held'[u] # held[t]
      BY <1>1, <3>2, <3>3 DEF IInv, Apart, TypeOK
    <3>5. \A p \in Pools : \A i \in 1..Len(idle'[p]) :
              idle'[p][i] # held[t]
      BY <3>1 DEF IInv, Apart
    <3>6. \A c \in Conns : conn'[c] = "dead" => conn[c] = "dead" \/ ~Had(c)'
      BY <3>1, <3>4, <3>5 DEF Had
    <3> QED
      BY <1>1, <3>6, StaysBuried
  <2>5. CASE ~Discards
    BY <2>5 DEF Buried
  <2> QED
    BY <2>3, <2>4, <2>5 DEF PoolAssumption
<1> QED
  BY <1>3, <1>4, <1>5 DEF Next, Works

LEMMA WorksDelivered ==
    ASSUME PoolAssumption, IInv, Counted, Delivered, NEW t \in Threads,
           Works(t)
    PROVE  Delivered'
<1>1. TypeOK /\ Control
  BY DEF IInv
<1>2. pc[t] # "out" /\ answer[t] = "none"
  <2>1. pc[t] # "out"
    BY DEF Works, TimedOut, Borrow, Take, NoneIdle, Grow, GrowFails, Full,
           Exhausted, Begin, BeginFails, RunLost, Run, Refused, PutBack, Put,
           PutFull
  <2> QED
    BY <2>1 DEF Delivered
<1>3. opens <= 1 /\ owner = "here" /\ committed[t] =>
          pc[t] \in {"putback", "put"} /\ pending[t] = "ok"
  BY <1>2 DEF Delivered
<1>4. ASSUME NEW how \in {"ok", "again", "fatal"}, Ends(t, how),
             UNCHANGED <<opens, owner, committed>>,
             how = "ok" \/ pc[t] \notin {"putback", "put"}
                        \/ owner # "here" \/ how = pending[t]
      PROVE  Delivered'
  <2>1. \A u \in Threads : u # t =>
            /\ pc'[u] = pc[u] /\ answer'[u] = answer[u]
            /\ pending'[u] = pending[u]
    BY <1>1, <1>4 DEF Ends, Forgets, TypeOK
  <2>2. pc'[t] # "out" => answer'[t] = "none"
    BY <1>1, <1>2, <1>4 DEF Ends, TypeOK
  <2>3. how = "ok" => pc'[t] = "out" /\ answer'[t] = "rows"
    BY <1>1, <1>4 DEF Ends, TypeOK
  <2>4. opens <= 1 /\ owner = "here" /\ committed[t] => how = "ok"
    BY <1>3, <1>4
  <2> QED
    BY <1>4, <2>1, <2>2, <2>3, <2>4 DEF Delivered
<1>5. ASSUME NEW place, place # "out", Goes(t, place),
             UNCHANGED <<opens, owner, answer>>,
             \A u \in Threads : u # t => /\ pending'[u] = pending[u]
                                         /\ committed'[u] = committed[u],
             opens <= 1 /\ owner = "here" /\ committed'[t] =>
                 place \in {"putback", "put"} /\ pending'[t] = "ok"
      PROVE  Delivered'
  <2>1. /\ pc'[t] = place
        /\ \A u \in Threads : u # t => pc'[u] = pc[u]
    BY <1>1, <1>5 DEF Goes, TypeOK
  <2> QED
    BY <1>2, <1>5, <2>1 DEF Delivered
<1>6. CASE TimedOut(t) \/ GrowFails(t) \/ Exhausted(t)
  BY <1>4, <1>6 DEF TimedOut, GrowFails, Exhausted, poolVars
<1>7. CASE Borrow(t)
  <2>1. CASE pool = None /\ Ends(t, "again")
    BY <1>4, <1>7, <2>1 DEF Borrow, poolVars
  <2>2. CASE closed[pool] /\ Ends(t, "fatal")
    BY <1>4, <1>7, <2>2 DEF Borrow, poolVars
  <2>3. CASE Goes(t, "get") /\ UNCHANGED <<pending, answer>>
    BY <1>3, <1>5, <1>7, <2>3 DEF Borrow, poolVars
  <2> QED
    BY <1>7, <2>1, <2>2, <2>3 DEF Borrow
<1>8. CASE NoneIdle(t) \/ Full(t) \/ Begin(t) \/ Take(t) \/ Grow(t)
  BY <1>3, <1>5, <1>8 DEF NoneIdle, Full, Begin, Take, Grow, poolVars
<1>9. CASE Run(t)
  BY <1>1, <1>5, <1>9 DEF Run, poolVars, TypeOK
<1>10. CASE Refused(t)
  BY <1>1, <1>3, <1>5, <1>10 DEF Refused, poolVars, TypeOK
<1>11. CASE BeginFails(t) \/ RunLost(t)
  <2>1. /\ pc[t] \in {"begin", "run"}
        /\ LossIs(t) \in {"ok", "again", "fatal"}
    BY <1>11 DEF BeginFails, RunLost, LossIs
  <2>2. PICK how \in {"ok", "again", "fatal"} : Unusable(t, how)
    BY <1>11, <2>1 DEF BeginFails, RunLost
  <2>3. UNCHANGED <<opens, owner, committed>>
    BY <2>2 DEF Unusable
  <2>4. CASE Discards
    <3>1. Ends(t, how) \/ Ends(t, "again")
      BY <2>2, <2>4 DEF Unusable
    <3> QED
      BY <1>4, <2>1, <2>3, <3>1
  <2>5. CASE ~Discards
    <3>1. /\ Goes(t, "putback") /\ UNCHANGED <<opens, owner, answer>>
          /\ pending' = [pending EXCEPT ![t] = how]
      BY <2>2, <2>5 DEF Unusable
    <3> QED
      BY <1>1, <1>3, <1>5, <2>1, <2>3, <3>1 DEF TypeOK
  <2> QED
    BY <2>4, <2>5 DEF PoolAssumption
<1>12. CASE PutBack(t)
  <2>1. /\ UNCHANGED <<opens, owner, committed>>
        /\ pending[t] \in {"ok", "again", "fatal"}
    BY <1>1, <1>12 DEF PutBack, TypeOK
  <2>2. CASE pool = None /\ Ends(t, "again")
    <3>1. owner # "here"
      BY <1>1, <2>2, PoolsAre DEF Control
    <3> QED
      BY <1>4, <2>1, <2>2, <3>1
  <2>3. CASE Ends(t, pending[t])
    BY <1>4, <2>1, <2>3
  <2>4. CASE Goes(t, "put") /\ UNCHANGED <<pending, answer>>
    BY <1>3, <1>5, <2>1, <2>4
  <2> QED
    BY <1>12, <2>2, <2>3, <2>4 DEF PutBack
<1>13. CASE Put(t) \/ PutFull(t)
  <2>1. /\ UNCHANGED <<opens, owner, committed>> /\ Ends(t, pending[t])
        /\ pending[t] \in {"ok", "again", "fatal"}
    BY <1>1, <1>13 DEF Put, PutFull, TypeOK
  <2> QED
    BY <1>4, <2>1
<1> QED
  BY <1>6, <1>7, <1>8, <1>9, <1>10, <1>11, <1>12, <1>13 DEF Works

LEMMA NextDelivered ==
    ASSUME PoolAssumption, IInv, Counted, Delivered, Next
    PROVE  Delivered'
<1>1. TypeOK
  BY DEF IInv
<1>2. ASSUME NEW t \in Threads, Call(t) PROVE Delivered'
  <2>1. /\ UNCHANGED <<opens, owner, pending>>
        /\ pc'[t] = "borrow" /\ answer'[t] = "none" /\ ~committed'[t]
        /\ \A u \in Threads : u # t => /\ pc'[u] = pc[u]
                                       /\ answer'[u] = answer[u]
                                       /\ committed'[u] = committed[u]
    BY <1>1, <1>2 DEF Call, Goes, poolVars, TypeOK
  <2> QED
    BY <2>1 DEF Delivered
<1>3. CASE Owner \/ \E c \in Conns : Lose(c)
  <2>1. UNCHANGED <<pc, answer, committed, pending>>
    BY <1>3 DEF Owner, Open, Fill, Opened, Close, Drain, Closed, Lose,
           threadVars
  <2>2. CASE Opened
    <3>1. owner = "fill" /\ opens' = opens
      BY <2>2 DEF Opened
    <3> QED
      BY <2>1, <3>1 DEF Counted, Delivered
  <2>3. CASE ~Opened
    <3>1. owner' = "here" => owner = "here" /\ opens' = opens
      BY <1>3, <2>3 DEF Owner, Open, Fill, Close, Drain, Closed, Lose
    <3> QED
      BY <2>1, <3>1 DEF Delivered
  <2> QED
    BY <2>2, <2>3
<1> QED
  BY <1>2, <1>3, WorksDelivered DEF Next

-----------------------------------------------------------------------------
(* The invariant of the pool                                               *)

LEMMA PoolInvKept ==
    ASSUME PoolAssumption, PoolInv, [Next]_vars
    PROVE  PoolInv'
<1>1. IInv'
  BY InvariantKept DEF PoolInv
<1>2. CASE UNCHANGED vars
  <2>1. Counted'
    BY <1>2 DEF PoolInv, vars, poolVars, threadVars, Counted, Live
  <2>2. Buried' /\ Delivered'
    BY <1>2 DEF PoolInv, vars, poolVars, threadVars, Buried, Had, Delivered
  <2> QED
    BY <1>1, <2>1, <2>2 DEF PoolInv
<1>3. CASE Next
  <2>1. Counted'
    BY <1>1, <1>3, OwnerCounted, CallCounted, WorksCounted
       DEF Next, PoolInv, IInv
  <2>2. Buried' /\ Delivered'
    BY <1>3, NextBuried, NextDelivered DEF PoolInv
  <2> QED
    BY <1>1, <2>1, <2>2 DEF PoolInv
<1> QED
  BY <1>2, <1>3

LEMMA PoolInvBegins ==
    ASSUME PoolAssumption, Init
    PROVE  PoolInv
<1>1. 1 \in Pools
  BY PoolsAre
<1>2. Live = {} /\ Cardinality(Live) = 0
  BY FS_EmptySet DEF Live, Init
<1>3. Counted
  BY <1>1, <1>2 DEF Init, Counted, PoolAssumption
<1>4. \A p \in Pools : 1..Len(idle[p]) = {}
  BY DEF Init
<1>5. Buried /\ Delivered
  BY <1>4 DEF Init, Buried, Delivered
<1> QED
  BY <1>3, <1>5, InvariantBegins DEF PoolInv

LEMMA CountedBounds ==
    ASSUME PoolAssumption, IInv, Counted, opens <= 1
    PROVE  Bounded
<1> SUFFICES ASSUME NEW p \in Pools
             PROVE  Cardinality(Idle(p) \cup {held[t] : t \in Borrowers(p)})
                    <= MaxSize
  BY DEF Bounded
<1> DEFINE S == Idle(p) \cup {held[t] : t \in Borrowers(p)}
<1>1. TypeOK /\ Control /\ Pools \subseteq Nat /\ None \notin Pools
  BY PoolsAre DEF IInv
<1>2. CASE p = 1
  <2>1. \A c \in Idle(p) : c \in Live
    BY <1>1 DEF Idle, IInv, InUse, TypeOK, Live
  <2>2. \A t \in Borrowers(p) : held[t] \in Live
    BY <1>1 DEF Borrowers, Control, IInv, InUse, TypeOK, Live
  <2>3. S \subseteq Live
    BY <2>1, <2>2
  <2>4. Cardinality(S) <= Cardinality(Live)
    BY <2>3, LiveCounted, FS_Subset
  <2>5. IsFiniteSet(S)
    BY <2>3, LiveCounted, FS_Subset
  <2>6. Cardinality(S) \in Nat
    BY <2>5, FS_CardinalityType
  <2>7. Cardinality(Live) <= MaxSize /\ MaxSize \in Nat
    BY DEF Counted, PoolAssumption
  <2> QED
    BY <2>4, <2>6, <2>7, LiveCounted
<1>3. CASE p # 1
  <2>1. p > 1
    BY <1>1, <1>3 DEF Pools, PoolAssumption
  <2>2. idle[p] = <<>> /\ \A t \in Threads : using[t] # p
    BY <1>1, <1>3, <2>1 DEF Counted
  <2>3. Idle(p) = {} /\ Borrowers(p) = {}
    BY <2>2 DEF Idle, Borrowers
  <2>4. S = {}
    BY <2>3
  <2> QED
    BY <2>4, FS_EmptySet DEF PoolAssumption
<1> QED
  BY <1>2, <1>3

LEMMA PoolIsKept ==
    ASSUME PoolAssumption, PoolInv
    PROVE  /\ Discards => IdleUsable
           /\ opens <= 1 => Bounded /\ SlotsKept /\ ResultKept
<1>1. TypeOK /\ IInv /\ Counted /\ Buried /\ Delivered
  BY DEF PoolInv, IInv
<1>2. ASSUME Discards PROVE IdleUsable
  <2>1. SUFFICES ASSUME NEW p \in Pools, NEW i \in 1..Len(idle[p])
                 PROVE  conn[idle[p][i]] \in {"ok", "lost"}
    BY DEF IdleUsable, Idle
  <2>2. idle[p][i] \in Conns
    BY <1>1 DEF TypeOK
  <2>3. conn[idle[p][i]] # "closed" /\ conn[idle[p][i]] # "dead"
    BY <1>1, <1>2, <2>2 DEF IInv, InUse, Buried, Had
  <2> QED
    BY <1>1, <2>2, <2>3 DEF TypeOK
<1>3. ASSUME opens <= 1 PROVE Bounded /\ SlotsKept /\ ResultKept
  <2>1. Bounded
    BY <1>1, <1>3, CountedBounds
  <2>2. SlotsKept
    BY <1>1, <1>3, PoolsAre DEF Counted, SlotsKept
  <2>3. ResultKept
    BY <1>1, <1>3 DEF Delivered, ResultKept
  <2> QED
    BY <2>1, <2>2, <2>3
<1> QED
  BY <1>2, <1>3

(* As long as the connector has been opened once, at most max_pool_size    *)
(* connections are idle in a pool or borrowed from it, no slot is lost or  *)
(* given twice, and what was committed is neither run again nor reported   *)
(* as failed while the connector is open: on MySQL and on StarRocks.       *)
THEOREM SlotsCounted ==
    ASSUME PoolAssumption
    PROVE  Spec => [](opens <= 1 => Bounded /\ SlotsKept /\ ResultKept)
<1>1. PoolInv => (opens <= 1 => Bounded /\ SlotsKept /\ ResultKept)
  BY PoolIsKept
<1> QED
  BY <1>1, PoolInvBegins, PoolInvKept, PTL DEF Spec

(* A pool that discards what it cannot roll back, that of MySQL, never     *)
(* hands out a connection that pymysql has given up, however often the     *)
(* connector is closed and opened.                                         *)
THEOREM NoneBroken ==
    ASSUME PoolAssumption, Discards
    PROVE  Spec => []IdleUsable
<1>1. PoolInv => IdleUsable
  BY PoolIsKept
<1> QED
  BY <1>1, PoolInvBegins, PoolInvKept, PTL DEF Spec

(* The pool of the MySQL connector, beside the other connectors: it puts   *)
(* no failed connection back, and as long as it has been opened once it    *)
(* keeps to its size, its slots and the results of its operations.         *)
THEOREM PoolKeeps ==
    ASSUME PoolAssumption, Discards
    PROVE  MCSpec => []PoolKept
<1> DEFINE Holds == part = "mysql" => PoolInv
<1>1. MCInit => Holds
  BY PoolInvBegins DEF MCInit
<1>2. Holds /\ [MCNext]_mcVars => Holds'
  <2> SUFFICES ASSUME Holds, [MCNext]_mcVars, part' = "mysql"
               PROVE  PoolInv'
    OBVIOUS
  <2>1. part = "mysql" /\ [Next]_vars
    <3>1. CASE UNCHANGED mcVars
      BY <3>1 DEF mcVars, vars, poolVars, threadVars
    <3>2. CASE MCNext
      BY <3>2 DEF MCNext
    <3> QED
      BY <3>1, <3>2
  <2> QED
    BY <2>1, PoolInvKept
<1>3. Holds => PoolKept
  BY PoolIsKept DEF PoolKept
<1> QED
  BY <1>1, <1>2, <1>3, PTL DEF MCSpec

-----------------------------------------------------------------------------
(* The attempts of one operation                                           *)

(* Those of the one kind of connector, or of the other.                    *)
Calls(K) == INSTANCE ConnectorRetry WITH Kind <- K, Retries <- CallRetries
CallKinds == {"postgres", "mysql"}

(* Statements of the operation.                                            *)
Size == IF op.name = "metadata" THEN Statements ELSE 1

(* Attempts are counted when they ask for a connection, and told before.   *)
AsksCounted ==
    /\ pc \in {"idle", "opening"} =>
           /\ index = 0 /\ told = 0 /\ attempts = 0 /\ error = None
           /\ op.limit = None
    /\ pc = "idle" => now = 0
    /\ pc = "attempt" => attempts = index
    /\ pc \in {"waiting", "set", "run", "running", "rows"} =>
           attempts = index + 1 /\ told = index
    /\ pc = "failed" =>
           /\ told = index
           /\ \/ attempts = index + 1
              \/ error = "deadline" /\ attempts = index
    /\ pc = "done" =>
           \/ attempts > 0 /\ told = attempts - 1
           \/ error = "deadline" /\ told = attempts
           \/ attempts = 0 /\ told = 0 /\ error = None

(* The snapshot serves when there is one, and only while it is sound.      *)
CallServed ==
    /\ pc = "waiting" => source = "pool" /\ snapshot = "none"
    /\ pc \in {"set", "run", "running", "rows"} =>
           source = IF snapshot = "none" THEN "pool" ELSE "snapshot"
    /\ pc \in {"run", "running", "rows"} => snapshot \in {"none", "sound"}
    /\ pc \in {"waiting", "set"} =>
           IF op.limit = None THEN left = None ELSE left \in 1 .. op.limit
    /\ pc \in {"run", "running"} => todo \in 1 .. Size

(* How late each place of a limited operation may be.                      *)
CallBounded(K) ==
    LET soon == op.limit + Calls(K)!Waited
        last == soon + (Size - 1) * Calls(K)!Each
        here == soon + (Size - todo) * grant
    IN  op.limit # None =>
        /\ pc \in {"attempt", "rows", "failed", "done"} => now <= last
        /\ pc = "waiting" => now <= until /\ until <= soon
        /\ pc = "set" /\ (K = "postgres" \/ snapshot # "none") =>
               now <= op.limit
        /\ K = "mysql" /\ snapshot = "none" =>
               /\ pc = "waiting" => until + left <= soon
               /\ pc = "set" => now + left <= soon
        /\ pc \in {"run", "running"} => grant <= Calls(K)!Each
        /\ pc = "run" => now + grant <= here
        /\ pc = "running" => now <= until /\ until <= here

CallInv(K) ==
    Calls(K)!TypeOK /\ AsksCounted /\ CallServed /\ CallBounded(K)

(* Every step of a call leaves its values of the declared kinds: an        *)
(* attempt is counted only when there is one left.                         *)
LEMMA CallTypes ==
    ASSUME NEW K \in CallKinds, Calls(K)!RetryAssumption, CallInv(K),
           Calls(K)!Next
    PROVE  Calls(K)!TypeOK'
<1> USE DEF CallKinds, CallInv, AsksCounted, CallServed, Size,
            Calls!RetryAssumption, Calls!TypeOK, Calls!work, Calls!Released,
            Calls!Fails, Calls!Failures, Calls!TypeOf, Calls!Remaining,
            Calls!Limited, Calls!Smaller
<1>1. ASSUME Calls(K)!Begins  PROVE Calls(K)!TypeOK'
  BY <1>1 DEF Calls!Begins, Calls!Start, Calls!StartEmpty,
     Calls!OpenSnapshot, Calls!CloseSnapshot
<1>2. CASE Calls(K)!DeadlinePassed
  BY <1>2 DEF Calls!DeadlinePassed
<1>3. CASE Calls(K)!Attempt
  BY <1>3 DEF Calls!Attempt, Calls!PoolWait
<1>4. CASE Calls(K)!Tick \/ Calls(K)!Borrow \/ Calls(K)!PoolFails
  BY <1>4 DEF Calls!Tick, Calls!Borrow, Calls!PoolFails
<1>5. CASE Calls(K)!SetLimit
  BY <1>5 DEF Calls!SetLimit, Calls!Limit, Calls!Usable
<1>6. CASE Calls(K)!WaitedAway \/ Calls(K)!NotUsable \/ Calls(K)!Run
  BY <1>6 DEF Calls!WaitedAway, Calls!NotUsable, Calls!Run
<1>7. CASE Calls(K)!StatementEnds
  BY <1>7 DEF Calls!StatementEnds
<1>8. CASE Calls(K)!StatementFails \/ Calls(K)!RowsFail
  BY <1>8 DEF Calls!StatementFails, Calls!RowsFail, Calls!Harm
<1>9. CASE Calls(K)!Succeeds \/ Calls(K)!GiveUp
  BY <1>9 DEF Calls!Succeeds, Calls!GiveUp
<1>10. CASE Calls(K)!Retry
  BY <1>10 DEF Calls!Retry
<1>11. CASE Calls(K)!Consume \/ Calls(K)!Opened
  BY <1>11 DEF Calls!Consume, Calls!Opened
<1> QED
  BY <1>1, <1>2, <1>3, <1>4, <1>5, <1>6, <1>7, <1>8, <1>9, <1>10, <1>11
     DEF Calls!Next, Calls!Continues

(* Every step keeps the count of the attempts, and what is told of it.     *)
LEMMA CallCounts ==
    ASSUME NEW K \in CallKinds, Calls(K)!RetryAssumption, CallInv(K),
           Calls(K)!Next
    PROVE  AsksCounted'
<1> USE DEF CallKinds, CallInv, AsksCounted, CallServed, Size,
            Calls!RetryAssumption, Calls!TypeOK, Calls!work, Calls!Released,
            Calls!Fails, Calls!Failures, Calls!TypeOf, Calls!Remaining,
            Calls!Limited, Calls!Smaller
<1>1. ASSUME Calls(K)!Begins  PROVE AsksCounted'
  BY <1>1 DEF Calls!Begins, Calls!Start, Calls!StartEmpty,
     Calls!OpenSnapshot, Calls!CloseSnapshot
<1>2. CASE Calls(K)!DeadlinePassed
  BY <1>2 DEF Calls!DeadlinePassed
<1>3. CASE Calls(K)!Attempt
  BY <1>3 DEF Calls!Attempt, Calls!PoolWait
<1>4. CASE Calls(K)!Tick \/ Calls(K)!Borrow \/ Calls(K)!PoolFails
  BY <1>4 DEF Calls!Tick, Calls!Borrow, Calls!PoolFails
<1>5. CASE Calls(K)!SetLimit
  BY <1>5 DEF Calls!SetLimit, Calls!Limit, Calls!Usable
<1>6. CASE Calls(K)!WaitedAway \/ Calls(K)!NotUsable \/ Calls(K)!Run
  BY <1>6 DEF Calls!WaitedAway, Calls!NotUsable, Calls!Run
<1>7. CASE Calls(K)!StatementEnds
  BY <1>7 DEF Calls!StatementEnds
<1>8. CASE Calls(K)!StatementFails \/ Calls(K)!RowsFail
  BY <1>8 DEF Calls!StatementFails, Calls!RowsFail, Calls!Harm
<1>9. CASE Calls(K)!Succeeds \/ Calls(K)!GiveUp
  BY <1>9 DEF Calls!Succeeds, Calls!GiveUp
<1>10. CASE Calls(K)!Retry
  BY <1>10 DEF Calls!Retry, Calls!Retryable
<1>11. CASE Calls(K)!Consume \/ Calls(K)!Opened
  BY <1>11 DEF Calls!Consume, Calls!Opened
<1> QED
  BY <1>1, <1>2, <1>3, <1>4, <1>5, <1>6, <1>7, <1>8, <1>9, <1>10, <1>11
     DEF Calls!Next, Calls!Continues

(* A connection is taken from the pool only when no snapshot is open.      *)
LEMMA CallServes ==
    ASSUME NEW K \in CallKinds, Calls(K)!RetryAssumption, CallInv(K),
           Calls(K)!Next
    PROVE  CallServed'
<1> USE DEF CallKinds, CallInv, AsksCounted, CallServed, Size,
            Calls!RetryAssumption, Calls!TypeOK, Calls!work, Calls!Released,
            Calls!Fails, Calls!Failures, Calls!TypeOf, Calls!Remaining,
            Calls!Limited, Calls!Smaller
<1>1. ASSUME Calls(K)!Begins  PROVE CallServed'
  BY <1>1 DEF Calls!Begins, Calls!Start, Calls!StartEmpty,
     Calls!OpenSnapshot, Calls!CloseSnapshot
<1>2. CASE Calls(K)!DeadlinePassed
  BY <1>2 DEF Calls!DeadlinePassed
<1>3. CASE Calls(K)!Attempt
  BY <1>3 DEF Calls!Attempt, Calls!PoolWait
<1>4. CASE Calls(K)!Tick \/ Calls(K)!Borrow \/ Calls(K)!PoolFails
  BY <1>4 DEF Calls!Tick, Calls!Borrow, Calls!PoolFails
<1>5. CASE Calls(K)!SetLimit
  BY <1>5 DEF Calls!SetLimit, Calls!Limit, Calls!Usable
<1>6. CASE Calls(K)!WaitedAway \/ Calls(K)!NotUsable \/ Calls(K)!Run
  BY <1>6 DEF Calls!WaitedAway, Calls!NotUsable, Calls!Run
<1>7. CASE Calls(K)!StatementEnds
  BY <1>7 DEF Calls!StatementEnds
<1>8. CASE Calls(K)!StatementFails \/ Calls(K)!RowsFail
  BY <1>8 DEF Calls!StatementFails, Calls!RowsFail, Calls!Harm
<1>9. CASE Calls(K)!Succeeds \/ Calls(K)!GiveUp
  BY <1>9 DEF Calls!Succeeds, Calls!GiveUp
<1>10. CASE Calls(K)!Retry
  BY <1>10 DEF Calls!Retry
<1>11. CASE Calls(K)!Consume \/ Calls(K)!Opened
  BY <1>11 DEF Calls!Consume, Calls!Opened
<1> QED
  BY <1>1, <1>2, <1>3, <1>4, <1>5, <1>6, <1>7, <1>8, <1>9, <1>10, <1>11
     DEF Calls!Next, Calls!Continues

(* Products of natural numbers are natural numbers.                        *)
LEMMA Product == \A m, n \in Nat : m * n \in Nat
  OBVIOUS

(* More shares of a larger size are more.                                  *)
LEMMA Products ==
    ASSUME NEW m \in Nat, NEW n \in Nat, m <= n,
           NEW g \in Nat, NEW e \in Nat, g <= e
    PROVE  m * g <= n * e
<1>1. m * g + (n - m) * g = n * g /\ (n - m) * g \in Nat
  <2>1. n - m \in Nat
    OBVIOUS
  <2> QED
    BY <2>1, Product
<1>2. n * g + n * (e - g) = n * e /\ n * (e - g) \in Nat
  <2>1. e - g \in Nat
    OBVIOUS
  <2> QED
    BY <2>1, Product
<1>3. m * g \in Nat /\ n * g \in Nat /\ n * e \in Nat
  BY Product
<1> QED
  BY <1>1, <1>2, <1>3

(* Every step keeps to the time there is: a new limit is what is left of   *)
(* the operation's, a statement uses up one more share of it.              *)
LEMMA CallBounds ==
    ASSUME NEW K \in CallKinds, Calls(K)!RetryAssumption, CallInv(K),
           Calls(K)!Next
    PROVE  CallBounded(K)'
<1> USE DEF CallKinds, CallInv, AsksCounted, CallServed, CallBounded, Size,
            Calls!Each, Calls!Waited,
            Calls!RetryAssumption, Calls!TypeOK, Calls!work, Calls!Released,
            Calls!Fails, Calls!Failures, Calls!TypeOf, Calls!Remaining,
            Calls!Limited, Calls!Smaller
<1> DEFINE each == Calls(K)!Each
           waited == Calls(K)!Waited
<1>a. op.limit # None => each \in Nat /\ waited \in Nat
  OBVIOUS
<1>b. Size \in Nat \ {0}
  OBVIOUS
<1>c. op.limit # None => (Size - 1) * each \in Nat
  <2> HIDE DEF Size, each
  <2> QED BY <1>a, <1>b, Product
<1>d. op.limit # None /\ pc = "running" =>
          (Size - todo) * grant <= (Size - 1) * each
  <2> SUFFICES ASSUME op.limit # None, pc = "running"
               PROVE  (Size - todo) * grant <= (Size - 1) * each
    OBVIOUS
  <2>1. Size - todo \in Nat /\ Size - 1 \in Nat /\ Size - todo <= Size - 1
    OBVIOUS
  <2>2. grant \in Nat /\ grant <= each
    OBVIOUS
  <2> HIDE DEF Size, each, CallInv
  <2> QED
    BY <2>1, <2>2, <1>a, Products
<1>e. ASSUME UNCHANGED op, (snapshot' = "none") <=> (snapshot = "none")
      PROVE  each' = each /\ waited' = waited /\ Size' = Size
  BY <1>e
<1>1. ASSUME Calls(K)!Begins  PROVE CallBounded(K)'
  BY <1>1 DEF Calls!Begins, Calls!Start, Calls!StartEmpty,
     Calls!OpenSnapshot, Calls!CloseSnapshot
<1>2. CASE Calls(K)!DeadlinePassed
  BY <1>2 DEF Calls!DeadlinePassed
<1>3. CASE Calls(K)!Attempt
  BY <1>3 DEF Calls!Attempt, Calls!PoolWait
<1>4. CASE Calls(K)!Tick \/ Calls(K)!Borrow \/ Calls(K)!PoolFails
  BY <1>4 DEF Calls!Tick, Calls!Borrow, Calls!PoolFails
<1>5. CASE Calls(K)!SetLimit
  <2> USE <1>5 DEF Calls!SetLimit
  <2>1. todo' = Size /\ Size' = Size /\ each' = each /\ waited' = waited
    BY <1>e
  <2>2. grant' \in Nat /\ (Size' - todo') * grant' = 0
    <3>1. grant' \in Nat
      BY DEF Calls!Limit
    <3>2. Size' - todo' = 0
      BY <2>1
    <3> HIDE DEF Size
    <3> QED
      BY <3>1, <3>2
  <2>3. op.limit # None =>
            /\ grant' <= each /\ now + grant' <= op.limit + waited
    <3>1. CASE K = "postgres"
      BY <3>1 DEF Calls!Limit
    <3>2. CASE K = "mysql" /\ snapshot = "none"
      BY <3>2 DEF Calls!Limit
    <3>3. CASE K = "mysql" /\ snapshot # "none"
      BY <3>3 DEF Calls!Limit
    <3> QED
      BY <3>1, <3>2, <3>3
  <2>4. pc' = "run" /\ UNCHANGED <<op, now>>
    OBVIOUS
  <2>5. op.limit # None => each \in Nat /\ waited \in Nat /\ op.limit \in Nat
                            /\ now \in Nat
    BY <1>a
  <2> HIDE DEF Size, CallInv, Calls!SetLimit, Calls!Each, Calls!Waited
  <2> QED
    BY <2>1, <2>2, <2>3, <2>4, <2>5
<1>6. CASE Calls(K)!WaitedAway \/ Calls(K)!NotUsable
  <2>1. pc' = "failed" /\ UNCHANGED <<op, now, snapshot>>
    BY <1>6 DEF Calls!WaitedAway, Calls!NotUsable
  <2>2. op.limit # None => now <= op.limit + waited
    BY <1>6 DEF Calls!WaitedAway, Calls!NotUsable
  <2>3. each' = each /\ waited' = waited /\ Size' = Size
    BY <2>1, <1>e
  <2> QED
    BY <2>1, <2>2, <2>3, <1>a, <1>c
<1>12. CASE Calls(K)!Run
  BY <1>12 DEF Calls!Run
<1>7. CASE Calls(K)!StatementEnds
  BY <1>7 DEF Calls!StatementEnds
<1>8. CASE Calls(K)!StatementFails \/ Calls(K)!RowsFail
  <2>1. /\ pc' = "failed" /\ UNCHANGED <<op, now>>
        /\ (snapshot' = "none") <=> (snapshot = "none")
    BY <1>8 DEF Calls!StatementFails, Calls!RowsFail, Calls!Harm
  <2>2. op.limit # None => now <= op.limit + waited + (Size - 1) * each
    BY <1>8, <1>a, <1>c, <1>d DEF Calls!StatementFails, Calls!RowsFail
  <2>3. each' = each /\ waited' = waited /\ Size' = Size
    BY <2>1, <1>e
  <2> QED
    BY <2>1, <2>2, <2>3
<1>9. CASE Calls(K)!Succeeds \/ Calls(K)!GiveUp
  BY <1>9 DEF Calls!Succeeds, Calls!GiveUp
<1>10. CASE Calls(K)!Retry
  BY <1>10 DEF Calls!Retry
<1>11. CASE Calls(K)!Consume \/ Calls(K)!Opened
  BY <1>11 DEF Calls!Consume, Calls!Opened
<1> QED
  BY <1>1, <1>2, <1>3, <1>4, <1>5, <1>6, <1>7, <1>8, <1>9, <1>10, <1>11,
     <1>12
     DEF Calls!Next, Calls!Continues

(* The calls of PostgreSQL are those of that kind.                         *)
LEMMA PostgresSteps == PG!Next <=> Calls("postgres")!Next
  BY DEF
     PG!Next, PG!Begins, PG!Continues, PG!Start, PG!StartEmpty,
     PG!OpenSnapshot, PG!CloseSnapshot, PG!DeadlinePassed, PG!Attempt, PG!Tick,
     PG!Borrow, PG!PoolFails, PG!SetLimit, PG!WaitedAway, PG!NotUsable, PG!Run,
     PG!StatementEnds, PG!StatementFails, PG!Succeeds, PG!RowsFail, PG!Retry,
     PG!GiveUp, PG!Consume, PG!Opened, PG!PoolWait, PG!Usable, PG!Limit,
     PG!Harm, PG!Retryable, PG!TypeOf, PG!Released, PG!work, PG!Fails,
     PG!Limited, PG!Remaining, PG!Smaller, Calls!Next, Calls!Begins,
     Calls!Continues, Calls!Start, Calls!StartEmpty, Calls!OpenSnapshot,
     Calls!CloseSnapshot, Calls!DeadlinePassed, Calls!Attempt, Calls!Tick,
     Calls!Borrow, Calls!PoolFails, Calls!SetLimit, Calls!WaitedAway,
     Calls!NotUsable, Calls!Run, Calls!StatementEnds, Calls!StatementFails,
     Calls!Succeeds, Calls!RowsFail, Calls!Retry, Calls!GiveUp, Calls!Consume,
     Calls!Opened, Calls!PoolWait, Calls!Usable, Calls!Limit, Calls!Harm,
     Calls!Retryable, Calls!TypeOf, Calls!Released, Calls!work, Calls!Fails,
     Calls!Limited, Calls!Remaining, Calls!Smaller

LEMMA PostgresBegins ==
    /\ PG!Init => Calls("postgres")!Init
    /\ PG!RetryAssumption => Calls("postgres")!RetryAssumption
  BY DEF PG!Init, PG!RetryAssumption, Calls!Init, Calls!RetryAssumption

LEMMA PostgresTells ==
    /\ Calls("postgres")!RetriesTold => PG!RetriesTold
    /\ Calls("postgres")!ExecuteInTime => PG!ExecuteInTime
    /\ Calls("postgres")!OverrunBounded => PG!OverrunBounded
    /\ Calls("postgres")!SnapshotServes => PG!SnapshotServes
  BY DEF
     PG!RetriesTold, PG!ExecuteInTime, PG!OverrunBounded, PG!SnapshotServes,
     PG!Late, PG!Limited, PG!Each, PG!Waited, PG!Smaller, Calls!RetriesTold,
     Calls!ExecuteInTime, Calls!OverrunBounded, Calls!SnapshotServes,
     Calls!Late, Calls!Limited, Calls!Each, Calls!Waited, Calls!Smaller

(* The calls of MySQL are those of that kind.                              *)
LEMMA MySQLSteps == MC!Next <=> Calls("mysql")!Next
  BY DEF
     MC!Next, MC!Begins, MC!Continues, MC!Start, MC!StartEmpty,
     MC!OpenSnapshot, MC!CloseSnapshot, MC!DeadlinePassed, MC!Attempt, MC!Tick,
     MC!Borrow, MC!PoolFails, MC!SetLimit, MC!WaitedAway, MC!NotUsable, MC!Run,
     MC!StatementEnds, MC!StatementFails, MC!Succeeds, MC!RowsFail, MC!Retry,
     MC!GiveUp, MC!Consume, MC!Opened, MC!PoolWait, MC!Usable, MC!Limit,
     MC!Harm, MC!Retryable, MC!TypeOf, MC!Released, MC!work, MC!Fails,
     MC!Limited, MC!Remaining, MC!Smaller, Calls!Next, Calls!Begins,
     Calls!Continues, Calls!Start, Calls!StartEmpty, Calls!OpenSnapshot,
     Calls!CloseSnapshot, Calls!DeadlinePassed, Calls!Attempt, Calls!Tick,
     Calls!Borrow, Calls!PoolFails, Calls!SetLimit, Calls!WaitedAway,
     Calls!NotUsable, Calls!Run, Calls!StatementEnds, Calls!StatementFails,
     Calls!Succeeds, Calls!RowsFail, Calls!Retry, Calls!GiveUp, Calls!Consume,
     Calls!Opened, Calls!PoolWait, Calls!Usable, Calls!Limit, Calls!Harm,
     Calls!Retryable, Calls!TypeOf, Calls!Released, Calls!work, Calls!Fails,
     Calls!Limited, Calls!Remaining, Calls!Smaller

LEMMA MySQLBegins ==
    /\ MC!Init => Calls("mysql")!Init
    /\ MC!RetryAssumption => Calls("mysql")!RetryAssumption
  BY DEF MC!Init, MC!RetryAssumption, Calls!Init, Calls!RetryAssumption

LEMMA MySQLTells ==
    /\ Calls("mysql")!RetriesTold => MC!RetriesTold
    /\ Calls("mysql")!ExecuteInTime => MC!ExecuteInTime
    /\ Calls("mysql")!OverrunBounded => MC!OverrunBounded
    /\ Calls("mysql")!SnapshotServes => MC!SnapshotServes
  BY DEF
     MC!RetriesTold, MC!ExecuteInTime, MC!OverrunBounded, MC!SnapshotServes,
     MC!Late, MC!Limited, MC!Each, MC!Waited, MC!Smaller, Calls!RetriesTold,
     Calls!ExecuteInTime, Calls!OverrunBounded, Calls!SnapshotServes,
     Calls!Late, Calls!Limited, Calls!Each, Calls!Waited, Calls!Smaller

(* The invariant of a call holds at first, and no step breaks it.          *)
LEMMA CallsBegin ==
    ASSUME NEW K \in CallKinds, Calls(K)!RetryAssumption, Calls(K)!Init
    PROVE  CallInv(K)
  BY DEF CallKinds, CallInv, AsksCounted, CallServed, CallBounded, Calls!Init,
     Calls!TypeOK, Calls!RetryAssumption

LEMMA CallsStep ==
    ASSUME NEW K \in CallKinds, Calls(K)!RetryAssumption, CallInv(K),
           Calls(K)!Next
    PROVE  CallInv(K)'
  BY CallTypes, CallCounts, CallServes, CallBounds DEF CallInv

LEMMA CallsStay ==
    ASSUME NEW K \in CallKinds, CallInv(K),
           UNCHANGED <<now, pc, op, index, told, until, left, grant, todo,
                       source, snapshot, error, attempts, ops>>
    PROVE  CallInv(K)'
  BY DEF CallInv, AsksCounted, CallServed, CallBounded, Size, Calls!TypeOK,
     Calls!Each, Calls!Waited, Calls!Smaller

(* What is known of an operation that has ended, or answers.               *)
LEMMA CallTells ==
    ASSUME NEW K \in CallKinds, Calls(K)!RetryAssumption, CallInv(K)
    PROVE  /\ Calls(K)!RetriesTold /\ Calls(K)!OverrunBounded
           /\ K = "postgres" => Calls(K)!ExecuteInTime
           /\ Calls(K)!Next => Calls(K)!SnapshotServes
<1>1. Calls(K)!RetriesTold
  BY DEF CallInv, AsksCounted, Calls!RetriesTold
<1>2. pc = "done" /\ op.limit # None =>
          now <= op.limit + Calls(K)!Waited + (Size - 1) * Calls(K)!Each
  BY DEF CallInv, CallBounded
<1>3. op.limit # None => /\ now \in Nat /\ op.limit \in Nat
                         /\ Calls(K)!Waited \in Nat /\ Calls(K)!Each \in Nat
                         /\ K = "postgres" => Calls(K)!Waited = 0
  BY DEF CallInv, CallKinds, Calls!TypeOK, Calls!RetryAssumption,
     Calls!Waited, Calls!Each, Calls!Smaller
<1>4. Size \in Nat
  BY DEF Size, Calls!RetryAssumption
<1>5. op.limit # None => (Size - 1) * Calls(K)!Each \in Int
  <2>1. \A m, n \in Int : m * n \in Int
    OBVIOUS
  <2> QED
    BY <2>1, <1>3, <1>4
<1>6. Calls(K)!OverrunBounded
  BY <1>2, <1>3, <1>5
     DEF Size, Calls!OverrunBounded, Calls!Limited, Calls!Late
<1>7. K = "postgres" => Calls(K)!ExecuteInTime
  <2> SUFFICES ASSUME K = "postgres", pc = "done", op.name = "execute",
                      op.limit # None
               PROVE  now - op.limit <= 0
    BY DEF Calls!ExecuteInTime, Calls!Limited, Calls!Late
  <2>1. Size - 1 = 0
    BY DEF Size
  <2>2. 0 * Calls(K)!Each = 0
    BY <1>3
  <2> QED
    BY <2>1, <2>2, <1>2, <1>3
<1>8. Calls(K)!Next => Calls(K)!SnapshotServes
  BY DEF CallInv, CallServed, Calls!SnapshotServes
<1> QED
  BY <1>1, <1>6, <1>7, <1>8

(* An operation of PostgreSQL or MySQL, for any limits, timeouts, retries  *)
(* and numbers of statements, tells how often it was tried again and ends  *)
(* as late as its statements and its wait in the pool may make it, no      *)
(* execute of PostgreSQL later than its timeout; and while a snapshot is   *)
(* open nothing is answered from outside of it.                            *)
THEOREM CallsAreKept ==
    ASSUME PG!RetryAssumption, MC!RetryAssumption
    PROVE  MCSpec => CallsKept
<1> DEFINE Holds == /\ part = "postgres" => CallInv("postgres")
                    /\ part = "mysql calls" => CallInv("mysql")
           Postgres == part = "postgres" =>
               PG!RetriesTold /\ PG!ExecuteInTime /\ PG!OverrunBounded
           MySQL == part = "mysql calls" => MC!RetriesTold /\ MC!OverrunBounded
           Serves == /\ part = "postgres" => PG!SnapshotServes
                     /\ part = "mysql calls" => MC!SnapshotServes
<1>1. "postgres" \in CallKinds /\ "mysql" \in CallKinds
  BY DEF CallKinds
<1>2. Calls("postgres")!RetryAssumption /\ Calls("mysql")!RetryAssumption
  BY PostgresBegins, MySQLBegins
<1>3. MCInit => Holds
  BY <1>1, <1>2, PostgresBegins, MySQLBegins, CallsBegin DEF MCInit
<1>4. Holds /\ [MCNext]_mcVars => Holds'
  <2> SUFFICES ASSUME Holds, [MCNext]_mcVars
               PROVE  Holds'
    OBVIOUS
  <2>1. CASE UNCHANGED mcVars
    BY <2>1, <1>1, CallsStay DEF mcVars
  <2>2. ASSUME MCNext, part' = "postgres"
        PROVE  CallInv("postgres")'
    BY <2>2, <1>1, <1>2, PostgresSteps, CallsStep DEF MCNext
  <2>3. ASSUME MCNext, part' = "mysql calls"
        PROVE  CallInv("mysql")'
    BY <2>3, <1>1, <1>2, MySQLSteps, CallsStep DEF MCNext
  <2> QED
    BY <2>1, <2>2, <2>3
<1>5. Holds => Postgres /\ MySQL
  BY <1>1, <1>2, CallTells, PostgresTells, MySQLTells
<1>6. Holds /\ [MCNext]_mcVars => [Serves]_mcVars
  <2> SUFFICES ASSUME Holds, MCNext
               PROVE  Serves
    OBVIOUS
  <2>1. CASE part = "postgres"
    BY <2>1, <1>1, <1>2, PostgresSteps, CallTells, PostgresTells DEF MCNext
  <2>2. CASE part = "mysql calls"
    BY <2>2, <1>1, <1>2, MySQLSteps, CallTells, MySQLTells DEF MCNext
  <2> QED
    BY <2>1, <2>2
<1> QED
  BY <1>3, <1>4, <1>5, <1>6, PTL DEF MCSpec, CallsKept
-----------------------------------------------------------------------------
(* The types of all parts.  The pool of StarRocks puts back the connection *)
(* of a failed attempt, so that a thread holds one a little longer.        *)

StarHands ==
    \A t \in {u1, u2} :
        /\ (held[t] # None) <=> pc[t] \in {"begin", "run", "putback", "put"}
        /\ pc[t] \in {"get", "grow", "wait", "put"} =>
               using[t] \in StarRocks!Pools

StarInv ==
    /\ StarRocks!TypeOK /\ StarHands
    /\ owner # "away" => pool \in StarRocks!Pools

LEMMA StarConstants ==
    /\ StarRocks!Pools = {1} /\ None \notin {d1, d2} /\ None \notin Nat
    /\ 1 \in Nat
BY MCAssumption DEF MCAssumption, StarRocks!PoolAssumption, StarRocks!Pools

(* What a thread has when its attempt ends.                                *)
LEMMA StarEnds ==
    ASSUME StarRocks!TypeOK, StarHands, NEW t \in {u1, u2},
           NEW how \in {"ok", "again", "fatal"}, StarRocks!Ends(t, how)
    PROVE  /\ pc' \in [{u1, u2} -> {"out", "borrow", "get", "grow", "wait",
                                    "begin", "run", "putback", "put"}]
           /\ using' \in [{u1, u2} -> StarRocks!Pools \cup {None}]
           /\ held' \in [{u1, u2} -> {d1, d2} \cup {None}]
           /\ retry' \in [{u1, u2} -> 0..1]
           /\ pending' \in [{u1, u2} -> {"ok", "again", "fatal"}]
           /\ answer' \in [{u1, u2} -> {"none", "rows", "error"}]
           /\ StarHands'
<1>1. /\ held' = [held EXCEPT ![t] = None]
      /\ using' = [using EXCEPT ![t] = None]
      /\ pending' = [pending EXCEPT ![t] = "ok"]
  BY DEF StarRocks!Ends, StarRocks!Forgets
<1>2. /\ \E place \in {"borrow", "out"} : pc' = [pc EXCEPT ![t] = place]
      /\ retry' \in [{u1, u2} -> 0..1]
      /\ answer' \in [{u1, u2} -> {"none", "rows", "error"}]
  BY DEF StarRocks!Ends, StarRocks!TypeOK
<1>3. PICK place \in {"borrow", "out"} : pc' = [pc EXCEPT ![t] = place]
  BY <1>2
<1>4. StarHands'
  BY <1>1, <1>3 DEF StarHands, StarRocks!TypeOK
<1> QED
  BY <1>1, <1>2, <1>3, <1>4 DEF StarRocks!TypeOK

(* What a thread that goes on has: it keeps its connection and its pool.   *)
LEMMA StarGoes ==
    ASSUME StarRocks!TypeOK, StarHands, NEW t \in {u1, u2},
           NEW place \in {"grow", "wait", "run", "putback"},
           StarRocks!Goes(t, place), UNCHANGED <<held, using>>,
           place \in {"grow", "wait"} => pc[t] \in {"get", "grow"},
           place \in {"run", "putback"} => pc[t] \in {"begin", "run"}
    PROVE  /\ pc' \in [{u1, u2} -> {"out", "borrow", "get", "grow", "wait",
                                    "begin", "run", "putback", "put"}]
           /\ StarHands'
<1>1. pc' = [pc EXCEPT ![t] = place]
  BY DEF StarRocks!Goes
<1>2. pc' \in [{u1, u2} -> {"out", "borrow", "get", "grow", "wait",
                            "begin", "run", "putback", "put"}]
  BY <1>1 DEF StarRocks!TypeOK
<1>3. ASSUME NEW u \in {u1, u2}
      PROVE  /\ (held'[u] # None)
                    <=> pc'[u] \in {"begin", "run", "putback", "put"}
             /\ pc'[u] \in {"get", "grow", "wait", "put"} =>
                    using'[u] \in StarRocks!Pools
  <2>1. /\ (held[u] # None) <=> pc[u] \in {"begin", "run", "putback", "put"}
        /\ pc[u] \in {"get", "grow", "wait", "put"} =>
               using[u] \in StarRocks!Pools
    BY DEF StarHands
  <2>2. held'[u] = held[u] /\ using'[u] = using[u]
    OBVIOUS
  <2>3. pc'[u] = IF u = t THEN place ELSE pc[u]
    BY <1>1 DEF StarRocks!TypeOK
  <2> QED
    BY <2>1, <2>2, <2>3
<1>4. StarRocks!Pools' = StarRocks!Pools
  BY DEF StarRocks!Pools
<1> QED
  BY <1>2, <1>3, <1>4 DEF StarHands

(* A thread that finds its connection useless.                             *)
LEMMA StarUnusable ==
    ASSUME StarInv, NEW t \in {u1, u2}, pc[t] \in {"begin", "run"},
           NEW how \in {"ok", "again", "fatal"}, StarRocks!Unusable(t, how)
    PROVE  StarInv'
<1>1. /\ conn' = [conn EXCEPT ![held[t]] = IF @ = "lost" THEN "dead" ELSE @]
      /\ pending' = [pending EXCEPT ![t] = how]
      /\ StarRocks!Goes(t, "putback")
      /\ UNCHANGED <<pool, opens, filled, owner, idle, created, closed, kind,
                     using, held, retry, committed, answer>>
  BY DEF StarRocks!Unusable
<1>2. /\ pc' \in [{u1, u2} -> {"out", "borrow", "get", "grow", "wait",
                               "begin", "run", "putback", "put"}]
      /\ StarHands'
  BY <1>1, StarGoes DEF StarInv
<1>3. StarRocks!TypeOK
  BY DEF StarInv
<1>4. held[t] \in {d1, d2}
  BY <1>3 DEF StarInv, StarHands, StarRocks!TypeOK
<1>5. conn' \in [{d1, d2} -> {"ok", "lost", "dead", "closed"}]
  BY <1>1, <1>3, <1>4 DEF StarRocks!TypeOK
<1>6. pending' \in [{u1, u2} -> {"ok", "again", "fatal"}]
  BY <1>1, <1>3 DEF StarRocks!TypeOK
<1>7. StarRocks!TypeOK'
  BY <1>1, <1>2, <1>3, <1>5, <1>6 DEF StarRocks!TypeOK, StarRocks!Pools
<1> QED
  BY <1>1, <1>2, <1>7 DEF StarInv, StarRocks!Pools

(* The owner, and a server that drops a connection.                        *)
LEMMA StarOwner ==
    ASSUME StarInv, StarRocks!Owner \/ \E c \in {d1, d2} : StarRocks!Lose(c)
    PROVE  StarInv'
<1>1. StarRocks!TypeOK /\ StarHands
  BY DEF StarInv
<1>2. UNCHANGED StarRocks!threadVars
  BY DEF StarRocks!Owner, StarRocks!Open, StarRocks!Fill, StarRocks!Opened,
     StarRocks!Close, StarRocks!Drain, StarRocks!Closed, StarRocks!Lose
<1>3. StarHands'
  BY <1>1, <1>2 DEF StarHands, StarRocks!threadVars, StarRocks!Pools
<1>4. /\ pool' \in StarRocks!Pools \cup {None} /\ opens' \in 0..1
      /\ filled' \in 0..1 /\ owner' \in {"away", "fill", "here", "drain"}
      /\ idle' \in [StarRocks!Pools -> Seq({d1, d2})]
      /\ created' \in [StarRocks!Pools -> Nat]
      /\ closed' \in [StarRocks!Pools -> BOOLEAN]
      /\ conn' \in [{d1, d2} -> {"ok", "lost", "dead", "closed"}]
      /\ owner' # "away" => pool' \in StarRocks!Pools
  <2>1. CASE StarRocks!Open
    <3>1. opens + 1 \in 0..1 /\ opens + 1 \in StarRocks!Pools
      BY <1>1, <2>1, StarConstants DEF StarRocks!Open, StarRocks!TypeOK
    <3> QED
      BY <1>1, <2>1, <3>1 DEF StarRocks!Open, StarRocks!TypeOK
  <2>2. CASE StarRocks!Fill
    <3>1. pool \in StarRocks!Pools /\ filled + 1 \in 0..1
      BY <1>1, <2>2 DEF StarInv, StarRocks!Fill, StarRocks!TypeOK
    <3>2. PICK c \in {d1, d2} :
              /\ conn' = [conn EXCEPT ![c] = "ok"]
              /\ idle' = [idle EXCEPT ![pool] = Append(@, c)]
              /\ created' = [created EXCEPT ![pool] = @ + 1]
      BY <2>2 DEF StarRocks!Fill
    <3>3. Append(idle[pool], c) \in Seq({d1, d2}) /\ created[pool] + 1 \in Nat
      BY <1>1, <3>1 DEF StarRocks!TypeOK
    <3> QED
      BY <1>1, <2>2, <3>1, <3>2, <3>3 DEF StarRocks!Fill, StarRocks!TypeOK
  <2>3. CASE StarRocks!Opened
    BY <1>1, <2>3 DEF StarInv, StarRocks!Opened, StarRocks!TypeOK
  <2>4. CASE StarRocks!Close
    BY <1>1, <2>4 DEF StarInv, StarRocks!Close, StarRocks!TypeOK
  <2>5. CASE StarRocks!Drain
    <3>1. pool \in StarRocks!Pools
      BY <2>5 DEF StarInv, StarRocks!Drain
    <3>2. Tail(idle[pool]) \in Seq({d1, d2})
      BY <1>1, <2>5, <3>1 DEF StarRocks!Drain, StarRocks!TypeOK
    <3>3. (IF created[pool] = 0 THEN 0 ELSE created[pool] - 1) \in Nat
      BY <1>1, <3>1 DEF StarRocks!TypeOK
    <3>4. /\ idle' = [idle EXCEPT ![pool] = Tail(idle[pool])]
          /\ created' = [created EXCEPT ![pool] =
                             IF created[pool] = 0 THEN 0
                             ELSE created[pool] - 1]
          /\ conn' = [conn EXCEPT ![Head(idle[pool])] = "closed"]
          /\ UNCHANGED <<pool, opens, filled, owner, closed>>
      BY <2>5 DEF StarRocks!Drain, StarRocks!Discard
    <3> QED
      BY <1>1, <3>1, <3>2, <3>3, <3>4 DEF StarRocks!TypeOK
  <2>6. CASE StarRocks!Closed
    BY <1>1, <2>6 DEF StarRocks!Closed, StarRocks!TypeOK
  <2>7. CASE \E c \in {d1, d2} : StarRocks!Lose(c)
    BY <1>1, <2>7 DEF StarInv, StarRocks!Lose, StarRocks!TypeOK
  <2> QED
    BY <2>1, <2>2, <2>3, <2>4, <2>5, <2>6, <2>7 DEF StarRocks!Owner
<1>5. StarRocks!TypeOK'
  BY <1>1, <1>2, <1>4
     DEF StarRocks!TypeOK, StarRocks!threadVars, StarRocks!Pools
<1> QED
  BY <1>3, <1>4, <1>5 DEF StarInv, StarRocks!Pools

(* What a thread takes, creates or puts back.                              *)
LEMMA StarWorks ==
    ASSUME StarInv, NEW t \in {u1, u2},
           StarRocks!Call(t) \/ StarRocks!Works(t)
    PROVE  StarInv'
<1>1. StarRocks!TypeOK /\ StarHands
  BY DEF StarInv
<1>2. /\ pc[t] \in {"get", "grow", "wait", "put"} =>
             using[t] \in StarRocks!Pools
      /\ pc[t] \in {"begin", "run", "putback", "put"} => held[t] \in {d1, d2}
      /\ pending[t] \in {"ok", "again", "fatal"}
  BY <1>1 DEF StarHands, StarRocks!TypeOK
<1>3. StarRocks!Pools' = StarRocks!Pools
  BY DEF StarRocks!Pools
<1>4. ASSUME NEW how \in {"ok", "again", "fatal"}, StarRocks!Ends(t, how),
             UNCHANGED <<pool, opens, filled, owner, closed, kind, committed>>,
             idle' \in [StarRocks!Pools -> Seq({d1, d2})],
             created' \in [StarRocks!Pools -> Nat],
             conn' \in [{d1, d2} -> {"ok", "lost", "dead", "closed"}]
      PROVE  StarInv'
  BY <1>1, <1>3, <1>4, StarEnds DEF StarInv, StarRocks!TypeOK
<1>5. ASSUME NEW place \in {"grow", "wait", "run", "putback"},
             StarRocks!Goes(t, place),
             UNCHANGED <<StarRocks!poolVars, kind, using, held, retry, answer>>,
             place \in {"grow", "wait"} => pc[t] \in {"get", "grow"},
             place \in {"run", "putback"} => pc[t] \in {"begin", "run"},
             pending' \in [{u1, u2} -> {"ok", "again", "fatal"}],
             committed' \in [{u1, u2} -> BOOLEAN]
      PROVE  StarInv'
  BY <1>1, <1>3, <1>5, StarGoes
     DEF StarInv, StarRocks!TypeOK, StarRocks!poolVars
<1>6. ASSUME NEW p \in StarRocks!Pools
      PROVE  (IF created[p] = 0 THEN 0 ELSE created[p] - 1) \in Nat
  BY <1>1 DEF StarRocks!TypeOK
<1>7. ASSUME NEW p \in StarRocks!Pools, NEW c, StarRocks!Discard(p, c)
      PROVE  /\ created' \in [StarRocks!Pools -> Nat]
             /\ conn' \in [{d1, d2} -> {"ok", "lost", "dead", "closed"}]
  <2>1. /\ created' = [created EXCEPT ![p] = IF created[p] = 0 THEN 0
                                             ELSE created[p] - 1]
        /\ conn' = [conn EXCEPT ![c] = "closed"]
    BY <1>7 DEF StarRocks!Discard
  <2> QED
    BY <1>1, <1>6, <2>1 DEF StarRocks!TypeOK
<1>8. CASE \/ StarRocks!TimedOut(t) \/ StarRocks!GrowFails(t)
           \/ StarRocks!Exhausted(t)
           \/ /\ StarRocks!Borrow(t) /\ StarRocks!poolVars' = StarRocks!poolVars
              /\ StarRocks!Ends(t, "again") \/ StarRocks!Ends(t, "fatal")
  <2>1. /\ StarRocks!Ends(t, "again") \/ StarRocks!Ends(t, "fatal")
        /\ UNCHANGED <<pool, opens, filled, owner, closed, kind, committed>>
        /\ UNCHANGED <<idle, created, conn>>
    BY <1>8 DEF StarRocks!TimedOut, StarRocks!GrowFails, StarRocks!Exhausted,
       StarRocks!Borrow, StarRocks!poolVars
  <2> QED
    BY <1>1, <1>4, <2>1 DEF StarRocks!TypeOK
<1>9. CASE StarRocks!Call(t)
  <2>1. /\ kind' \in [{u1, u2} -> {"execute", "snapshot"}]
        /\ retry' = [retry EXCEPT ![t] = 0]
        /\ committed' = [committed EXCEPT ![t] = FALSE]
        /\ answer' = [answer EXCEPT ![t] = "none"]
        /\ pc' = [pc EXCEPT ![t] = "borrow"] /\ pc[t] = "out"
        /\ UNCHANGED <<StarRocks!poolVars, using, held, pending>>
    BY <1>1, <1>9 DEF StarRocks!Call, StarRocks!Goes, StarRocks!TypeOK
  <2>2. StarHands'
    BY <1>1, <1>3, <2>1 DEF StarHands, StarRocks!TypeOK
  <2> QED
    BY <1>1, <1>3, <2>1, <2>2
       DEF StarInv, StarRocks!TypeOK, StarRocks!poolVars
<1>10. CASE StarRocks!Borrow(t)
  <2>1. CASE StarRocks!Ends(t, "again") \/ StarRocks!Ends(t, "fatal")
    BY <1>8, <1>10, <2>1 DEF StarRocks!Borrow
  <2>2. CASE /\ pool # None /\ using' = [using EXCEPT ![t] = pool]
             /\ StarRocks!Goes(t, "get")
             /\ UNCHANGED <<held, retry, pending, answer>>
    <3>1. /\ pc' = [pc EXCEPT ![t] = "get"] /\ pool \in StarRocks!Pools
          /\ pc[t] = "borrow"
          /\ UNCHANGED <<StarRocks!poolVars, kind, committed>>
      BY <1>1, <1>10, <2>2
         DEF StarRocks!Borrow, StarRocks!Goes, StarRocks!TypeOK
    <3>2. StarHands'
      BY <1>1, <1>3, <2>2, <3>1 DEF StarHands, StarRocks!TypeOK
    <3> QED
      BY <1>1, <1>3, <2>2, <3>1, <3>2
         DEF StarInv, StarRocks!TypeOK, StarRocks!poolVars
  <2> QED
    BY <1>10, <2>1, <2>2 DEF StarRocks!Borrow
<1>11. CASE StarRocks!Take(t) \/ StarRocks!Grow(t)
  <2> DEFINE p == using[t]
  <2>1. p \in StarRocks!Pools /\ pc[t] \in {"get", "wait", "grow"}
    BY <1>2, <1>11 DEF StarRocks!Take, StarRocks!Grow
  <2>2. PICK c \in {d1, d2} :
            /\ held' = [held EXCEPT ![t] = c]
            /\ idle' \in [StarRocks!Pools -> Seq({d1, d2})]
            /\ created' \in [StarRocks!Pools -> Nat]
            /\ conn' \in [{d1, d2} -> {"ok", "lost", "dead", "closed"}]
    <3>1. CASE StarRocks!Take(t)
      <4>1. /\ Head(idle[p]) \in {d1, d2} /\ Tail(idle[p]) \in Seq({d1, d2})
            /\ UNCHANGED <<created, conn>>
            /\ held' = [held EXCEPT ![t] = Head(idle[p])]
            /\ idle' = [idle EXCEPT ![p] = Tail(idle[p])]
        BY <1>1, <2>1, <3>1 DEF StarRocks!Take, StarRocks!TypeOK
      <4> QED
        BY <1>1, <2>1, <4>1 DEF StarRocks!TypeOK
    <3>2. CASE StarRocks!Grow(t)
      <4>1. PICK c \in {d1, d2} : /\ conn' = [conn EXCEPT ![c] = "ok"]
                                  /\ held' = [held EXCEPT ![t] = c]
        BY <3>2 DEF StarRocks!Grow
      <4>2. /\ created' = [created EXCEPT ![p] = created[p] + 1]
            /\ created[p] + 1 \in Nat /\ idle' = idle
        BY <1>1, <2>1, <3>2 DEF StarRocks!Grow, StarRocks!TypeOK
      <4> QED
        BY <1>1, <2>1, <4>1, <4>2 DEF StarRocks!TypeOK
    <3> QED
      BY <1>11, <3>1, <3>2
  <2>3. /\ pc' = [pc EXCEPT ![t] = "begin"]
        /\ UNCHANGED <<pool, opens, filled, owner, closed, kind, using, retry,
                       pending, committed, answer>>
    BY <1>11 DEF StarRocks!Take, StarRocks!Grow, StarRocks!Goes
  <2>4. StarHands'
    BY <1>1, <1>3, <2>2, <2>3, StarConstants DEF StarHands, StarRocks!TypeOK
  <2> QED
    BY <1>1, <1>3, <2>2, <2>3, <2>4 DEF StarInv, StarRocks!TypeOK
<1>12. CASE StarRocks!NoneIdle(t) \/ StarRocks!Full(t)
  <2>1. \E place \in {"grow", "wait"} :
            StarRocks!Goes(t, place) /\ pc[t] \in {"get", "grow"}
    BY <1>12 DEF StarRocks!NoneIdle, StarRocks!Full
  <2>2. UNCHANGED <<StarRocks!poolVars, kind, using, held, retry, pending,
                    committed, answer>>
    BY <1>12 DEF StarRocks!NoneIdle, StarRocks!Full
  <2> QED
    BY <1>1, <1>5, <2>1, <2>2 DEF StarRocks!TypeOK
<1>13. CASE StarRocks!Begin(t) \/ StarRocks!Run(t) \/ StarRocks!Refused(t)
  <2>1. \E place \in {"run", "putback"} :
            StarRocks!Goes(t, place) /\ pc[t] \in {"begin", "run"}
    <3>1. \/ StarRocks!Goes(t, "run") /\ pc[t] = "begin"
          \/ StarRocks!Goes(t, "putback") /\ pc[t] = "run"
      BY <1>13 DEF StarRocks!Begin, StarRocks!Run, StarRocks!Refused
    <3> QED
      BY <3>1
  <2>2. /\ UNCHANGED <<StarRocks!poolVars, kind, using, held, retry, answer>>
        /\ pending' \in [{u1, u2} -> {"ok", "again", "fatal"}]
        /\ committed' \in [{u1, u2} -> BOOLEAN]
    <3>1. UNCHANGED <<StarRocks!poolVars, kind, using, held, retry, answer>>
      BY <1>13 DEF StarRocks!Begin, StarRocks!Run, StarRocks!Refused
    <3>2. pending' \in {pending, [pending EXCEPT ![t] = "ok"],
                        [pending EXCEPT ![t] = "fatal"],
                        [pending EXCEPT ![t] = "again"]}
      BY <1>13 DEF StarRocks!Begin, StarRocks!Run, StarRocks!Refused
    <3>3. committed' \in {committed, [committed EXCEPT ![t] = TRUE]}
      BY <1>13 DEF StarRocks!Begin, StarRocks!Run, StarRocks!Refused
    <3>4. pending' \in [{u1, u2} -> {"ok", "again", "fatal"}]
      BY <1>1, <3>2 DEF StarRocks!TypeOK
    <3>5. committed' \in [{u1, u2} -> BOOLEAN]
      BY <1>1, <3>3 DEF StarRocks!TypeOK
    <3> QED
      BY <3>1, <3>4, <3>5
  <2> QED
    BY <1>5, <2>1, <2>2
<1>14. CASE StarRocks!BeginFails(t) \/ StarRocks!RunLost(t)
  <2>1. /\ pc[t] \in {"begin", "run"}
        /\ \E how \in {"ok", "again", "fatal"} : StarRocks!Unusable(t, how)
    BY <1>14 DEF StarRocks!BeginFails, StarRocks!RunLost, StarRocks!LossIs
  <2> QED
    BY <2>1, StarUnusable
<1>15. CASE StarRocks!PutBack(t)
  <2>1. CASE pool = None /\ StarRocks!Ends(t, "again")
             /\ UNCHANGED <<created, conn>>
    BY <1>1, <1>4, <1>15, <2>1 DEF StarRocks!PutBack, StarRocks!TypeOK
  <2>2. CASE /\ pool # None /\ StarRocks!Discard(pool, held[t])
             /\ StarRocks!Ends(t, pending[t])
    <3>1. pool \in StarRocks!Pools
      BY <1>1, <2>2 DEF StarRocks!TypeOK
    <3>2. UNCHANGED <<pool, opens, filled, owner, idle, closed, kind,
                      committed>>
      BY <1>15 DEF StarRocks!PutBack
    <3>3. idle' \in [StarRocks!Pools -> Seq({d1, d2})]
      BY <1>1, <3>2 DEF StarRocks!TypeOK
    <3> QED
      BY <1>2, <1>4, <1>7, <2>2, <3>1, <3>2, <3>3
  <2>3. CASE /\ pool # None /\ using' = [using EXCEPT ![t] = pool]
             /\ StarRocks!Goes(t, "put")
             /\ UNCHANGED <<held, retry, pending, answer, created, conn>>
    <3>1. /\ pc' = [pc EXCEPT ![t] = "put"] /\ pool \in StarRocks!Pools
          /\ pc[t] = "putback"
          /\ UNCHANGED <<StarRocks!poolVars, kind, committed>>
      BY <1>1, <1>15, <2>3 DEF StarRocks!PutBack, StarRocks!Goes,
         StarRocks!TypeOK, StarRocks!poolVars
    <3>2. StarHands'
      BY <1>1, <1>3, <2>3, <3>1 DEF StarHands, StarRocks!TypeOK
    <3> QED
      BY <1>1, <1>3, <2>3, <3>1, <3>2
         DEF StarInv, StarRocks!TypeOK, StarRocks!poolVars
  <2> QED
    BY <1>15, <2>1, <2>2, <2>3 DEF StarRocks!PutBack
<1>16. CASE StarRocks!Put(t)
  <2>1. /\ using[t] \in StarRocks!Pools /\ held[t] \in {d1, d2}
        /\ StarRocks!Ends(t, pending[t])
        /\ idle' = [idle EXCEPT ![using[t]] = Append(idle[using[t]], held[t])]
        /\ UNCHANGED <<pool, opens, filled, owner, closed, kind, committed>>
        /\ UNCHANGED <<created, conn>>
    BY <1>2, <1>16 DEF StarRocks!Put
  <2>2. Append(idle[using[t]], held[t]) \in Seq({d1, d2})
    BY <1>1, <2>1 DEF StarRocks!TypeOK
  <2>3. idle' \in [StarRocks!Pools -> Seq({d1, d2})]
    BY <1>1, <2>1, <2>2 DEF StarRocks!TypeOK
  <2>4. /\ created' \in [StarRocks!Pools -> Nat]
        /\ conn' \in [{d1, d2} -> {"ok", "lost", "dead", "closed"}]
    BY <1>1, <2>1 DEF StarRocks!TypeOK
  <2> QED
    BY <1>2, <1>4, <2>1, <2>3, <2>4
<1>17. CASE StarRocks!PutFull(t)
  <2>1. /\ using[t] \in StarRocks!Pools /\ StarRocks!Ends(t, pending[t])
        /\ StarRocks!Discard(using[t], held[t])
        /\ UNCHANGED <<pool, opens, filled, owner, closed, kind, committed>>
        /\ idle' = idle
    BY <1>2, <1>17 DEF StarRocks!PutFull
  <2>2. idle' \in [StarRocks!Pools -> Seq({d1, d2})]
    BY <1>1, <2>1 DEF StarRocks!TypeOK
  <2> QED
    BY <1>2, <1>4, <1>7, <2>1, <2>2
<1> QED
  BY <1>8, <1>9, <1>10, <1>11, <1>12, <1>13, <1>14, <1>15, <1>16, <1>17
     DEF StarRocks!Works

LEMMA StarKept == StarInv /\ [StarRocks!Next]_(StarRocks!vars) => StarInv'
<1> SUFFICES ASSUME StarInv, [StarRocks!Next]_(StarRocks!vars) PROVE StarInv'
  OBVIOUS
<1>1. CASE UNCHANGED StarRocks!vars
  BY <1>1 DEF StarInv, StarHands, StarRocks!TypeOK, StarRocks!vars,
     StarRocks!poolVars, StarRocks!threadVars, StarRocks!Pools
<1> QED
  BY <1>1, StarOwner, StarWorks DEF StarRocks!Next

LEMMA StarBegins == StarRocks!Init => StarInv
BY StarConstants DEF StarRocks!Init, StarInv, StarHands, StarRocks!TypeOK


LEMMA PostgresTyped == PG!TypeOK <=> Calls("postgres")!TypeOK
  BY DEF PG!TypeOK, PG!Failures, PG!TypeOf, Calls!TypeOK, Calls!Failures,
     Calls!TypeOf

LEMMA MySQLTyped == MC!TypeOK <=> Calls("mysql")!TypeOK
  BY DEF MC!TypeOK, MC!Failures, MC!TypeOf, Calls!TypeOK, Calls!Failures,
     Calls!TypeOf

(* Whichever connector runs, and whatever its limits, its pool, threads    *)
(* and operations keep their types: the pool of MySQL for any number of    *)
(* threads and connections, the one of StarRocks, which puts back what     *)
(* MySQL discards, and the attempts of PostgreSQL and of MySQL.            *)
THEOREM ConnectionsTyped == MCSpec => []MCTypeOK
<1> DEFINE Holds == /\ part = "mysql" => IInv
                    /\ part = "starrocks" => StarInv
                    /\ part = "postgres" => CallInv("postgres")
                    /\ part = "mysql calls" => CallInv("mysql")
<1>0. PoolAssumption /\ PG!RetryAssumption /\ MC!RetryAssumption
  BY MCAssumption DEF MCAssumption
<1>1. "postgres" \in CallKinds /\ "mysql" \in CallKinds
  BY DEF CallKinds
<1>2. Calls("postgres")!RetryAssumption /\ Calls("mysql")!RetryAssumption
  BY <1>0, PostgresBegins, MySQLBegins
<1>3. MCInit => Holds
  <2> SUFFICES ASSUME MCInit
               PROVE  Holds
    OBVIOUS
  <2>1. part = "mysql" => IInv
    BY <1>0, InvariantBegins DEF MCInit
  <2>2. part = "starrocks" => StarInv
    BY StarBegins DEF MCInit
  <2>3. part = "postgres" => CallInv("postgres")
    BY <1>1, <1>2, PostgresBegins, CallsBegin DEF MCInit
  <2>4. part = "mysql calls" => CallInv("mysql")
    BY <1>1, <1>2, MySQLBegins, CallsBegin DEF MCInit
  <2> QED
    BY <2>1, <2>2, <2>3, <2>4
<1>4. Holds /\ [MCNext]_mcVars => Holds'
  <2> SUFFICES ASSUME Holds, [MCNext]_mcVars
               PROVE  Holds'
    OBVIOUS
  <2>1. CASE UNCHANGED mcVars
    <3>1. part' = part /\ [Next]_vars /\ [StarRocks!Next]_(StarRocks!vars)
      BY <2>1 DEF mcVars, vars, poolVars, threadVars, StarRocks!vars,
         StarRocks!poolVars, StarRocks!threadVars
    <3>2. UNCHANGED <<now, pc, op, index, told, until, left, grant, todo,
                      source, snapshot, error, attempts, ops>>
      BY <2>1 DEF mcVars
    <3>3. part' = "mysql" => IInv'
      BY <1>0, <3>1, InvariantKept
    <3>4. part' = "starrocks" => StarInv'
      BY <3>1, StarKept
    <3>5. part' = "postgres" => CallInv("postgres")'
      BY <3>1, <3>2, <1>1, CallsStay
    <3>6. part' = "mysql calls" => CallInv("mysql")'
      BY <3>1, <3>2, <1>1, CallsStay
    <3> QED
      BY <3>3, <3>4, <3>5, <3>6
  <2>2. ASSUME MCNext, part' = "mysql"
        PROVE  IInv'
    BY <1>0, <2>2, InvariantKept DEF MCNext
  <2>3. ASSUME MCNext, part' = "starrocks"
        PROVE  StarInv'
    BY <2>3, StarKept DEF MCNext
  <2>4. ASSUME MCNext, part' = "postgres"
        PROVE  CallInv("postgres")'
    BY <2>4, <1>1, <1>2, PostgresSteps, CallsStep DEF MCNext
  <2>5. ASSUME MCNext, part' = "mysql calls"
        PROVE  CallInv("mysql")'
    BY <2>5, <1>1, <1>2, MySQLSteps, CallsStep DEF MCNext
  <2> QED
    BY <2>1, <2>2, <2>3, <2>4, <2>5
<1>5. Holds => MCTypeOK
  BY PostgresTyped, MySQLTyped DEF IInv, StarInv, CallInv, MCTypeOK
<1> QED
  BY <1>3, <1>4, <1>5, PTL DEF MCSpec
=============================================================================
