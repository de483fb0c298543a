-------------------------- MODULE MemoryDeliveryProofs --------------------------
(***************************************************************************)
(* What becomes of a turn handed to MemoryManager, for every number of     *)
(* providers and turns.  In both modes every turn is accounted for; on one *)
(* event loop the manager implements TurnDelivery, a True of flush_pending *)
(* certifies the turns before it, and no provider is called after its      *)
(* shutdown() but by a task that outlived the drain window.                *)
(***************************************************************************)
EXTENDS MemoryManagerProofs

(* The syncs a task and a sequence of tasks stand for.                     *)
SyncIn(x)  == IF SyncOf(x) THEN {x.turn} ELSE {}
SyncsOf(s) == {s[i].turn : i \in {k \in DOMAIN s : s[k].kind = "sync"}}
Once(s)    == \A i, j \in DOMAIN s : i # j /\ SyncOf(s[i]) /\ SyncOf(s[j]) => s[i].turn # s[j].turn

(* A sync waits in one place only.  Accounted alone does not say it: a     *)
(* turn in two places would be offered twice.                              *)
OnePlace ==
    /\ \A e \in Executors : Once(queue[e])
    /\ SyncsOf(queue[1]) \cap SyncsOf(queue[2]) = {}
    /\ SyncIn(job[1]) \cap SyncIn(job[2]) = {}
    /\ \A e, f \in Executors : SyncIn(job[e]) \cap SyncsOf(queue[f]) = {}
    /\ \A e \in Executors : SyncsOf(todo) \cap (SyncsOf(queue[e]) \cup SyncIn(job[e])) = {}
    /\ Len(todo) = 2 => todo[2].kind # "sync"

(* A copy repeats a turn every provider was offered, or the one its caller *)
(* is running inline, and then its worker has not started.                 *)
CopyOf(x) == x.kind = "copy"
Handed(x) == x.kind \in {"sync", "prefetch"}
CopiesLate ==
    /\ \A e \in Executors : \A k \in DOMAIN queue[e] : CopyOf(queue[e][k]) =>
          \/ \A p \in Providers : queue[e][k].turn \in Offered(p)
          \/ ~started[e] /\ pc = "inline" /\ todo # <<>> /\ SyncIn(Head(todo)) = {queue[e][k].turn}
    /\ \A e \in Executors : CopyOf(job[e]) => \A p \in Providers : job[e].turn \in Offered(p)
    /\ \A k \in DOMAIN todo : Handed(todo[k])

AccountInv == TypeInv /\ OnePlace /\ CopiesLate /\ Accounted

--------------------------------------------------------------------------------
(* The syncs of a queue that grows at its end and shrinks at its head.     *)

LEMMA SyncsAppend ==
    ASSUME NEW s \in Seq(Task), NEW x \in Task
    PROVE  /\ SyncsOf(Append(s, x)) = SyncsOf(s) \cup SyncIn(x)
           /\ Once(s) /\ SyncIn(x) \cap SyncsOf(s) = {} => Once(Append(s, x))
  <1> DEFINE a == Append(s, x)  n == Len(s)
  <1>1. /\ n \in Nat /\ DOMAIN s = 1 .. n /\ DOMAIN a = 1 .. n + 1
        /\ \A i \in 1 .. n : a[i] = s[i]
        /\ a[n + 1] = x
    BY AppendFacts
  <1> HIDE DEF a, n
  <1>2. SyncsOf(a) = SyncsOf(s) \cup SyncIn(x)
    <2>1. SyncsOf(a) \subseteq SyncsOf(s) \cup SyncIn(x)
      BY <1>1 DEF SyncsOf, SyncIn, SyncOf
    <2>2. SyncsOf(s) \subseteq SyncsOf(a)
      <3>1. \A i \in DOMAIN s : i \in DOMAIN a /\ a[i] = s[i]
        BY <1>1
      <3>2. QED
        BY <3>1 DEF SyncsOf
    <2>3. SyncIn(x) \subseteq SyncsOf(a)
      <3>1. n + 1 \in DOMAIN a /\ a[n + 1] = x
        BY <1>1
      <3>2. QED
        BY <3>1 DEF SyncsOf, SyncIn, SyncOf
    <2>4. QED
      BY <2>1, <2>2, <2>3
  <1>3. ASSUME Once(s), SyncIn(x) \cap SyncsOf(s) = {},
               NEW i \in DOMAIN a, NEW j \in DOMAIN a, i # j, SyncOf(a[i]), SyncOf(a[j])
        PROVE  a[i].turn # a[j].turn
    <2>1. \A k \in 1 .. n : SyncOf(s[k]) => s[k].turn \in SyncsOf(s)
      BY <1>1 DEF SyncsOf, SyncOf
    <2>2. CASE i \in 1 .. n /\ j \in 1 .. n
      BY <1>1, <1>3, <2>2 DEF Once
    <2>3. CASE i = n + 1 /\ j \in 1 .. n
      BY <1>1, <1>3, <2>1, <2>3 DEF SyncIn
    <2>4. CASE j = n + 1 /\ i \in 1 .. n
      BY <1>1, <1>3, <2>1, <2>4 DEF SyncIn
    <2>5. QED
      BY <1>1, <1>3, <2>2, <2>3, <2>4
  <1>4. QED
    BY <1>2, <1>3 DEF Once, a

LEMMA SyncsTail ==
    ASSUME NEW s \in Seq(Task), s # <<>>
    PROVE  /\ SyncsOf(s) = SyncIn(Head(s)) \cup SyncsOf(Tail(s))
           /\ Once(s) => Once(Tail(s)) /\ SyncIn(Head(s)) \cap SyncsOf(Tail(s)) = {}
  <1> DEFINE r == Tail(s)  n == Len(s)
  <1>1. /\ n \in Nat /\ n >= 1 /\ DOMAIN s = 1 .. n /\ DOMAIN r = 1 .. n - 1
        /\ \A i \in 1 .. n - 1 : r[i] = s[i + 1]
        /\ Head(s) = s[1]
    BY TailFacts
  <1> HIDE DEF r, n
  <1>2. SyncsOf(s) \subseteq SyncIn(Head(s)) \cup SyncsOf(r)
    <2>1. \A i \in DOMAIN s : i = 1 \/ (i - 1 \in DOMAIN r /\ r[i - 1] = s[i])
      BY <1>1
    <2>2. QED
      BY <1>1, <2>1 DEF SyncsOf, SyncIn, SyncOf
  <1>3. SyncsOf(r) \subseteq SyncsOf(s) /\ SyncIn(Head(s)) \subseteq SyncsOf(s)
    <2>1. 1 \in DOMAIN s /\ \A i \in DOMAIN r : i + 1 \in DOMAIN s /\ r[i] = s[i + 1]
      BY <1>1
    <2>2. QED
      BY <1>1, <2>1 DEF SyncsOf, SyncIn, SyncOf
  <1>4. ASSUME Once(s) PROVE Once(r) /\ SyncIn(Head(s)) \cap SyncsOf(r) = {}
    <2>1. /\ 1 \in DOMAIN s
          /\ \A i \in DOMAIN r : i + 1 \in DOMAIN s /\ i + 1 # 1 /\ r[i] = s[i + 1]
          /\ \A i, j \in DOMAIN r : i # j => i + 1 # j + 1
      BY <1>1
    <2>2. QED
      BY <1>1, <1>4, <2>1 DEF Once, SyncsOf, SyncIn, SyncOf
  <1>5. QED
    BY <1>2, <1>3, <1>4 DEF r

LEMMA SyncsEmpty == SyncsOf(<<>>) = {} /\ Once(<<>>)
  BY DEF SyncsOf, Once

(* What a provider is owed waits in a queue, is in a job that has not      *)
(* passed it, or is in the caller's hand.                                  *)
OwedPlaces ==
    \A p \in Providers : \A t : t \in Owed(p) <=>
        \/ \E e \in Executors : t \in SyncsOf(queue[e])
        \/ \E e \in Executors : t \in SyncIn(job[e]) /\ at[e] <= p
        \/ t \in SyncsOf(todo) /\ ~(pc = "inline" /\ inlineAt > p)

LEMMA OwedNow == OwedPlaces
  <1> SUFFICES ASSUME NEW p \in Providers, NEW t
               PROVE  t \in Owed(p) <=>
                          \/ \E e \in Executors : t \in SyncsOf(queue[e])
                          \/ \E e \in Executors : t \in SyncIn(job[e]) /\ at[e] <= p
                          \/ t \in SyncsOf(todo) /\ ~(pc = "inline" /\ inlineAt > p)
    BY DEF OwedPlaces
  <1>1. t \in UNION {QueuedSyncs(e) : e \in Executors} <=> \E e \in Executors : t \in SyncsOf(queue[e])
    BY DEF QueuedSyncs, SyncsOf
  <1>2. t \in TodoSyncs <=> t \in SyncsOf(todo)
    BY DEF TodoSyncs, SyncsOf
  <1>3. t \in RunningOn(p) <=> \E e \in Executors : t \in SyncIn(job[e]) /\ at[e] <= p
    BY DEF RunningOn, SyncIn, SyncOf
  <1>4. QED
    BY <1>1, <1>2, <1>3 DEF Owed

LEMMA OwedNext == OwedPlaces'
  BY OwedNow, PTL

--------------------------------------------------------------------------------
(* What a step may do to the accounts: hand a turn over, move work about,  *)
(* offer an owed turn to one provider, or write owed turns off.            *)

LEMMA LandedByOne ==
    ASSUME LogOK, NEW p \in Providers, NEW t, Returns(p, t) \/ Raises(p, t)
    PROVE  /\ Offered(p)' = Offered(p) \cup {t}
           /\ \A q \in Providers \ {p} : landed'[q] = landed[q] /\ missed'[q] = missed[q]
           /\ \/ landed'[p] = Append(landed[p], t) /\ missed'[p] = missed[p]
              \/ landed'[p] = landed[p] /\ missed'[p] = missed[p] \cup {t}
  <1>1. /\ \A q \in Providers \ {p} : landed'[q] = landed[q] /\ missed'[q] = missed[q]
        /\ \/ landed'[p] = Append(landed[p], t) /\ missed'[p] = missed[p]
           \/ landed'[p] = landed[p] /\ missed'[p] = missed[p] \cup {t}
    BY DEF LogOK, Returns, Raises
  <1>2. Offered(p)' = Offered(p) \cup {t}
    <2>1. CASE landed'[p] = Append(landed[p], t) /\ missed'[p] = missed[p]
      <3> DEFINE n == Len(landed[p])
      <3>1. landed[p] \in Seq(Turns)
        BY DEF LogOK
      <3>2. /\ n \in Nat /\ DOMAIN landed[p] = 1 .. n /\ DOMAIN landed'[p] = 1 .. n + 1
            /\ \A i \in 1 .. n : landed'[p][i] = landed[p][i]
            /\ landed'[p][n + 1] = t
        BY <2>1, <3>1
      <3>3. \A u : u \in LandedAt(p)' <=> u \in LandedAt(p) \/ u = t
        BY <3>2 DEF LandedAt
      <3>4. QED
        BY <2>1, <3>3 DEF Offered
    <2>2. CASE landed'[p] = landed[p] /\ missed'[p] = missed[p] \cup {t}
      BY <2>2 DEF Offered, LandedAt
    <2>3. QED
      BY <1>1, <2>1, <2>2
  <1>3. QED
    BY <1>1, <1>2

(* Accounted, one provider at a time and without the copies.               *)
Account(p) ==
    /\ \A i, j \in DOMAIN landed[p] : i # j => landed[p][i] # landed[p][j]
    /\ LandedAt(p) \cap missed[p] = {} /\ Offered(p) \cap Owed(p) = {}
    /\ 1 .. turn = Offered(p) \cup Owed(p) \cup cancelled
    /\ cancelled \cap (Offered(p) \cup Owed(p)) = {}

Accounts == (\A p \in Providers : Account(p)) /\ (cancelled # {} => td \notin {"up", "taken"})
Repeated == \A p \in Providers : repeated[p] \subseteq Offered(p)

LEMMA AccountedIs == Accounted <=> Accounts /\ Repeated
  BY DEF Accounted, Accounts, Account, Repeated

LEMMA AccountMoved ==
    ASSUME NEW p \in Providers, Account(p), Owed(p)' = Owed(p), turn' = turn, cancelled' = cancelled,
           landed'[p] = landed[p], missed'[p] = missed[p]
    PROVE  Account(p)' /\ Offered(p)' = Offered(p)
  <1>1. LandedAt(p)' = LandedAt(p)
    BY DEF LandedAt
  <1>2. QED
    BY <1>1 DEF Account, Offered

LEMMA AccountHandedOver ==
    ASSUME NEW p \in Providers, Account(p), turn \in Nat, turn' = turn + 1,
           Owed(p)' = Owed(p) \cup {turn'}, UNCHANGED <<landed, missed, cancelled>>
    PROVE  Account(p)'
  <1>1. LandedAt(p)' = LandedAt(p) /\ Offered(p)' = Offered(p)
    BY DEF LandedAt, Offered
  <1>2. turn' \notin 1 .. turn /\ 1 .. turn' = (1 .. turn) \cup {turn'}
    OBVIOUS
  <1>3. QED
    BY <1>1, <1>2 DEF Account

LEMMA AccountOffered ==
    ASSUME LogOK, NEW p \in Providers, Account(p), NEW t \in Owed(p),
           Returns(p, t) \/ Raises(p, t), Owed(p)' = Owed(p) \ {t},
           turn' = turn, cancelled' = cancelled
    PROVE  Account(p)'
  <1>1. t \notin Offered(p) /\ t \notin LandedAt(p) /\ t \notin missed[p]
    BY DEF Account, Offered
  <1>2. Offered(p)' = Offered(p) \cup {t}
    BY LandedByOne
  <1>3. /\ 1 .. turn = Offered(p)' \cup Owed(p)' \cup cancelled
        /\ cancelled \cap (Offered(p)' \cup Owed(p)') = {}
        /\ Offered(p)' \cap Owed(p)' = {}
    BY <1>1, <1>2 DEF Account
  <1>4. CASE landed'[p] = landed[p] /\ missed'[p] = missed[p] \cup {t}
    <2>1. LandedAt(p)' = LandedAt(p)
      BY <1>4 DEF LandedAt
    <2>2. QED
      BY <1>1, <1>3, <1>4, <2>1 DEF Account
  <1>5. CASE landed'[p] = Append(landed[p], t) /\ missed'[p] = missed[p]
    <2> DEFINE n == Len(landed[p])
    <2>1. landed[p] \in Seq(Turns)
      BY DEF LogOK
    <2>2. /\ n \in Nat /\ DOMAIN landed[p] = 1 .. n /\ DOMAIN landed'[p] = 1 .. n + 1
          /\ \A i \in 1 .. n : landed'[p][i] = landed[p][i] /\ landed[p][i] \in LandedAt(p)
          /\ landed'[p][n + 1] = t
      BY <1>5, <2>1 DEF LandedAt
    <2>3. LandedAt(p)' \cap missed'[p] = {}
      <3>1. \A u \in LandedAt(p)' : u \in LandedAt(p) \/ u = t
        BY <2>2 DEF LandedAt
      <3>2. QED
        BY <1>1, <1>5, <3>1 DEF Account
    <2>4. \A i, j \in DOMAIN landed'[p] : i # j => landed'[p][i] # landed'[p][j]
      <3>1. \A i, j \in 1 .. n : i # j => landed'[p][i] # landed'[p][j]
        BY <2>2 DEF Account
      <3>2. \A i \in 1 .. n : landed'[p][i] # t
        BY <1>1, <2>2
      <3>3. \A i \in 1 .. n + 1 : i \in 1 .. n \/ i = n + 1
        BY <2>2
      <3>4. QED
        BY <2>2, <3>1, <3>2, <3>3
    <2>5. QED
      BY <1>3, <1>5, <2>3, <2>4 DEF Account
  <1>6. QED
    BY <1>4, <1>5, LandedByOne

LEMMA AccountWrittenOff ==
    ASSUME NEW p \in Providers, Account(p), NEW w, w \subseteq Owed(p),
           Owed(p)' = Owed(p) \ w, cancelled' = cancelled \cup w,
           UNCHANGED <<landed, missed, turn>>
    PROVE  Account(p)'
  <1>1. LandedAt(p)' = LandedAt(p) /\ Offered(p)' = Offered(p)
    BY DEF LandedAt, Offered
  <1>2. QED
    BY <1>1 DEF Account

(* The four things a step does to them.                                    *)
HandsOver ==
    /\ Available /\ turn < MaxTurn
    /\ turn' = turn + 1 /\ UNCHANGED <<landed, missed, cancelled, td>>
    /\ \A p \in Providers : Owed(p)' = Owed(p) \cup {turn'}

Moves ==
    /\ UNCHANGED <<turn, landed, missed, cancelled>>
    /\ \A p \in Providers : Owed(p)' = Owed(p)

(* Only a worker, or the caller inline, is about to offer turn t to p.     *)
Offering(p, t) ==
    \/ \E e \in Executors : SyncIn(job[e]) = {t} /\ at[e] = p
    \/ pc = "inline" /\ todo # <<>> /\ SyncIn(Head(todo)) = {t} /\ inlineAt = p

Offers ==
    \E p \in Providers : \E t \in Owed(p) :
        /\ Offering(p, t)
        /\ Returns(p, t) \/ Raises(p, t)
        /\ Owed(p)' = Owed(p) \ {t} /\ \A q \in Providers \ {p} : Owed(q)' = Owed(q)
        /\ UNCHANGED <<turn, cancelled, td>>

(* The sync, if it is one, that shutdown takes out of the queue.           *)
Cut == SyncIn(Head(queue[tdRef]))
WritesOff ==
    /\ td = "cancelling" /\ tdRef \in Executors /\ Cut \subseteq SyncsOf(queue[tdRef])
    /\ cancelled' = cancelled \cup Cut /\ UNCHANGED <<turn, landed, missed, td>>
    /\ \A p \in Providers : Owed(p)' = Owed(p) \ Cut

Ledger == /\ HandsOver \/ Moves \/ Offers \/ WritesOff
          /\ td' \in {"up", "taken"} => td \in {"up", "taken"}
          /\ td' = "up" => td = "up"

LEMMA LedgerKept ==
    ASSUME AccountInv, Ledger PROVE Accounts'
  <1>0. /\ LogOK /\ turn \in Nat
        /\ (\A p \in Providers : Account(p)) /\ (cancelled # {} => td \notin {"up", "taken"})
    BY AccountedIs, BoundAssumption DEF AccountInv, TypeInv, TypeOK, CallerOK, Accounts
  <1>1. ASSUME NEW p \in Providers PROVE Account(p)'
    <2>1. CASE HandsOver
      BY <1>0, <2>1, AccountHandedOver DEF HandsOver
    <2>2. CASE Moves
      BY <1>0, <2>2, AccountMoved DEF Moves
    <2>3. CASE Offers
      <3>1. PICK q \in Providers : \E u \in Owed(q) :
                /\ Returns(q, u) \/ Raises(q, u)
                /\ Owed(q)' = Owed(q) \ {u} /\ \A r \in Providers \ {q} : Owed(r)' = Owed(r)
                /\ UNCHANGED <<turn, cancelled, td>>
        BY <2>3 DEF Offers
      <3>2. PICK t \in Owed(q) :
                /\ Returns(q, t) \/ Raises(q, t)
                /\ Owed(q)' = Owed(q) \ {t} /\ \A r \in Providers \ {q} : Owed(r)' = Owed(r)
                /\ UNCHANGED <<turn, cancelled, td>>
        BY <3>1
      <3>3. CASE p = q
        BY <1>0, <3>2, <3>3, AccountOffered
      <3>4. CASE p # q
        <4>1. landed'[p] = landed[p] /\ missed'[p] = missed[p]
          BY <1>0, <3>2, <3>4, LandedByOne
        <4>2. QED
          BY <1>0, <3>2, <3>4, <4>1, AccountMoved
      <3>5. QED
        BY <3>3, <3>4
    <2>4. CASE WritesOff
      <3>1. Cut \subseteq Owed(p)
        BY <2>4, OwedNow DEF WritesOff, OwedPlaces
      <3>2. QED
        BY <1>0, <2>4, <3>1, AccountWrittenOff DEF WritesOff
    <2>5. QED
      BY <2>1, <2>2, <2>3, <2>4 DEF Ledger
  <1>2. cancelled' # {} => td' \notin {"up", "taken"}
    <2>1. CASE WritesOff
      BY <2>1 DEF WritesOff
    <2>2. CASE cancelled' = cancelled
      BY <1>0, <2>2 DEF Ledger
    <2>3. QED
      BY <2>1, <2>2 DEF Ledger, HandsOver, Moves, Offers
  <1>3. QED
    BY <1>1, <1>2 DEF Accounts

LEMMA OfferedSame ==
    ASSUME NEW p \in Providers, landed'[p] = landed[p], missed'[p] = missed[p]
    PROVE  Offered(p)' = Offered(p)
  BY DEF Offered, LandedAt

(* What was offered stays offered.                                         *)
LEMMA OfferedGrows ==
    ASSUME LogOK, Ledger, NEW p \in Providers
    PROVE  Offered(p) \subseteq Offered(p)'
  <1>1. CASE HandsOver \/ Moves \/ WritesOff
    BY <1>1, OfferedSame DEF HandsOver, Moves, WritesOff
  <1>2. CASE Offers
    <2>1. PICK q \in Providers : \E u \in Owed(q) : Returns(q, u) \/ Raises(q, u)
      BY <1>2 DEF Offers
    <2>2. PICK u \in Owed(q) : Returns(q, u) \/ Raises(q, u)
      BY <2>1
    <2>3. CASE p = q
      BY <2>2, <2>3, LandedByOne
    <2>4. CASE p # q
      BY <2>2, <2>4, LandedByOne, OfferedSame
    <2>5. QED
      BY <2>3, <2>4
  <1>3. QED
    BY <1>1, <1>2 DEF Ledger

--------------------------------------------------------------------------------
(* Every step is one of these, and keeps each sync in one place.           *)

LEMMA InState ==
    ASSUME TypeInv
    PROVE  /\ turn \in Nat /\ turn <= MaxTurn /\ todo \in Seq(Task)
           /\ inlineAt \in Nat /\ inlineAt \in 1 .. NumProviders
           /\ \A e \in Executors : /\ queue[e] \in Seq(Task) /\ at[e] \in 1 .. NumProviders
                                   /\ job[e] \in Task \cup {NoTask}
           /\ NumProviders \in Providers /\ NumProviders \in Nat /\ Executors = {1, 2}
           /\ Providers = 1 .. NumProviders
           /\ SyncIn(NoTask) = {}
  BY ProvidersAssumption, BoundAssumption
     DEF TypeInv, TypeOK, CallerOK, ExecOK, Providers, Executors, SyncIn, SyncOf, NoTask

LEMMA HeldTurns ==
    ASSUME AccountInv
    PROVE  \A e \in Executors : SyncsOf(queue[e]) \subseteq 1 .. turn /\ SyncIn(job[e]) \subseteq 1 .. turn
  <1>1. /\ NumProviders \in Providers /\ \A e \in Executors : at[e] <= NumProviders
        /\ Owed(NumProviders) \subseteq 1 .. turn
    BY InState DEF AccountInv, Accounted
  <1>2. QED
    BY <1>1, OwedNow DEF OwedPlaces

(* The task in hand may be a sync, what comes after it is none.            *)
LEMMA InHand ==
    ASSUME TypeInv, OnePlace, todo # <<>>
    PROVE  /\ SyncsOf(Tail(todo)) = {} /\ Len(Tail(todo)) < 2
           /\ SyncsOf(todo) = SyncIn(Head(todo)) /\ Head(todo) \in Task
  <1>1. /\ todo \in Seq(Task) /\ Len(todo) <= 2
        /\ Len(todo) = 2 => todo[2].kind # "sync"
    BY DEF TypeInv, TypeOK, CallerOK, OnePlace
  <1>2. /\ Len(Tail(todo)) = Len(todo) - 1 /\ Len(todo) \in Nat
        /\ DOMAIN Tail(todo) = 1 .. Len(todo) - 1
        /\ \A i \in DOMAIN Tail(todo) : Tail(todo)[i] = todo[i + 1]
        /\ Head(todo) \in Task
    BY <1>1, TailFacts
  <1>3. \A i \in DOMAIN Tail(todo) : Tail(todo)[i].kind # "sync"
    BY <1>1, <1>2
  <1>4. SyncsOf(Tail(todo)) = {}
    BY <1>3 DEF SyncsOf
  <1>5. SyncsOf(todo) = SyncIn(Head(todo)) \cup SyncsOf(Tail(todo))
    BY <1>1, SyncsTail
  <1>6. QED
    BY <1>1, <1>2, <1>4, <1>5

LEMMA HandedOverSyncs ==
    ASSUME TypeInv, OnePlace, todo # <<>>, HandedOver
    PROVE  /\ SyncsOf(todo') = {} /\ Len(todo') < 2
           /\ SyncsOf(todo) = SyncIn(Head(todo)) /\ Head(todo) \in Task
           /\ pc' \in {"idle", "get"}
  BY InHand DEF HandedOver

(* Steps that neither move nor finish a sync.                              *)
LEMMA NothingMoved ==
    ASSUME AccountInv, UNCHANGED <<turn, landed, missed, cancelled>>,
           \A e \in Executors : /\ SyncsOf(queue'[e]) = SyncsOf(queue[e]) /\ Once(queue'[e])
                                /\ SyncIn(job'[e]) = SyncIn(job[e])
                                /\ SyncIn(job[e]) # {} => at'[e] = at[e],
           SyncsOf(todo') = SyncsOf(todo), Len(todo') = 2 => todo' = todo,
           (pc = "inline" /\ inlineAt # 1) <=> (pc' = "inline" /\ inlineAt' # 1),
           pc = "inline" /\ pc' = "inline" => inlineAt' = inlineAt,
           inlineAt' \in Nat,
           td' \in {"up", "taken"} => td \in {"up", "taken"}, td' = "up" => td = "up"
    PROVE  OnePlace' /\ Moves /\ Ledger
  <1>1. OnePlace'
    BY DEF AccountInv, OnePlace, Executors
  <1>2. ASSUME NEW p \in Providers PROVE Owed(p)' = Owed(p)
    <2>1. (pc = "inline" /\ inlineAt > p) <=> (pc' = "inline" /\ inlineAt' > p)
      BY InState DEF AccountInv
    <2>2. \A t : t \in Owed(p)' <=> t \in Owed(p)
      BY <2>1, OwedNow, OwedNext DEF OwedPlaces
    <2>3. QED
      BY <2>2
  <1>3. QED
    BY <1>1, <1>2 DEF Moves, Ledger

LEMMA CallerStepAccount ==
    ASSUME AccountInv, Caller
    PROVE  OnePlace' /\ Ledger
  <1> USE DEF callerVars, execVars, logVars, tdVars
  <1>0. /\ TypeInv /\ OnePlace /\ Accounted
        /\ \A e \in Executors : Once(queue[e])
    BY DEF AccountInv, OnePlace
  <1>1. CASE PostTurn
    <2>1. /\ turn' = turn + 1 /\ pc = "idle" /\ todo = <<>> /\ pc' = "get" /\ td' = td
          /\ Available /\ turn < MaxTurn
          /\ UNCHANGED <<queue, job, at, landed, missed, cancelled>>
          /\ todo' = << [kind |-> "sync", turn |-> turn + 1], [kind |-> "prefetch", turn |-> turn + 1] >>
      BY <1>0, <1>1 DEF PostTurn, TypeInv, ShapeInv
    <2>2. SyncsOf(todo') = {turn + 1} /\ todo'[2].kind # "sync" /\ SyncsOf(todo) = {}
      <3>1. DOMAIN todo' = {1, 2} /\ todo'[1] = [kind |-> "sync", turn |-> turn + 1]
            /\ todo'[2] = [kind |-> "prefetch", turn |-> turn + 1]
        BY <2>1
      <3>2. SyncsOf(todo') = {turn + 1}
        BY <3>1 DEF SyncsOf
      <3>3. QED
        BY <2>1, <3>1, <3>2, SyncsEmpty
    <2>3. turn \in Nat /\ turn + 1 \notin 1 .. turn
      BY <1>0, InState
    <2>4. OnePlace'
      BY <1>0, <2>1, <2>2, <2>3, HeldTurns DEF OnePlace, Executors
    <2>5. ASSUME NEW p \in Providers PROVE Owed(p)' = Owed(p) \cup {turn'}
      <3>1. \A t : t \in Owed(p)' <=> t \in Owed(p) \/ t = turn + 1
        BY <2>1, <2>2, OwedNow, OwedNext DEF OwedPlaces
      <3>2. QED
        BY <2>1, <3>1
    <2>6. QED
      BY <2>1, <2>4, <2>5 DEF Ledger, HandsOver
  <1>2. CASE GetExecutor \/ CreateFails \/ SubmitRejected \/ FlushBegin \/ FlushFails
    <2>1. /\ UNCHANGED <<todo, queue, job, at, turn, landed, missed, cancelled, td>>
          /\ pc # "inline" /\ (pc' = "inline" => inlineAt' = 1)
          /\ inlineAt' \in {1, inlineAt}
      BY <1>2 DEF GetExecutor, CreateFails, SubmitRejected, FlushBegin, FlushFails
    <2>2. QED
      BY <1>0, <2>1, InState, NothingMoved
  <1>3. CASE ManagerDropped
    <2>1. /\ UNCHANGED <<queue, job, at, turn, landed, missed, cancelled, td, inlineAt>>
          /\ todo # <<>> /\ HandedOver /\ pc = "get" /\ Head(todo).kind = "prefetch"
      BY <1>0, <1>3 DEF ManagerDropped, TypeInv, ShapeInv
    <2>2. SyncsOf(todo') = SyncsOf(todo) /\ Len(todo') < 2 /\ pc' # "inline"
      BY <1>0, <2>1, HandedOverSyncs DEF SyncIn, SyncOf
    <2>3. inlineAt' \in Nat /\ \A e \in Executors : Once(queue'[e])
      BY <1>0, <2>1, InState
    <2>4. Len(todo') # 2
      BY <2>2
    <2>5. QED
      BY <1>0, <2>1, <2>2, <2>3, <2>4, NothingMoved
  <1>4. CASE FlushSubmit \/ FlushHalfway \/ SubmitHalfway
    <2>1. /\ UNCHANGED <<todo, job, at, turn, landed, missed, cancelled, td>>
          /\ pc \in {"flush", "submit"} /\ ref \in Executors
          /\ inlineAt' = inlineAt \/ inlineAt' = 1
          /\ pc' = "inline" => inlineAt' = 1
          /\ \/ queue' = queue
             \/ queue' = [queue EXCEPT ![ref] = Append(@, Sentinel)]
             \/ todo # <<>> /\ queue' = [queue EXCEPT ![ref] = Append(@, Copy(Head(todo)))]
      BY <1>0, <1>4 DEF FlushSubmit, FlushHalfway, SubmitHalfway, TypeInv, ShapeInv
    <2>2. /\ Sentinel \in Task /\ SyncIn(Sentinel) = {}
          /\ todo # <<>> => Copy(Head(todo)) \in Task /\ SyncIn(Copy(Head(todo))) = {}
      <3>1. Sentinel \in Task /\ SyncIn(Sentinel) = {}
        BY <1>0, TaskFacts DEF Sentinel, SyncIn, SyncOf, TypeInv, TypeOK, CallerOK
      <3>2. todo # <<>> => Head(todo) \in Task
        BY <1>0, InHand
      <3>3. QED
        BY <3>1, <3>2, TaskFacts DEF SyncIn, SyncOf
    <2>3. ASSUME NEW e \in Executors
          PROVE  SyncsOf(queue'[e]) = SyncsOf(queue[e]) /\ Once(queue'[e])
      <3>1. \/ queue'[e] = queue[e]
            \/ \E x \in Task : SyncIn(x) = {} /\ queue'[e] = Append(queue[e], x)
        BY <1>0, <2>1, <2>2 DEF TypeInv, TypeOK, ExecOK
      <3>2. ASSUME NEW x \in Task, SyncIn(x) = {}
            PROVE  /\ SyncsOf(Append(queue[e], x)) = SyncsOf(queue[e])
                   /\ Once(Append(queue[e], x))
        BY <1>0, <3>2, InState, SyncsAppend, ZenonT(30)
      <3>3. CASE \E x \in Task : SyncIn(x) = {} /\ queue'[e] = Append(queue[e], x)
        <4>1. PICK x \in Task : SyncIn(x) = {} /\ queue'[e] = Append(queue[e], x)
          BY <3>3
        <4>2. QED
          BY <3>2, <4>1
      <3>4. CASE queue'[e] = queue[e]
        BY <1>0, <3>4
      <3>5. QED
        BY <3>1, <3>3, <3>4
    <2>4. inlineAt' \in Nat
      BY <1>0, <2>1, InState
    <2>5. QED
      BY <1>0, <2>1, <2>3, <2>4, NothingMoved
  <1>5. CASE SubmitAccepted
    <2> DEFINE x == Head(todo)
    <2>1. /\ UNCHANGED <<job, at, turn, landed, missed, cancelled, td, inlineAt>>
          /\ todo # <<>> /\ HandedOver /\ pc = "submit" /\ ref \in Executors
          /\ queue' = [queue EXCEPT ![ref] = Append(@, x)]
      BY <1>0, <1>5 DEF SubmitAccepted, TypeInv, ShapeInv
    <2>2. /\ SyncsOf(todo') = {} /\ Len(todo') < 2 /\ SyncsOf(todo) = SyncIn(x) /\ x \in Task
          /\ pc' # "inline"
      BY <1>0, <2>1, HandedOverSyncs
    <2> HIDE DEF x
    <2>3. /\ queue'[ref] = Append(queue[ref], x)
          /\ \A e \in Executors \ {ref} : queue'[e] = queue[e]
      BY <1>0, <2>1 DEF TypeInv, TypeOK, ExecOK
    <2>4. /\ SyncsOf(queue'[ref]) = SyncsOf(queue[ref]) \cup SyncIn(x) /\ Once(queue'[ref])
          /\ \A e \in Executors \ {ref} : SyncsOf(queue'[e]) = SyncsOf(queue[e]) /\ Once(queue'[e])
      <3>1. SyncIn(x) \cap SyncsOf(queue[ref]) = {}
        BY <1>0, <2>1, <2>2 DEF OnePlace
      <3>2. queue[ref] \in Seq(Task)
        BY <1>0, <2>1, InState
      <3>3. QED
        BY <1>0, <2>1, <2>2, <2>3, <3>1, <3>2, SyncsAppend
    <2>5. OnePlace'
      BY <1>0, <2>1, <2>2, <2>4 DEF OnePlace, Executors
    <2>6. ASSUME NEW p \in Providers PROVE Owed(p)' = Owed(p)
      <3>1. \A t : t \in Owed(p)' <=> t \in Owed(p)
        BY <2>1, <2>2, <2>4, OwedNow, OwedNext DEF OwedPlaces
      <3>2. QED
        BY <3>1
    <2>7. QED
      BY <2>1, <2>5, <2>6 DEF Ledger, Moves
  <1>6. CASE InlineReturns
    <2> DEFINE x == Head(todo)
    <2>1. /\ UNCHANGED <<queue, job, at, turn, cancelled, td>>
          /\ todo # <<>> /\ pc = "inline" /\ Outcome(x, inlineAt) /\ inlineAt \in Providers
      BY <1>0, <1>6 DEF InlineReturns, TypeInv, ShapeInv, TypeOK, CallerOK
    <2>2. x \in Task /\ SyncsOf(todo) = SyncIn(x)
      BY <1>0, <2>1, InHand
    <2>3. \/ inlineAt < NumProviders /\ inlineAt' = inlineAt + 1 /\ pc' = pc /\ todo' = todo
          \/ /\ inlineAt = NumProviders /\ inlineAt' = 1 /\ pc' # "inline"
             /\ SyncsOf(todo') = {} /\ Len(todo') < 2
      <3>1. CASE inlineAt < NumProviders
        BY <1>6, <3>1 DEF InlineReturns
      <3>2. CASE ~(inlineAt < NumProviders)
        <4>1. HandedOver /\ inlineAt' = 1 /\ inlineAt = NumProviders
          BY <1>0, <1>6, <3>2, InState DEF InlineReturns
        <4>2. QED
          BY <1>0, <2>1, <4>1, HandedOverSyncs
      <3>3. QED
        BY <3>1, <3>2
    <2> HIDE DEF x
    <2>4. Len(todo') = 2 => todo' = todo
      BY <2>3
    <2>5. CASE SyncIn(x) = {}
      <3>1. UNCHANGED <<landed, missed>>
        BY <2>1, <2>5 DEF Outcome, Repeats, SyncIn, SyncOf
      <3>2. ASSUME NEW p \in Providers PROVE Owed(p)' = Owed(p)
        <4>1. \A t : t \in Owed(p)' <=> t \in Owed(p)
          BY <2>1, <2>2, <2>3, <2>5, OwedNow, OwedNext DEF OwedPlaces
        <4>2. QED
          BY <4>1
      <3>3. OnePlace'
        BY <1>0, <2>1, <2>2, <2>3, <2>5 DEF OnePlace, Executors
      <3>4. QED
        BY <2>1, <3>1, <3>2, <3>3 DEF Ledger, Moves
    <2>6. CASE SyncIn(x) # {}
      <3>1. /\ SyncIn(x) = {x.turn} /\ (Returns(inlineAt, x.turn) \/ Raises(inlineAt, x.turn))
            /\ x.turn \in Nat
        BY <2>1, <2>2, <2>6, TaskFacts, BoundAssumption DEF Outcome, SyncIn, SyncOf
      <3>2. /\ \A e \in Executors : x.turn \notin SyncsOf(queue[e]) /\ x.turn \notin SyncIn(job[e])
            /\ x.turn \in Owed(inlineAt)
        <4>1. inlineAt \in Nat
          BY <1>0, InState
        <4>2. QED
          BY <1>0, <2>1, <2>2, <3>1, <4>1, OwedNow DEF OnePlace, OwedPlaces
      <3>3. ASSUME NEW p \in Providers, p = inlineAt PROVE Owed(p)' = Owed(p) \ {x.turn}
        <4>1. p \in Nat
          BY <1>0, InState
        <4>2. \A t : t \in Owed(p)' <=> t \in Owed(p) /\ t # x.turn
          BY <2>1, <2>2, <2>3, <3>1, <3>2, <3>3, <4>1, OwedNow, OwedNext DEF OwedPlaces
        <4>3. QED
          BY <4>2
      <3>4. ASSUME NEW p \in Providers, p # inlineAt PROVE Owed(p)' = Owed(p)
        <4>1. p \in Nat /\ p <= NumProviders /\ inlineAt \in Nat /\ NumProviders \in Nat
          BY <1>0, InState
        <4>2. (inlineAt > p) <=> (pc' # "inline" \/ inlineAt' > p)
          BY <2>1, <2>3, <3>4, <4>1
        <4>3. inlineAt > p <=> ~(inlineAt < p)
          BY <3>4, <4>1
        <4>4. \A t : t \in Owed(p)' <=> t \in Owed(p)
          BY <2>1, <2>2, <2>3, <3>1, <4>1, <4>2, <4>3, OwedNow, OwedNext DEF OwedPlaces
        <4>5. QED
          BY <4>4
      <3>5. OnePlace'
        BY <1>0, <2>1, <2>2, <2>3 DEF OnePlace, Executors
      <3>6. PICK p \in Providers : p = inlineAt
        BY <2>1
      <3>7. Offering(p, x.turn)
        BY <2>1, <3>1, <3>6 DEF Offering, x
      <3>8. Owed(p)' = Owed(p) \ {x.turn} /\ \A q \in Providers \ {p} : Owed(q)' = Owed(q)
        BY <3>3, <3>4, <3>6
      <3>9. QED
        BY <2>1, <3>1, <3>2, <3>5, <3>6, <3>7, <3>8 DEF Ledger, Offers
    <2>7. QED
      BY <2>5, <2>6
  <1>7. QED
    BY <1>1, <1>2, <1>3, <1>4, <1>5, <1>6 DEF Caller

LEMMA WorkerStepAccount ==
    ASSUME AccountInv, NEW e \in Executors, Worker(e)
    PROVE  OnePlace' /\ Ledger
  <1> USE DEF callerVars, execVars, logVars, tdVars
  <1>0. /\ TypeInv /\ OnePlace /\ Accounted
        /\ \A f \in Executors : Once(queue[f])
        /\ inlineAt \in Nat
    BY InState DEF AccountInv, OnePlace
  <1>1. CASE StartJob(e)
    <2>1. /\ job[e] = NoTask /\ queue[e] # <<>>
          /\ job'[e] = Head(queue[e]) /\ at'[e] = 1 /\ queue'[e] = Tail(queue[e])
          /\ \A f \in Executors \ {e} : job'[f] = job[f] /\ at'[f] = at[f] /\ queue'[f] = queue[f]
          /\ UNCHANGED <<todo, pc, inlineAt, turn, landed, missed, cancelled, td>>
      BY <1>0, <1>1 DEF StartJob, TypeInv, TypeOK, ExecOK
    <2>2. /\ SyncsOf(queue[e]) = SyncIn(job'[e]) \cup SyncsOf(queue'[e])
          /\ SyncIn(job'[e]) \cap SyncsOf(queue'[e]) = {} /\ Once(queue'[e])
          /\ SyncIn(job[e]) = {}
      BY <1>0, <2>1, InState, SyncsTail
    <2>3. OnePlace'
      BY <1>0, <2>1, <2>2 DEF OnePlace, Executors
    <2>4. ASSUME NEW p \in Providers PROVE Owed(p)' = Owed(p)
      <3>1. 1 <= p
        BY <1>0, InState
      <3>2. \A t : t \in Owed(p)' <=> t \in Owed(p)
        BY <2>1, <2>2, <3>1, OwedNow, OwedNext DEF OwedPlaces
      <3>3. QED
        BY <3>2
    <2>5. QED
      BY <2>1, <2>3, <2>4 DEF Ledger, Moves
  <1>2. CASE CallReturns(e)
    <2>1. /\ Outcome(job[e], at[e]) /\ job[e].kind \in {"sync", "copy", "prefetch"}
          /\ \/ at[e] < NumProviders /\ at'[e] = at[e] + 1 /\ job'[e] = job[e]
             \/ ~(at[e] < NumProviders) /\ at'[e] = 1 /\ job'[e] = NoTask
          /\ \A f \in Executors \ {e} : job'[f] = job[f] /\ at'[f] = at[f]
          /\ UNCHANGED <<queue, todo, pc, inlineAt, turn, cancelled, td>>
      BY <1>0, <1>2 DEF CallReturns, TypeInv, TypeOK, ExecOK
    <2>2. /\ at[e] \in Providers /\ at[e] \in Nat /\ at[e] <= NumProviders /\ NumProviders \in Nat
          /\ job[e] \in Task \cup {NoTask} /\ SyncIn(NoTask) = {}
      BY <1>0, InState
    <2>3. CASE SyncIn(job[e]) = {}
      <3>1. UNCHANGED <<landed, missed>> /\ SyncIn(job'[e]) = {}
        BY <2>1, <2>2, <2>3 DEF Outcome, Repeats, SyncIn, SyncOf
      <3>2. \A f \in Executors : SyncIn(job'[f]) = SyncIn(job[f]) /\ (SyncIn(job[f]) # {} => at'[f] = at[f])
        BY <2>1, <2>3, <3>1
      <3>3. QED
        BY <1>0, <2>1, <3>1, <3>2, NothingMoved
    <2>4. CASE SyncIn(job[e]) # {}
      <3> DEFINE t == job[e].turn
      <3>1. /\ SyncIn(job[e]) = {t} /\ (Returns(at[e], t) \/ Raises(at[e], t))
            /\ SyncIn(job'[e]) \in {{t}, {}}
        BY <2>1, <2>2, <2>4 DEF Outcome, SyncIn, SyncOf
      <3> HIDE DEF t
      <3>2. /\ \A f \in Executors : t \notin SyncsOf(queue[f])
            /\ \A f \in Executors \ {e} : t \notin SyncIn(job[f])
            /\ t \notin SyncsOf(todo)
            /\ t \in Owed(at[e])
        BY <1>0, <2>2, <3>1, OwedNow DEF OnePlace, OwedPlaces, Executors
      <3>3. ASSUME NEW p \in Providers
            PROVE  IF p = at[e] THEN Owed(p)' = Owed(p) \ {t} ELSE Owed(p)' = Owed(p)
        <4>1. p \in Nat /\ p <= NumProviders
          BY <1>0, InState
        <4>2. \A u : (\E f \in Executors : u \in SyncIn(job[f]) /\ at[f] <= p)
                        <=> \/ \E f \in Executors \ {e} : u \in SyncIn(job[f]) /\ at[f] <= p
                            \/ u = t /\ at[e] <= p
          BY <3>1
        <4>3. \A u : (\E f \in Executors : u \in SyncIn(job'[f]) /\ at'[f] <= p)
                        <=> \/ \E f \in Executors \ {e} : u \in SyncIn(job[f]) /\ at[f] <= p
                            \/ u = t /\ at[e] < p
          <5>1. \A u : u \in SyncIn(job'[e]) /\ at'[e] <= p <=> u = t /\ at[e] < p
            <6>1. CASE at[e] < NumProviders
              BY <2>1, <2>2, <3>1, <4>1, <6>1
            <6>2. CASE ~(at[e] < NumProviders)
              BY <2>1, <2>2, <4>1, <6>2
            <6>3. QED
              BY <6>1, <6>2
          <5>2. QED
            BY <2>1, <5>1
        <4>4. CASE p = at[e]
          <5>1. \A u : u \in Owed(p)' <=> u \in Owed(p) /\ u # t
            BY <2>1, <2>2, <3>2, <4>1, <4>2, <4>3, <4>4, OwedNow, OwedNext DEF OwedPlaces
          <5>2. QED
            BY <4>4, <5>1
        <4>5. CASE p # at[e]
          <5>1. at[e] <= p <=> at[e] < p
            BY <2>2, <4>1, <4>5
          <5>2. \A u : u \in Owed(p)' <=> u \in Owed(p)
            BY <2>1, <4>2, <4>3, <5>1, OwedNow, OwedNext DEF OwedPlaces
          <5>3. QED
            BY <4>5, <5>2
        <4>6. QED
          BY <4>4, <4>5
      <3>4. OnePlace'
        BY <1>0, <2>1, <3>1 DEF OnePlace, Executors
      <3>5. PICK p \in Providers : p = at[e]
        BY <2>2
      <3>6. Offering(p, t)
        BY <3>1, <3>5 DEF Offering
      <3>7. Owed(p)' = Owed(p) \ {t} /\ \A q \in Providers \ {p} : Owed(q)' = Owed(q)
        BY <3>3, <3>5
      <3>8. QED
        BY <2>1, <3>1, <3>2, <3>4, <3>5, <3>6, <3>7 DEF Ledger, Offers
    <2>5. QED
      BY <2>3, <2>4
  <1>3. CASE BarrierRuns(e)
    <2>1. /\ job[e].kind = "barrier" /\ job'[e] = NoTask
          /\ \A f \in Executors \ {e} : job'[f] = job[f]
          /\ pc' = pc \/ (pc = "await" /\ pc' = "idle")
          /\ UNCHANGED <<queue, at, todo, inlineAt, turn, landed, missed, cancelled, td>>
      BY <1>0, <1>3 DEF BarrierRuns, TypeInv, TypeOK, ExecOK
    <2>2. \A f \in Executors : SyncIn(job'[f]) = SyncIn(job[f])
      BY <1>0, <2>1, InState DEF SyncIn, SyncOf
    <2>3. QED
      BY <1>0, <2>1, <2>2, NothingMoved
  <1>4. QED
    BY <1>1, <1>2, <1>3 DEF Worker

LEMMA TeardownStepAccount ==
    ASSUME AccountInv, Teardown \/ BeginExit \/ EndExit
    PROVE  OnePlace' /\ Ledger
  <1> USE DEF callerVars, execVars, logVars, tdVars
  <1>0. /\ TypeInv /\ OnePlace /\ Accounted
        /\ \A f \in Executors : Once(queue[f])
        /\ inlineAt \in Nat
    BY InState DEF AccountInv, OnePlace
  <1>1. CASE CancelQueued
    <2>1. /\ tdRef \in Executors /\ td = "cancelling" /\ queue[tdRef] # <<>>
          /\ queue'[tdRef] = Tail(queue[tdRef]) /\ \A f \in Executors \ {tdRef} : queue'[f] = queue[f]
          /\ cancelled' = cancelled \cup Cut
          /\ UNCHANGED <<job, at, todo, pc, inlineAt, turn, landed, missed, td>>
      BY <1>0, <1>1 DEF CancelQueued, TypeInv, TypeOK, ExecOK, ShapeInv, Cut, SyncIn, SyncOf
    <2>2. /\ SyncsOf(queue[tdRef]) = Cut \cup SyncsOf(queue'[tdRef])
          /\ Cut \cap SyncsOf(queue'[tdRef]) = {} /\ Once(queue'[tdRef])
      BY <1>0, <2>1, InState, SyncsTail DEF Cut
    <2>3. OnePlace'
      BY <1>0, <2>1, <2>2 DEF OnePlace, Executors
    <2>4. ASSUME NEW p \in Providers PROVE Owed(p)' = Owed(p) \ Cut
      <3>1. \A t : t \in Owed(p)' <=> t \in Owed(p) /\ t \notin Cut
        BY <1>0, <2>1, <2>2, OwedNow, OwedNext DEF OwedPlaces, OnePlace, Executors
      <3>2. QED
        BY <3>1
    <2>5. QED
      BY <2>1, <2>2, <2>3, <2>4 DEF Ledger, WritesOff
  <1>2. ASSUME UNCHANGED <<queue, job, at, todo, pc, inlineAt, turn, landed, missed, cancelled>>,
               td' \in {"up", "taken"} => td \in {"up", "taken"}, td' = "up" => td = "up"
        PROVE  OnePlace' /\ Ledger
    BY <1>0, <1>2, NothingMoved
  <1>3. CASE TakeExecutor
    BY <1>2, <1>3 DEF TakeExecutor
  <1>4. CASE StopAccepting \/ CancelledAll \/ Drained \/ DrainTimeout
    BY <1>2, <1>4 DEF StopAccepting, CancelledAll, Drained, DrainTimeout
  <1>5. ASSUME NEW p \in Providers, CloseProvider(p) PROVE OnePlace' /\ Ledger
    BY <1>2, <1>5 DEF CloseProvider
  <1>6. CASE BeginExit \/ EndExit
    BY <1>2, <1>6 DEF BeginExit, EndExit
  <1>7. QED
    BY <1>1, <1>3, <1>4, <1>5, <1>6 DEF Teardown

LEMMA InitAccount == Init => OnePlace /\ CopiesLate /\ Accounted
  <1> SUFFICES ASSUME Init PROVE OnePlace /\ CopiesLate /\ Accounted
    OBVIOUS
  <1>1. /\ \A e \in Executors : queue[e] = <<>> /\ job[e] = NoTask
        /\ todo = <<>> /\ turn = 0 /\ pc = "idle" /\ cancelled = {}
        /\ \A p \in Providers : landed[p] = <<>> /\ missed[p] = {} /\ repeated[p] = {}
    BY DEF Init
  <1>2. SyncIn(NoTask) = {} /\ ~CopyOf(NoTask) /\ Len(<<>>) = 0 /\ DOMAIN <<>> = {} /\ 1 .. 0 = {}
    BY DEF SyncIn, SyncOf, CopyOf, NoTask
  <1>3. OnePlace /\ CopiesLate
    BY <1>1, <1>2, SyncsEmpty DEF OnePlace, CopiesLate, Executors
  <1>4. ASSUME NEW p \in Providers PROVE Offered(p) = {} /\ LandedAt(p) = {} /\ Owed(p) = {}
    <2>1. \A t : t \notin Owed(p)
      BY <1>1, <1>2, SyncsEmpty, OwedNow DEF OwedPlaces
    <2>2. QED
      BY <1>1, <1>2, <2>1 DEF Offered, LandedAt
  <1>5. Accounted
    BY <1>1, <1>2, <1>4 DEF Accounted
  <1>6. QED
    BY <1>3, <1>5

LEMMA StepLedger == AccountInv /\ [Next]_vars => OnePlace' /\ Ledger
  <1>1. AccountInv /\ UNCHANGED vars => OnePlace' /\ Ledger
    <2> SUFFICES ASSUME AccountInv, UNCHANGED vars PROVE OnePlace' /\ Ledger
      OBVIOUS
    <2>1. /\ UNCHANGED <<queue, job, at, todo, pc, inlineAt, turn, landed, missed, cancelled, td>>
          /\ inlineAt \in Nat /\ \A f \in Executors : Once(queue[f])
      BY InState DEF AccountInv, OnePlace, vars, callerVars, execVars, logVars, tdVars
    <2>2. QED
      BY <2>1, NothingMoved
  <1>2. QED
    BY <1>1, CallerStepAccount, WorkerStepAccount, TeardownStepAccount DEF Next, Terminated

(* A copy is offered late whenever every copy of the next state is one of  *)
(* this state and an inline call in hand goes on.                          *)
LEMMA CopiesFrame ==
    ASSUME CopiesLate, Repeated, \A p \in Providers : Offered(p) \subseteq Offered(p)',
           \A e \in Executors : \A k \in DOMAIN queue'[e] : CopyOf(queue'[e][k]) =>
               \E j \in DOMAIN queue[e] : queue[e][j] = queue'[e][k],
           \A e \in Executors : CopyOf(job'[e]) => job'[e] = job[e],
           \A k \in DOMAIN todo' : Handed(todo'[k]),
           \A p \in Providers : repeated'[p] \subseteq repeated[p] \cup Offered(p),
           pc = "inline" => pc' = "inline" /\ todo' = todo /\ started' = started
    PROVE  CopiesLate' /\ Repeated'
  <1>1. ASSUME NEW e \in Executors, NEW k \in DOMAIN queue'[e], CopyOf(queue'[e][k])
        PROVE  \/ \A p \in Providers : queue'[e][k].turn \in Offered(p)'
               \/ ~started'[e] /\ pc' = "inline" /\ todo' # <<>> /\ SyncIn(Head(todo')) = {queue'[e][k].turn}
    <2>1. PICK j \in DOMAIN queue[e] : queue[e][j] = queue'[e][k]
      BY <1>1
    <2>2. \/ \A p \in Providers : queue[e][j].turn \in Offered(p)
          \/ ~started[e] /\ pc = "inline" /\ todo # <<>> /\ SyncIn(Head(todo)) = {queue[e][j].turn}
      BY <1>1, <2>1 DEF CopiesLate
    <2>3. QED
      BY <2>1, <2>2
  <1>2. ASSUME NEW e \in Executors, CopyOf(job'[e]), NEW p \in Providers
        PROVE  job'[e].turn \in Offered(p)'
    BY <1>2 DEF CopiesLate
  <1>3. Repeated'
    BY DEF Repeated
  <1>4. QED
    BY <1>1, <1>2, <1>3 DEF CopiesLate, CopyOf, Handed, SyncIn, SyncOf

(* The last call of an inline sync leaves no provider without its turn.    *)
LEMMA InlineEnds ==
    ASSUME AccountInv, Accounts', OnePlace', Ledger, InlineReturns, pc' # "inline",
           NEW t, SyncIn(Head(todo)) = {t}, NEW p \in Providers
    PROVE  t \in Offered(p)'
  <1> USE DEF callerVars, execVars, logVars, tdVars
  <1>1. /\ TypeInv /\ OnePlace /\ todo # <<>> /\ HandedOver
        /\ UNCHANGED <<queue, job, at, turn, cancelled>>
        /\ inlineAt \in Providers /\ inlineAt \in Nat /\ pc = "inline"
    BY InState DEF AccountInv, InlineReturns, TypeInv, ShapeInv
  <1>2. /\ SyncsOf(todo) = {t} /\ SyncsOf(todo') = {}
        /\ \A e \in Executors : t \notin SyncsOf(queue[e]) /\ t \notin SyncIn(job[e])
    BY <1>1, HandedOverSyncs DEF OnePlace
  <1>3. t \in Owed(inlineAt) /\ t \notin Owed(p)'
    BY <1>1, <1>2, OwedNow, OwedNext DEF OwedPlaces
  <1>4. t \in 1 .. turn /\ t \notin cancelled
    BY <1>1, <1>3 DEF AccountInv, Accounted
  <1>5. QED
    BY <1>1, <1>3, <1>4 DEF Accounts, Account

LEMMA CopiesCaller ==
    ASSUME AccountInv, Caller, Ledger, Accounts', OnePlace'
    PROVE  CopiesLate' /\ Repeated'
  <1> USE DEF callerVars, execVars, logVars, tdVars
  <1>0. /\ TypeInv /\ CopiesLate /\ Repeated
        /\ \A p \in Providers : Offered(p) \subseteq Offered(p)'
        /\ \A k \in DOMAIN todo : Handed(todo[k])
    BY AccountedIs, OfferedGrows DEF AccountInv, TypeInv, TypeOK, CopiesLate
  <1>1. ASSUME todo # <<>> PROVE /\ \A k \in DOMAIN Tail(todo) : Handed(Tail(todo)[k])
                                 /\ Handed(Head(todo)) /\ ~CopyOf(Head(todo)) /\ Head(todo) \in Task
    <2>1. todo \in Seq(Task)
      BY <1>0 DEF TypeInv, TypeOK, CallerOK
    <2>2. QED
      BY <1>0, <1>1, <2>1, TailFacts DEF Handed, CopyOf
  <1>2. CASE PostTurn
    <2>1. /\ pc = "idle" /\ UNCHANGED <<queue, job, repeated>> /\ DOMAIN todo' = {1, 2}
          /\ todo'[1].kind = "sync" /\ todo'[2].kind = "prefetch"
      BY <1>2 DEF PostTurn
    <2>2. QED
      BY <1>0, <2>1, CopiesFrame DEF Handed
  <1>3. CASE GetExecutor \/ CreateFails \/ SubmitRejected \/ FlushBegin \/ FlushFails
    <2>1. pc # "inline" /\ UNCHANGED <<queue, job, repeated, todo>>
      BY <1>3 DEF GetExecutor, CreateFails, SubmitRejected, FlushBegin, FlushFails
    <2>2. QED
      BY <1>0, <2>1, CopiesFrame
  <1>4. CASE ManagerDropped
    <2>1. pc # "inline" /\ UNCHANGED <<queue, job, repeated>> /\ todo # <<>> /\ todo' = Tail(todo)
      BY <1>0, <1>4 DEF ManagerDropped, HandedOver, TypeInv, ShapeInv
    <2>2. QED
      BY <1>0, <1>1, <2>1, CopiesFrame
  <1>5. ASSUME NEW x \in Task, ref \in Executors, queue' = [queue EXCEPT ![ref] = Append(@, x)]
        PROVE  \A e \in Executors : \A k \in DOMAIN queue'[e] :
                  \/ \E j \in DOMAIN queue[e] : queue[e][j] = queue'[e][k]
                  \/ e = ref /\ queue'[e][k] = x
    <2>1. queue \in [Executors -> Seq(Task)]
      BY <1>0 DEF TypeInv, TypeOK, ExecOK
    <2>2. ASSUME NEW e \in Executors, NEW k \in DOMAIN queue'[e]
          PROVE  \/ \E j \in DOMAIN queue[e] : queue[e][j] = queue'[e][k]
                 \/ e = ref /\ queue'[e][k] = x
      <3>1. CASE e # ref
        BY <1>5, <2>1, <2>2, <3>1
      <3>2. CASE e = ref
        <4> DEFINE s == queue[e]
        <4>1. queue'[e] = Append(s, x) /\ s \in Seq(Task)
          BY <1>5, <2>1, <3>2
        <4>2. k \in DOMAIN s \/ k = Len(s) + 1
          BY <2>2, <4>1, AppendFacts
        <4>3. QED
          BY <3>2, <4>1, <4>2, AppendFacts
      <3>3. QED
        BY <3>1, <3>2
    <2>3. QED
      BY <2>2
  <1>6. CASE SubmitAccepted
    <2>1. /\ pc # "inline" /\ UNCHANGED <<job, repeated>> /\ todo # <<>> /\ todo' = Tail(todo)
          /\ ref \in Executors /\ queue' = [queue EXCEPT ![ref] = Append(@, Head(todo))]
      BY <1>0, <1>6 DEF SubmitAccepted, HandedOver, TypeInv, ShapeInv
    <2>2. \A e \in Executors : \A k \in DOMAIN queue'[e] : CopyOf(queue'[e][k]) =>
               \E j \in DOMAIN queue[e] : queue[e][j] = queue'[e][k]
      BY <1>1, <1>5, <2>1
    <2>3. QED
      BY <1>0, <1>1, <2>1, <2>2, CopiesFrame
  <1>7. CASE FlushSubmit \/ FlushHalfway
    <2>1. /\ pc # "inline" /\ UNCHANGED <<job, repeated, todo>> /\ ref \in Executors
          /\ queue' = queue \/ queue' = [queue EXCEPT ![ref] = Append(@, Sentinel)]
      BY <1>0, <1>7 DEF FlushSubmit, FlushHalfway, TypeInv, ShapeInv
    <2>2. Sentinel \in Task /\ ~CopyOf(Sentinel)
      BY <1>0, TaskFacts DEF Sentinel, CopyOf, TypeInv, TypeOK, CallerOK
    <2>3. \A e \in Executors : \A k \in DOMAIN queue'[e] : CopyOf(queue'[e][k]) =>
               \E j \in DOMAIN queue[e] : queue[e][j] = queue'[e][k]
      BY <1>5, <2>1, <2>2
    <2>4. QED
      BY <1>0, <2>1, <2>3, CopiesFrame
  <1>8. CASE SubmitHalfway
    <2> DEFINE x == Copy(Head(todo))
    <2>1. /\ pc = "submit" /\ pc' = "inline" /\ UNCHANGED <<job, repeated, todo, started>> /\ todo # <<>>
          /\ ref \in Executors /\ ~started[ref] /\ queue' = [queue EXCEPT ![ref] = Append(@, x)]
      BY <1>0, <1>8 DEF SubmitHalfway, TypeInv, ShapeInv
    <2>2. x \in Task /\ (CopyOf(x) => SyncIn(Head(todo)) = {x.turn})
      BY <1>1, <2>1, TaskFacts DEF Copy, CopyOf, SyncIn, SyncOf
    <2> HIDE DEF x
    <2>3. ASSUME NEW e \in Executors, NEW k \in DOMAIN queue'[e], CopyOf(queue'[e][k])
          PROVE  \/ \A p \in Providers : queue'[e][k].turn \in Offered(p)'
                 \/ ~started'[e] /\ pc' = "inline" /\ todo' # <<>> /\ SyncIn(Head(todo')) = {queue'[e][k].turn}
      <3>1. CASE e = ref /\ queue'[e][k] = x
        BY <2>1, <2>2, <2>3, <3>1
      <3>2. CASE \E j \in DOMAIN queue[e] : queue[e][j] = queue'[e][k]
        <4>1. PICK j \in DOMAIN queue[e] : queue[e][j] = queue'[e][k]
          BY <3>2
        <4>2. \A p \in Providers : queue[e][j].turn \in Offered(p)
          BY <1>0, <2>1, <2>3, <4>1 DEF CopiesLate
        <4>3. QED
          BY <1>0, <4>1, <4>2
      <3>3. QED
        BY <1>5, <2>1, <2>2, <2>3, <3>1, <3>2
    <2>4. Repeated'
      BY <1>0, <2>1 DEF Repeated
    <2>5. (\A e \in Executors : CopyOf(job[e]) => \A p \in Providers : job[e].turn \in Offered(p)')
      BY <1>0 DEF CopiesLate
    <2>6. QED
      BY <1>0, <2>1, <2>3, <2>4, <2>5 DEF CopiesLate, CopyOf, Handed, SyncIn, SyncOf
  <1>9. CASE InlineReturns
    <2>1. /\ todo # <<>> /\ pc = "inline" /\ UNCHANGED <<queue, job, started>>
          /\ Outcome(Head(todo), inlineAt)
      BY <1>0, <1>9 DEF InlineReturns, TypeInv, ShapeInv
    <2>2. \A p \in Providers : repeated'[p] = repeated[p]
      BY <1>1, <2>1 DEF Outcome, Returns, Raises, CopyOf
    <2>3. CASE pc' = "inline"
      <3>1. todo' = todo
        BY <1>0, <1>9, <2>3, <2>1 DEF InlineReturns, HandedOver
      <3>2. QED
        BY <1>0, <2>1, <2>2, <2>3, <3>1, CopiesFrame
    <2>4. CASE pc' # "inline"
      <3>1. todo' = Tail(todo)
        BY <1>9, <2>1, <2>4 DEF InlineReturns, HandedOver
      <3>2. ASSUME NEW e \in Executors, NEW k \in DOMAIN queue[e], CopyOf(queue[e][k]), NEW p \in Providers
            PROVE  queue[e][k].turn \in Offered(p)'
        <4>1. CASE queue[e][k].turn \in Offered(p)
          BY <1>0, <4>1
        <4>2. CASE SyncIn(Head(todo)) = {queue[e][k].turn}
          BY <1>9, <2>4, <4>2, InlineEnds
        <4>3. QED
          BY <1>0, <3>2, <4>1, <4>2 DEF CopiesLate
      <3>3. \A e \in Executors : CopyOf(job[e]) => \A p \in Providers : job[e].turn \in Offered(p)'
        BY <1>0 DEF CopiesLate
      <3>4. Repeated'
        BY <1>0, <2>2 DEF Repeated
      <3>5. QED
        BY <1>1, <2>1, <3>1, <3>2, <3>3, <3>4 DEF CopiesLate, CopyOf, Handed
    <2>5. QED
      BY <2>3, <2>4
  <1>10. QED
    BY <1>2, <1>3, <1>4, <1>6, <1>7, <1>8, <1>9 DEF Caller

LEMMA CopiesStep ==
    ASSUME AccountInv, [Next]_vars, Ledger, Accounts', OnePlace'
    PROVE  CopiesLate' /\ Repeated'
  <1> USE DEF callerVars, execVars, logVars, tdVars
  <1>0. /\ TypeInv /\ CopiesLate /\ Repeated
        /\ \A p \in Providers : Offered(p) \subseteq Offered(p)'
        /\ \A k \in DOMAIN todo : Handed(todo[k])
        /\ queue \in [Executors -> Seq(Task)] /\ job \in [Executors -> Task \cup {NoTask}]
        /\ ~CopyOf(NoTask)
    BY AccountedIs, OfferedGrows DEF AccountInv, TypeInv, TypeOK, ExecOK, CopiesLate, CopyOf, NoTask
  <1>1. ASSUME NEW e \in Executors, queue[e] # <<>>, queue' = [queue EXCEPT ![e] = Tail(@)]
        PROVE  /\ 1 \in DOMAIN queue[e] /\ Head(queue[e]) = queue[e][1]
               /\ \A f \in Executors : \A k \in DOMAIN queue'[f] :
                     \E j \in DOMAIN queue[f] : queue[f][j] = queue'[f][k]
    <2>1. queue[e] \in Seq(Task) /\ queue'[e] = Tail(queue[e])
      BY <1>0, <1>1
    <2>2. QED
      BY <1>0, <1>1, <2>1, TailFacts
  <1>2. ASSUME NEW e \in Executors, StartJob(e) PROVE CopiesLate' /\ Repeated'
    <2>1. /\ started[e] /\ queue[e] # <<>> /\ queue' = [queue EXCEPT ![e] = Tail(@)]
          /\ job'[e] = Head(queue[e]) /\ \A f \in Executors \ {e} : job'[f] = job[f]
          /\ UNCHANGED <<todo, pc, started, repeated>>
      BY <1>0, <1>2 DEF StartJob
    <2>2. CopyOf(job'[e]) => \A p \in Providers : job'[e].turn \in Offered(p)
      BY <1>0, <1>1, <2>1 DEF CopiesLate
    <2>3. ASSUME NEW f \in Executors, NEW k \in DOMAIN queue'[f], CopyOf(queue'[f][k])
          PROVE  \/ \A p \in Providers : queue'[f][k].turn \in Offered(p)'
                 \/ ~started'[f] /\ pc' = "inline" /\ todo' # <<>> /\ SyncIn(Head(todo')) = {queue'[f][k].turn}
      <3>1. PICK j \in DOMAIN queue[f] : queue[f][j] = queue'[f][k]
        BY <1>1, <2>1, <2>3
      <3>2. \/ \A p \in Providers : queue[f][j].turn \in Offered(p)
            \/ ~started[f] /\ pc = "inline" /\ todo # <<>> /\ SyncIn(Head(todo)) = {queue[f][j].turn}
        BY <1>0, <2>3, <3>1 DEF CopiesLate
      <3>3. QED
        BY <1>0, <2>1, <3>1, <3>2
    <2>4. \A f \in Executors : CopyOf(job'[f]) => \A p \in Providers : job'[f].turn \in Offered(p)'
      BY <1>0, <2>1, <2>2 DEF CopiesLate
    <2>5. Repeated'
      BY <1>0, <2>1 DEF Repeated
    <2>6. QED
      BY <1>0, <2>1, <2>3, <2>4, <2>5 DEF CopiesLate, CopyOf, Handed, SyncIn, SyncOf
  <1>3. ASSUME NEW e \in Executors, CallReturns(e) PROVE CopiesLate' /\ Repeated'
    <2>1. /\ UNCHANGED <<queue, todo, pc, started>> /\ Outcome(job[e], at[e])
          /\ \A f \in Executors : job'[f] = job[f] \/ job'[f] = NoTask
      BY <1>0, <1>3 DEF CallReturns
    <2>2. \A p \in Providers : repeated'[p] \subseteq repeated[p] \cup Offered(p)
      <3>1. CASE CopyOf(job[e])
        <4>1. repeated' = [repeated EXCEPT ![at[e]] = @ \cup {job[e].turn}]
          BY <2>1, <3>1 DEF Outcome, Repeats, CopyOf
        <4>2. \A p \in Providers : job[e].turn \in Offered(p)
          BY <1>0, <3>1 DEF CopiesLate
        <4>3. repeated \in [Providers -> SUBSET Turns]
          BY <1>0 DEF TypeInv, TypeOK, LogOK
        <4>4. QED
          BY <4>1, <4>2, <4>3
      <3>2. CASE ~CopyOf(job[e])
        BY <2>1, <3>2 DEF Outcome, Returns, Raises, CopyOf
      <3>3. QED
        BY <3>1, <3>2
    <2>3. QED
      BY <1>0, <2>1, <2>2, CopiesFrame
  <1>4. ASSUME NEW e \in Executors, BarrierRuns(e) PROVE CopiesLate' /\ Repeated'
    <2>1. /\ UNCHANGED <<queue, todo, started, repeated>> /\ (pc = "inline" => pc' = pc)
          /\ \A f \in Executors : job'[f] = job[f] \/ job'[f] = NoTask
      BY <1>0, <1>4 DEF BarrierRuns
    <2>2. QED
      BY <1>0, <2>1, CopiesFrame
  <1>5. CASE CancelQueued
    <2>1. /\ tdRef \in Executors /\ queue[tdRef] # <<>> /\ queue' = [queue EXCEPT ![tdRef] = Tail(@)]
          /\ UNCHANGED <<job, todo, pc, started, repeated>>
      BY <1>0, <1>5 DEF CancelQueued, TypeInv, ShapeInv
    <2>2. QED
      BY <1>0, <1>1, <2>1, CopiesFrame
  <1>6. ASSUME UNCHANGED <<queue, job, todo, pc, started, repeated>> PROVE CopiesLate' /\ Repeated'
    BY <1>0, <1>6, CopiesFrame
  <1>7. CASE Teardown /\ ~CancelQueued
    BY <1>6, <1>7 DEF Teardown, TakeExecutor, StopAccepting, CancelledAll, Drained, DrainTimeout, CloseProvider
  <1>8. CASE BeginExit \/ EndExit
    BY <1>6, <1>8 DEF BeginExit, EndExit
  <1>9. CASE UNCHANGED vars
    BY <1>6, <1>9 DEF vars
  <1>10. QED
    BY <1>2, <1>3, <1>4, <1>5, <1>7, <1>8, <1>9, CopiesCaller DEF Next, Worker, Terminated

LEMMA AccountInvariance == Spec => []AccountInv
  <1>1. Init => OnePlace /\ CopiesLate /\ Accounted
    BY InitAccount
  <1>2. TypeInv /\ (OnePlace /\ CopiesLate /\ Accounted) /\ [Next]_vars
            => (OnePlace /\ CopiesLate /\ Accounted)'
    <2> SUFFICES ASSUME AccountInv, [Next]_vars PROVE OnePlace' /\ CopiesLate' /\ Accounted'
      BY DEF AccountInv
    <2>1. OnePlace' /\ Ledger
      BY StepLedger
    <2>2. Accounts'
      BY <2>1, LedgerKept
    <2>3. CopiesLate' /\ Repeated'
      BY <2>1, <2>2, CopiesStep
    <2>4. (Accounted <=> Accounts /\ Repeated)'
      BY AccountedIs, PTL
    <2>5. QED
      BY <2>1, <2>2, <2>3, <2>4
  <1>3. TypeInv /\ (OnePlace /\ CopiesLate /\ Accounted) => AccountInv
    BY DEF AccountInv
  <1>4. QED
    BY <1>1, <1>2, <1>3, TypeInvariance, PTL DEF Spec

(* _submit_background loses no turn: through the worker, a refused submit  *)
(* or the inline path, with shutdown_all on the turns' loop or on another  *)
(* thread, every turn handed over is at every provider accepted once,      *)
(* refused, on its way, or cancelled by a shutdown that has begun, and     *)
(* only one of these; a provider is given a turn a second time, the copy   *)
(* of a half-failed submit, only after it was offered it.                  *)
THEOREM TurnsAccounted == Spec => []Accounted
  <1>1. AccountInv => Accounted
    BY DEF AccountInv
  <1>2. QED
    BY <1>1, AccountInvariance, PTL

--------------------------------------------------------------------------------
(* On one event loop: what the order of the turns rests on.  A provider is *)
(* owed newer turns only than it was offered, a sentinel is older than the *)
(* syncs behind it, and nothing waits or runs in the executor once it is   *)
(* drained.                                                                *)

OldestFirst == \A p \in Providers : \A u \in Owed(p) : \A t \in Offered(p) : t < u

SentinelOrder ==
    /\ \A i, k \in DOMAIN queue[1] :
          i < k /\ queue[1][i].kind = "barrier" /\ SyncOf(queue[1][k]) => queue[1][i].turn < queue[1][k].turn
    /\ \A k \in DOMAIN queue[1] :
          job[1].kind = "barrier" /\ SyncOf(queue[1][k]) => job[1].turn < queue[1][k].turn
    /\ todo # <<>> /\ SyncOf(Head(todo)) =>
          /\ \A k \in DOMAIN queue[1] : queue[1][k].kind = "barrier" => queue[1][k].turn < turn
          /\ job[1].kind = "barrier" => job[1].turn < turn

DrainOrder ==
    /\ td \in {"up", "taken", "cancelling", "draining"} => closed = {}
    /\ td \in {"taken", "cancelling", "draining"} => tdRef = 1
    /\ td \in {"draining", "closing", "down"} => queue[1] = <<>>
    /\ td \in {"closing", "down"} /\ ~timedOut => job[1] = NoTask

DeliverInv == OldestFirst /\ SentinelOrder /\ DrainOrder /\ FlushCertifies

DeliveryInv == AccountInv /\ LoopInv /\ DeliverInv

LEMMA Bounds ==
    ASSUME AccountInv, NEW p \in Providers
    PROVE  /\ turn \in Nat /\ 1 .. turn \subseteq Nat
           /\ Offered(p) \subseteq 1 .. turn /\ Owed(p) \subseteq 1 .. turn /\ cancelled \subseteq 1 .. turn
           /\ 1 .. turn = Offered(p) \cup Owed(p) \cup cancelled
           /\ Offered(p) \cap Owed(p) = {}
  BY InState DEF AccountInv, Accounted

(* On one loop everything is in executor 1 or in the caller's hand.        *)
LEMMA OwedOnLoop ==
    ASSUME DeliveryInv, NEW p \in Providers
    PROVE  /\ \A u \in Owed(p) : \/ u \in SyncsOf(queue[1])
                                 \/ u \in SyncIn(job[1])
                                 \/ u \in SyncsOf(todo)
           /\ todo # <<>> => SyncsOf(todo) = SyncIn(Head(todo))
           /\ todo = <<>> => SyncsOf(todo) = {}
           /\ SyncsOf(queue[1]) \subseteq Owed(p)
  <1>1. /\ queue[2] = <<>> /\ job[2] = NoTask /\ TypeInv /\ OnePlace /\ Executors = {1, 2}
        /\ SyncIn(NoTask) = {} /\ SyncsOf(<<>>) = {}
    BY InState, SyncsEmpty DEF DeliveryInv, AccountInv, LoopInv, OneExecutor
  <1>2. QED
    BY <1>1, OwedNow, InHand DEF OwedPlaces

(* A turn about to be offered is the oldest its provider is owed.          *)
LEMMA OldestOffered ==
    ASSUME DeliveryInv, NEW p \in Providers, NEW t \in Owed(p), Offering(p, t)
    PROVE  \A u \in Owed(p) : u # t => t < u
  <1>1. /\ queue[2] = <<>> /\ job[2] = NoTask /\ Executors = {1, 2}
        /\ SyncIn(NoTask) = {} /\ SyncsOf(<<>>) = {} /\ DOMAIN <<>> = {}
    BY InState, SyncsEmpty DEF DeliveryInv, AccountInv, LoopInv, OneExecutor
  <1>2. CASE SyncIn(job[1]) = {t}
    <2>1. SyncOf(job[1]) /\ job[1].turn = t
      BY <1>2 DEF SyncIn
    <2>2. \A u \in SyncsOf(queue[1]) : t < u
      BY <2>1 DEF DeliveryInv, LoopInv, QueueOrder, SyncsOf, SyncOf
    <2>3. \A u \in SyncsOf(todo) : t < u
      BY <2>1, OwedOnLoop DEF DeliveryInv, LoopInv, HandOrder, SyncIn
    <2>4. QED
      BY <1>2, <2>2, <2>3, OwedOnLoop
  <1>3. CASE pc = "inline" /\ todo # <<>> /\ SyncIn(Head(todo)) = {t}
    <2>1. SyncsOf(queue[1]) = {} /\ job[1] = NoTask
      BY <1>3 DEF DeliveryInv, LoopInv, OneExecutor, SyncsOf, SyncOf
    <2>2. QED
      BY <1>1, <1>3, <2>1, OwedOnLoop
  <1>4. QED
    BY <1>1, <1>2, <1>3 DEF Offering

LEMMA OldestFirstStep ==
    ASSUME ~Threaded, DeliveryInv, Ledger
    PROVE  OldestFirst'
  <1>0. AccountInv /\ OldestFirst /\ LogOK
    BY DEF DeliveryInv, DeliverInv, AccountInv, TypeInv, TypeOK
  <1>1. ASSUME NEW p \in Providers
        PROVE  \A u \in Owed(p)' : \A t \in Offered(p)' : t < u
    <2>1. CASE HandsOver
      <3>1. /\ turn' = turn + 1 /\ Owed(p)' = Owed(p) \cup {turn'}
            /\ Offered(p)' = Offered(p)
        BY <2>1, OfferedSame DEF HandsOver
      <3>2. \A t \in Offered(p) : t < turn'
        BY <1>0, <3>1, Bounds
      <3>3. QED
        BY <1>0, <3>1, <3>2 DEF OldestFirst
    <2>2. CASE Moves
      <3>1. Owed(p)' = Owed(p) /\ Offered(p)' = Offered(p)
        BY <2>2, OfferedSame DEF Moves
      <3>2. QED
        BY <1>0, <3>1 DEF OldestFirst
    <2>3. CASE Offers
      <3>1. PICK q \in Providers : \E t \in Owed(q) :
                /\ Offering(q, t)
                /\ Returns(q, t) \/ Raises(q, t)
                /\ Owed(q)' = Owed(q) \ {t} /\ \A r \in Providers \ {q} : Owed(r)' = Owed(r)
                /\ UNCHANGED <<turn, cancelled, td>>
        BY <2>3 DEF Offers
      <3>2. PICK t \in Owed(q) :
                /\ Offering(q, t)
                /\ Returns(q, t) \/ Raises(q, t)
                /\ Owed(q)' = Owed(q) \ {t} /\ \A r \in Providers \ {q} : Owed(r)' = Owed(r)
                /\ UNCHANGED <<turn, cancelled, td>>
        BY <3>1
      <3>3. CASE p = q
        <4>1. Offered(p)' = Offered(p) \cup {t}
          BY <1>0, <3>2, <3>3, LandedByOne
        <4>2. \A u \in Owed(p)' : t < u
          BY <3>2, <3>3, OldestOffered
        <4>3. QED
          BY <1>0, <3>2, <3>3, <4>1, <4>2 DEF OldestFirst
      <3>4. CASE p # q
        <4>1. Offered(p)' = Offered(p)
          BY <1>0, <3>2, <3>4, LandedByOne, OfferedSame
        <4>2. QED
          BY <1>0, <3>2, <3>4, <4>1 DEF OldestFirst
      <3>5. QED
        BY <3>3, <3>4
    <2>4. CASE WritesOff
      <3>1. Owed(p)' \subseteq Owed(p) /\ Offered(p)' = Offered(p)
        BY <2>4, OfferedSame DEF WritesOff
      <3>2. QED
        BY <1>0, <3>1 DEF OldestFirst
    <2>5. QED
      BY <2>1, <2>2, <2>3, <2>4 DEF Ledger
  <1>2. QED
    BY <1>1 DEF OldestFirst

(* All that was handed over was offered when nothing is owed or cancelled. *)
LEMMA AllOffered ==
    ASSUME DeliveryInv, td = "up", todo = <<>>,
           SyncsOf(queue[1]) = {}, SyncIn(job[1]) = {}
    PROVE  \A p \in Providers : 1 .. turn = Offered(p)
  <1>1. cancelled = {}
    BY DEF DeliveryInv, AccountInv, Accounted
  <1>2. ASSUME NEW p \in Providers PROVE Owed(p) = {}
    BY OwedOnLoop
  <1>3. QED
    BY <1>1, <1>2, Bounds DEF DeliveryInv

LEMMA FlushStep ==
    ASSUME ~Threaded, DeliveryInv, [Next]_vars, Ledger
    PROVE  FlushCertifies'
  <1> USE DEF callerVars, execVars, logVars, tdVars
  <1>0. \A p \in Providers : Offered(p) \subseteq Offered(p)'
    BY OfferedGrows DEF DeliveryInv, AccountInv, TypeInv, TypeOK
  <1>1. CASE flushed' = flushed
    BY <1>0, <1>1 DEF DeliveryInv, DeliverInv, FlushCertifies
  <1>2. ASSUME \A p \in Providers : 1 .. turn = Offered(p), flushed' = turn
        PROVE  FlushCertifies'
    BY <1>0, <1>2 DEF FlushCertifies
  <1>3. CASE FlushBegin
    <2>1. CASE current = NoExecutor
      <3>1. /\ td = "up" /\ todo = <<>> /\ made = 0 /\ flushed' = turn
        BY <1>3, <2>1 DEF FlushBegin, Available, DeliveryInv, AccountInv, TypeInv, ShapeInv, NoExecutor
      <3>2. queue[1] = <<>> /\ job[1] = NoTask
        BY <3>1 DEF DeliveryInv, LoopInv, OneExecutor
      <3>3. SyncsOf(queue[1]) = {} /\ SyncIn(job[1]) = {}
        BY <3>2, SyncsEmpty, InState DEF DeliveryInv, AccountInv
      <3>4. QED
        BY <1>2, <3>1, <3>3, AllOffered
    <2>2. CASE current # NoExecutor
      BY <1>1, <1>3, <2>2 DEF FlushBegin
    <2>3. QED
      BY <2>1, <2>2
  <1>4. CASE FlushSubmit
    <2>1. open[ref]
      BY <1>4 DEF FlushSubmit, DeliveryInv, LoopInv, OneExecutor, AccountInv, TypeInv, ShapeInv
    <2>2. QED
      BY <1>1, <1>4, <2>1 DEF FlushSubmit
  <1>4a. CASE FlushHalfway
    <2>1. td = "up" /\ todo = <<>> /\ ~started[1] /\ flushed' = turn
      BY <1>4a DEF FlushHalfway, DeliveryInv, LoopInv, OneExecutor, AccountInv, TypeInv, ShapeInv
    <2>2. job[1] = NoTask /\ \A k \in DOMAIN queue[1] : ~SyncOf(queue[1][k])
      BY <2>1 DEF DeliveryInv, LoopInv, OneExecutor
    <2>3. SyncsOf(queue[1]) = {} /\ SyncIn(job[1]) = {}
      BY <2>2, InState DEF DeliveryInv, AccountInv, SyncsOf, SyncOf
    <2>4. QED
      BY <1>2, <2>1, <2>3, AllOffered
  <1>5. ASSUME NEW e \in Executors, BarrierRuns(e) PROVE FlushCertifies'
    <2>1. CASE pc = "await" /\ job[e] = Sentinel
      <3>1. /\ td = "up" /\ todo = <<>> /\ flushed' = turn
        BY <1>5, <2>1 DEF BarrierRuns, DeliveryInv, LoopInv, OneExecutor, AccountInv, TypeInv, ShapeInv
      <3>2. e = 1 /\ job[1].kind = "barrier" /\ job[1].turn = turn
        BY <2>1 DEF Sentinel, DeliveryInv, LoopInv, OneExecutor, Executors, NoTask
      <3>3. SyncIn(job[1]) = {}
        BY <3>2 DEF SyncIn, SyncOf
      <3>4. SyncsOf(queue[1]) = {}
        <4>1. ASSUME NEW k \in DOMAIN queue[1], SyncOf(queue[1][k]) PROVE FALSE
          <5>1. turn < queue[1][k].turn /\ queue[1][k].turn <= turn
            BY <3>2, <4>1 DEF DeliveryInv, DeliverInv, SentinelOrder, LoopInv, NothingNewer
          <5>2. queue[1][k] \in Task /\ turn \in Nat
            BY InState DEF DeliveryInv, AccountInv
          <5>3. queue[1][k].turn \in Nat
            BY <5>2, TaskFacts, BoundAssumption
          <5>4. QED
            BY <5>1, <5>2, <5>3
        <4>2. QED
          BY <4>1 DEF SyncsOf, SyncOf
      <3>5. QED
        BY <1>2, <3>1, <3>3, <3>4, AllOffered
    <2>2. CASE ~(pc = "await" /\ job[e] = Sentinel)
      BY <1>1, <1>5, <2>2 DEF BarrierRuns
    <2>3. QED
      BY <2>1, <2>2
  <1>6. ASSUME Caller, ~FlushBegin, ~FlushSubmit, ~FlushHalfway PROVE FlushCertifies'
    BY <1>1, <1>6 DEF Caller, PostTurn, GetExecutor, CreateFails, SubmitAccepted, SubmitRejected,
                      SubmitHalfway, InlineReturns, ManagerDropped, FlushFails
  <1>7. ASSUME NEW e \in Executors, StartJob(e) \/ CallReturns(e) PROVE FlushCertifies'
    BY <1>1, <1>7 DEF StartJob, CallReturns
  <1>8. CASE Teardown \/ BeginExit \/ EndExit
    BY <1>1, <1>8 DEF Teardown, TakeExecutor, StopAccepting, CancelQueued, CancelledAll, Drained,
                      DrainTimeout, CloseProvider, BeginExit, EndExit
  <1>9. CASE UNCHANGED vars
    BY <1>1, <1>9 DEF vars
  <1>10. QED
    BY <1>3, <1>4, <1>4a, <1>5, <1>6, <1>7, <1>8, <1>9 DEF Next, Worker, Terminated

--------------------------------------------------------------------------------
(* Sentinels keep their place, and a drained executor stays drained.       *)

LEMMA ExecutorOne ==
    ASSUME DeliveryInv
    PROVE  /\ queue[1] \in Seq(Task) /\ job[1] \in Task \cup {NoTask} /\ turn \in Nat
           /\ NoTask.kind = "none" /\ NoTask.turn = 0
           /\ \A k \in DOMAIN queue[1] : queue[1][k].turn \in Nat /\ queue[1][k].turn <= turn
           /\ job[1].turn \in Nat /\ job[1].turn <= turn
           /\ todo \in Seq(Task) /\ TypeInv /\ LoopInv
           /\ todo # <<>> /\ SyncOf(Head(todo)) => turn > 0
  <1>1. /\ queue[1] \in Seq(Task) /\ job[1] \in Task \cup {NoTask} /\ turn \in Nat
        /\ todo \in Seq(Task) /\ TypeInv /\ LoopInv
    BY InState DEF DeliveryInv, AccountInv
  <1>2. \A x \in Task \cup {NoTask} : x.turn \in Nat
    BY TaskFacts, BoundAssumption
  <1>3. \A k \in DOMAIN queue[1] : queue[1][k] \in Task
    BY <1>1
  <1>4. ASSUME todo # <<>>, SyncOf(Head(todo)) PROVE turn > 0
    <2>1. Head(todo) \in Task /\ Head(todo).turn = turn
      BY <1>1, <1>4, TailFacts DEF LoopInv, HandOrder
    <2>2. QED
      BY <1>4, <2>1, TaskFacts, BoundAssumption DEF SyncOf, Turns
  <1>5. QED
    BY <1>1, <1>2, <1>3, <1>4, TaskFacts DEF LoopInv, NothingNewer

(* A task goes to the end of the queue.                                    *)
LEMMA EnqueueSentinelOrder ==
    ASSUME DeliveryInv, NEW x \in Task, queue'[1] = Append(queue[1], x), UNCHANGED job,
           SyncOf(x) => todo # <<>> /\ SyncOf(Head(todo)) /\ x.turn = turn,
           \/ todo' # <<>> => ~SyncOf(Head(todo'))
           \/ UNCHANGED <<todo, turn>> /\ x.kind # "barrier"
    PROVE  SentinelOrder'
  <1> DEFINE q == queue[1]  r == queue'[1]  n == Len(queue[1])
  <1>1. /\ n \in Nat /\ DOMAIN q = 1 .. n /\ DOMAIN r = 1 .. n + 1
        /\ \A k \in 1 .. n : r[k] = q[k]
        /\ r[n + 1] = x
    BY ExecutorOne, AppendFacts
  <1>2. /\ \A i, k \in DOMAIN q : i < k /\ q[i].kind = "barrier" /\ SyncOf(q[k]) => q[i].turn < q[k].turn
        /\ \A k \in DOMAIN q : job[1].kind = "barrier" /\ SyncOf(q[k]) => job[1].turn < q[k].turn
        /\ SyncOf(x) => /\ \A k \in DOMAIN q : q[k].kind = "barrier" => q[k].turn < x.turn
                        /\ job[1].kind = "barrier" => job[1].turn < x.turn
        /\ todo # <<>> /\ SyncOf(Head(todo)) =>
              /\ \A k \in DOMAIN q : q[k].kind = "barrier" => q[k].turn < turn
              /\ job[1].kind = "barrier" => job[1].turn < turn
    BY DEF DeliveryInv, DeliverInv, SentinelOrder
  <1> HIDE DEF q, r, n
  <1>3. ASSUME NEW i \in DOMAIN r, NEW k \in DOMAIN r, i < k, r[i].kind = "barrier", SyncOf(r[k])
        PROVE  r[i].turn < r[k].turn
    <2>1. i \in 1 .. n /\ r[i] = q[i]
      BY <1>1, <1>3
    <2>2. CASE k \in 1 .. n
      BY <1>1, <1>2, <1>3, <2>1, <2>2
    <2>3. CASE k = n + 1
      BY <1>1, <1>2, <1>3, <2>1, <2>3
    <2>4. QED
      BY <1>1, <1>3, <2>2, <2>3
  <1>4. ASSUME NEW k \in DOMAIN r, job[1].kind = "barrier", SyncOf(r[k])
        PROVE  job[1].turn < r[k].turn
    <2>1. CASE k \in 1 .. n
      BY <1>1, <1>2, <1>4, <2>1
    <2>2. CASE k = n + 1
      BY <1>1, <1>2, <1>4, <2>2
    <2>3. QED
      BY <1>1, <1>4, <2>1, <2>2
  <1>5. ASSUME todo' # <<>>, SyncOf(Head(todo'))
        PROVE  /\ \A k \in DOMAIN r : r[k].kind = "barrier" => r[k].turn < turn'
               /\ job[1].kind = "barrier" => job[1].turn < turn'
    BY <1>1, <1>2, <1>5
  <1>6. QED
    BY <1>3, <1>4, <1>5 DEF SentinelOrder, SyncOf, r

(* The queue and the job stay or are emptied, whatever is in hand.         *)
LEMMA SentinelFrame ==
    ASSUME DeliveryInv,
           queue'[1] = queue[1] \/ queue'[1] = <<>>,
           job'[1] = job[1] \/ job'[1] = NoTask,
           \/ todo' = todo /\ turn' = turn
           \/ todo' # <<>> => ~SyncOf(Head(todo'))
           \/ turn' = turn + 1
    PROVE  SentinelOrder'
  <1> DEFINE q == queue[1]  r == queue'[1]
  <1>1. /\ \A k \in DOMAIN r : k \in DOMAIN q /\ r[k] = q[k]
        /\ \A k \in DOMAIN q : q[k].turn \in Nat /\ q[k].turn <= turn
        /\ job[1].turn \in Nat /\ job[1].turn <= turn /\ turn \in Nat
        /\ job'[1].turn \in Nat /\ job'[1].turn <= turn
        /\ NoTask.kind = "none" /\ NoTask.turn = 0
    BY ExecutorOne
  <1>2. /\ \A i, k \in DOMAIN q : i < k /\ q[i].kind = "barrier" /\ SyncOf(q[k]) => q[i].turn < q[k].turn
        /\ \A k \in DOMAIN q : job[1].kind = "barrier" /\ SyncOf(q[k]) => job[1].turn < q[k].turn
        /\ todo # <<>> /\ SyncOf(Head(todo)) =>
              /\ \A k \in DOMAIN q : q[k].kind = "barrier" => q[k].turn < turn
              /\ job[1].kind = "barrier" => job[1].turn < turn
    BY ExecutorOne DEF DeliveryInv, DeliverInv, SentinelOrder
  <1> HIDE DEF q, r
  <1>3. ASSUME todo' # <<>>, SyncOf(Head(todo'))
        PROVE  /\ \A k \in DOMAIN r : r[k].kind = "barrier" => r[k].turn < turn'
               /\ job'[1].kind = "barrier" => job'[1].turn < turn'
    <2>1. CASE todo' = todo /\ turn' = turn
      BY <1>1, <1>2, <1>3, <2>1
    <2>2. CASE turn' = turn + 1
      BY <1>1, <2>2
    <2>3. QED
      BY <1>3, <2>1, <2>2
  <1>4. /\ \A i, k \in DOMAIN r : i < k /\ r[i].kind = "barrier" /\ SyncOf(r[k]) => r[i].turn < r[k].turn
        /\ \A k \in DOMAIN r : job'[1].kind = "barrier" /\ SyncOf(r[k]) => job'[1].turn < r[k].turn
    BY <1>1, <1>2
  <1>5. QED
    BY <1>3, <1>4 DEF SentinelOrder, SyncOf, r

LEMMA SentinelOrderStep ==
    ASSUME ~Threaded, DeliveryInv, [Next]_vars
    PROVE  SentinelOrder'
  <1> USE DEF callerVars, execVars, logVars, tdVars
  <1>0. /\ TypeInv /\ LoopInv /\ OneExecutor /\ Executors = {1, 2} /\ job[2] = NoTask /\ queue[2] = <<>>
        /\ job \in [Executors -> Task \cup {NoTask}] /\ queue \in [Executors -> Seq(Task)]
        /\ queue[1] \in Seq(Task)
    BY ExecutorOne DEF LoopInv, OneExecutor, TypeInv, TypeOK, ExecOK, Executors
  <1>1. CASE PostTurn
    BY <1>1, SentinelFrame DEF PostTurn
  <1>2. CASE GetExecutor \/ CreateFails \/ SubmitRejected \/ FlushBegin \/ FlushFails
    BY <1>2, SentinelFrame DEF GetExecutor, CreateFails, SubmitRejected, FlushBegin, FlushFails
  <1>3. CASE SubmitAccepted
    <2>1. /\ pc = "submit" /\ ref = 1 /\ todo # <<>> /\ HandedOver /\ UNCHANGED <<job, turn>>
          /\ queue' = [queue EXCEPT ![1] = Append(@, Head(todo))]
      BY <1>0, <1>3 DEF SubmitAccepted, OneExecutor, TypeInv, ShapeInv
    <2>2. queue'[1] = Append(queue[1], Head(todo))
      BY <1>0, <2>1
    <2>3. /\ Head(todo) \in Task
          /\ SyncOf(Head(todo)) => Head(todo).turn = turn
          /\ todo' # <<>> => ~SyncOf(Head(todo'))
      BY <1>0, <2>1, HandedOverRest, TailFacts, ExecutorOne DEF LoopInv, HandOrder
    <2>4. QED
      BY <2>1, <2>2, <2>3, EnqueueSentinelOrder
  <1>4. CASE FlushSubmit \/ FlushHalfway
    <2>1. pc = "flush" /\ ref = 1 /\ todo = <<>> /\ UNCHANGED <<job, turn, todo>>
      BY <1>0, <1>4 DEF FlushSubmit, FlushHalfway, OneExecutor, TypeInv, ShapeInv
    <2>2. CASE UNCHANGED queue
      BY <2>1, <2>2, SentinelFrame
    <2>3. CASE queue' = [queue EXCEPT ![ref] = Append(@, Sentinel)]
      <3>1. Sentinel \in Task /\ ~SyncOf(Sentinel)
        BY <1>0, TaskFacts DEF Sentinel, SyncOf, TypeInv, TypeOK, CallerOK
      <3>2. queue'[1] = Append(queue[1], Sentinel)
        BY <1>0, <2>1, <2>3
      <3>3. QED
        BY <2>1, <3>1, <3>2, EnqueueSentinelOrder
    <2>4. QED
      BY <1>4, <2>2, <2>3 DEF FlushSubmit, FlushHalfway
  <1>4a. CASE SubmitHalfway
    <2> DEFINE x == Copy(Head(todo))
    <2>1. /\ pc = "submit" /\ ref = 1 /\ todo # <<>> /\ UNCHANGED <<job, turn, todo>>
          /\ queue' = [queue EXCEPT ![1] = Append(@, x)]
      BY <1>0, <1>4a DEF SubmitHalfway, OneExecutor, TypeInv, ShapeInv
    <2>2. Head(todo) \in Task
      BY <2>1, TailFacts, ExecutorOne
    <2>3. x \in Task /\ ~SyncOf(x)
      BY <2>2, TaskFacts DEF SyncOf
    <2>4. x.kind # "barrier"
      <3>1. Head(todo).kind # "barrier"
        BY <2>1, TailFacts, ExecutorOne DEF DeliveryInv, AccountInv, CopiesLate, Handed
      <3>2. QED
        BY <2>2, <3>1 DEF Copy, Task
    <2> HIDE DEF x
    <2>5. queue'[1] = Append(queue[1], x)
      BY <1>0, <2>1
    <2>6. QED
      BY <2>1, <2>3, <2>4, <2>5, EnqueueSentinelOrder
  <1>5. CASE InlineReturns
    <2>1. todo # <<>> /\ UNCHANGED <<queue, job, turn>>
      BY <1>0, <1>5 DEF InlineReturns, TypeInv, ShapeInv
    <2>2. todo' = todo \/ (todo' # <<>> => ~SyncOf(Head(todo')))
      BY <1>0, <1>5, <2>1, HandedOverRest DEF InlineReturns
    <2>3. QED
      BY <2>1, <2>2, SentinelFrame
  <1>6. CASE ManagerDropped
    <2>1. todo # <<>> /\ UNCHANGED <<queue, job, turn>> /\ HandedOver
      BY <1>0, <1>6 DEF ManagerDropped, TypeInv, ShapeInv
    <2>2. todo' # <<>> => ~SyncOf(Head(todo'))
      BY <1>0, <2>1, HandedOverRest
    <2>3. QED
      BY <2>1, <2>2, SentinelFrame
  <1>6a. ASSUME queue[1] # <<>>, queue'[1] = Tail(queue[1]), UNCHANGED <<todo, turn>>,
                job'[1] \in {job[1], Head(queue[1])}
         PROVE  SentinelOrder'
    <2> DEFINE q == queue[1]  r == queue'[1]
    <2>2. /\ 1 \in DOMAIN q /\ Head(q) = q[1]
          /\ \A k \in DOMAIN r : k + 1 \in DOMAIN q /\ 1 < k + 1 /\ r[k] = q[k + 1]
          /\ \A i, k \in DOMAIN r : i < k => i + 1 < k + 1
      BY <1>0, <1>6a, TailFacts
    <2>3. /\ \A i, k \in DOMAIN q : i < k /\ q[i].kind = "barrier" /\ SyncOf(q[k]) => q[i].turn < q[k].turn
          /\ \A k \in DOMAIN q : job[1].kind = "barrier" /\ SyncOf(q[k]) => job[1].turn < q[k].turn
          /\ todo # <<>> /\ SyncOf(Head(todo)) =>
                /\ \A k \in DOMAIN q : q[k].kind = "barrier" => q[k].turn < turn
                /\ job[1].kind = "barrier" => job[1].turn < turn
      BY DEF DeliveryInv, DeliverInv, SentinelOrder
    <2>1. job'[1] = job[1] \/ job'[1] = q[1]
      BY <1>6a, <2>2
    <2> HIDE DEF q, r
    <2>4. \A i, k \in DOMAIN r : i < k /\ r[i].kind = "barrier" /\ SyncOf(r[k]) => r[i].turn < r[k].turn
      BY <2>2, <2>3
    <2>5. \A k \in DOMAIN r : job'[1].kind = "barrier" /\ SyncOf(r[k]) => job'[1].turn < r[k].turn
      BY <2>1, <2>2, <2>3
    <2>6. todo' # <<>> /\ SyncOf(Head(todo')) =>
              /\ \A k \in DOMAIN r : r[k].kind = "barrier" => r[k].turn < turn'
              /\ job'[1].kind = "barrier" => job'[1].turn < turn'
      BY <1>6a, <2>1, <2>2, <2>3
    <2>7. QED
      BY <2>4, <2>5, <2>6 DEF SentinelOrder, SyncOf, r
  <1>7. ASSUME NEW e \in Executors, StartJob(e) PROVE SentinelOrder'
    <2>1. /\ e = 1 /\ queue[1] # <<>>
          /\ job'[1] = Head(queue[1]) /\ queue'[1] = Tail(queue[1]) /\ UNCHANGED <<todo, turn>>
      BY <1>0, <1>7 DEF StartJob
    <2>2. QED
      BY <1>6a, <2>1
  <1>8. ASSUME NEW e \in Executors, CallReturns(e) \/ BarrierRuns(e) PROVE SentinelOrder'
    <2>1. UNCHANGED <<queue, todo, turn>> /\ (job'[1] = job[1] \/ job'[1] = NoTask)
      BY <1>0, <1>8 DEF CallReturns, BarrierRuns
    <2>2. QED
      BY <2>1, SentinelFrame
  <1>9. CASE Teardown \/ BeginExit \/ EndExit
    <2>1. CASE CancelQueued
      <3>1. tdRef = 1
        BY <2>1 DEF CancelQueued, DeliveryInv, DeliverInv, DrainOrder
      <3>2. queue[1] # <<>> /\ queue'[1] = Tail(queue[1]) /\ UNCHANGED <<todo, turn, job>>
        BY <1>0, <2>1, <3>1 DEF CancelQueued
      <3>3. QED
        BY <1>6a, <3>2
    <2>2. CASE ~CancelQueued
      <3>1. UNCHANGED <<job, todo, turn, queue>>
        BY <1>9, <2>2 DEF Teardown, TakeExecutor, StopAccepting, CancelledAll, Drained, DrainTimeout,
                          CloseProvider, BeginExit, EndExit
      <3>2. QED
        BY <3>1, SentinelFrame
    <2>3. QED
      BY <2>1, <2>2
  <1>10. CASE UNCHANGED vars
    BY <1>10, SentinelFrame DEF vars
  <1>11. QED
    BY <1>1, <1>2, <1>3, <1>4, <1>4a, <1>5, <1>6, <1>7, <1>8, <1>9, <1>10 DEF Next, Caller, Worker, Terminated

LEMMA DrainOrderStep ==
    ASSUME ~Threaded, DeliveryInv, [Next]_vars
    PROVE  DrainOrder'
  <1> USE DEF callerVars, execVars, logVars, tdVars
  <1>0. /\ TypeInv /\ LoopInv /\ OneExecutor /\ DrainOrder
        /\ Executors = {1, 2} /\ job[2] = NoTask /\ queue[2] = <<>>
        /\ job \in [Executors -> Task \cup {NoTask}] /\ queue \in [Executors -> Seq(Task)]
        /\ td \in {"up", "taken", "cancelling", "draining", "closing", "down"}
    BY ExecutorOne DEF LoopInv, OneExecutor, TypeInv, TypeOK, ExecOK, TeardownOK, Executors,
                       DeliveryInv, DeliverInv
  <1>1. ASSUME UNCHANGED <<queue, job, tdVars>> PROVE DrainOrder'
    BY <1>0, <1>1 DEF DrainOrder
  <1>2. ASSUME Caller, ~SubmitAccepted, ~SubmitHalfway, ~FlushSubmit, ~FlushHalfway PROVE DrainOrder'
    BY <1>1, <1>2 DEF Caller, PostTurn, GetExecutor, CreateFails, SubmitRejected,
                      InlineReturns, ManagerDropped, FlushBegin, FlushFails
  <1>3. CASE SubmitAccepted \/ SubmitHalfway \/ FlushSubmit \/ FlushHalfway
    <2>1. td = "up" /\ UNCHANGED <<job, tdVars>>
      BY <1>0, <1>3 DEF SubmitAccepted, SubmitHalfway, FlushSubmit, FlushHalfway, OneExecutor
    <2>2. QED
      BY <1>0, <2>1 DEF DrainOrder
  <1>4. ASSUME NEW e \in Executors, StartJob(e) PROVE DrainOrder'
    <2>1. e = 1 /\ queue[1] # <<>> /\ UNCHANGED tdVars
      BY <1>0, <1>4 DEF StartJob
    <2>2. td \in {"up", "taken", "cancelling"}
      BY <1>0, <2>1 DEF DrainOrder
    <2>3. QED
      BY <1>0, <2>1, <2>2 DEF DrainOrder
  <1>5. ASSUME NEW e \in Executors, CallReturns(e) \/ BarrierRuns(e) PROVE DrainOrder'
    <2>1. UNCHANGED <<queue, tdVars>> /\ (job'[1] = job[1] \/ job'[1] = NoTask)
      BY <1>0, <1>5 DEF CallReturns, BarrierRuns
    <2>2. QED
      BY <1>0, <2>1 DEF DrainOrder
  <1>6. CASE TakeExecutor
    <2>1. /\ td = "up" /\ tdRef' = current
          /\ td' = IF current = NoExecutor THEN "closing" ELSE "taken"
          /\ UNCHANGED <<queue, job, closed, timedOut>>
      BY <1>6 DEF TakeExecutor
    <2>2. current = made /\ (made = 0 \/ made = 1)
      <3>1. made \in 0 .. 2 /\ made <= 1 /\ current = made
        BY <1>0, <2>1 DEF TypeInv, ShapeInv, TypeOK, ExecOK
      <3>2. QED
        BY <3>1
    <2>3. CASE made = 0
      <3>1. queue[1] = <<>> /\ job[1] = NoTask /\ td' = "closing" /\ closed = {}
        BY <1>0, <2>1, <2>2, <2>3 DEF OneExecutor, DrainOrder, NoExecutor
      <3>2. QED
        BY <2>1, <3>1 DEF DrainOrder
    <2>4. CASE made = 1
      <3>1. td' = "taken" /\ tdRef' = 1 /\ closed = {}
        BY <1>0, <2>1, <2>2, <2>4 DEF DrainOrder, NoExecutor
      <3>2. QED
        BY <2>1, <3>1 DEF DrainOrder
    <2>5. QED
      BY <2>2, <2>3, <2>4
  <1>7. CASE StopAccepting \/ CancelQueued \/ CancelledAll
    <2>1. /\ td \in {"taken", "cancelling"} /\ td' \in {"cancelling", "draining"}
          /\ UNCHANGED <<tdRef, closed>> /\ tdRef = 1
      BY <1>0, <1>7 DEF StopAccepting, CancelQueued, CancelledAll, DrainOrder
    <2>2. td' = "draining" => queue'[1] = <<>>
      BY <1>7, <2>1 DEF StopAccepting, CancelQueued, CancelledAll
    <2>3. QED
      BY <1>0, <2>1, <2>2 DEF DrainOrder
  <1>8. CASE Drained \/ DrainTimeout
    BY <1>0, <1>8 DEF Drained, DrainTimeout, DrainOrder
  <1>9. ASSUME NEW p \in Providers, CloseProvider(p) PROVE DrainOrder'
    BY <1>0, <1>9 DEF CloseProvider, DrainOrder
  <1>10. CASE BeginExit \/ EndExit
    BY <1>0, <1>10 DEF BeginExit, EndExit, DrainOrder
  <1>11. CASE UNCHANGED vars
    BY <1>1, <1>11 DEF vars
  <1>12. QED
    BY <1>2, <1>3, <1>4, <1>5, <1>6, <1>7, <1>8, <1>9, <1>10, <1>11 DEF Next, Worker, Teardown, Terminated

--------------------------------------------------------------------------------
(* The invariant of one event loop, and what it promises.                  *)

LEMMA InitDeliver == Init => DeliverInv
  <1> SUFFICES ASSUME Init PROVE DeliverInv
    OBVIOUS
  <1>1. /\ queue[1] = <<>> /\ job[1] = NoTask /\ todo = <<>> /\ td = "up" /\ closed = {}
        /\ turn = 0 /\ flushed = 0
        /\ DOMAIN <<>> = {} /\ 1 .. 0 = {}
    BY DEF Init, Executors
  <1>2. SentinelOrder /\ DrainOrder /\ FlushCertifies
    BY <1>1 DEF SentinelOrder, DrainOrder, FlushCertifies
  <1>3. \A p \in Providers : Owed(p) = {}
    BY <1>1, InitAccount DEF Accounted
  <1>4. QED
    BY <1>2, <1>3 DEF DeliverInv, OldestFirst

LEMMA DeliverInvStep == ~Threaded /\ DeliveryInv /\ [Next]_vars => DeliverInv'
  <1> SUFFICES ASSUME ~Threaded, DeliveryInv, [Next]_vars PROVE DeliverInv'
    OBVIOUS
  <1>1. Ledger
    BY StepLedger DEF DeliveryInv
  <1>2. OldestFirst' /\ FlushCertifies'
    BY <1>1, OldestFirstStep, FlushStep
  <1>3. QED
    BY <1>2, SentinelOrderStep, DrainOrderStep DEF DeliverInv

LEMMA DeliveryInvariance == ~Threaded => (Spec => []DeliveryInv)
  <1> SUFFICES ASSUME ~Threaded PROVE Spec => []DeliveryInv
    OBVIOUS
  <1>1. Init => LoopInv /\ DeliverInv
    BY InitLoopInv, InitDeliver
  <1>2. AccountInv /\ (LoopInv /\ DeliverInv) /\ [Next]_vars => (LoopInv /\ DeliverInv)'
    BY StepLoopInv, DeliverInvStep DEF AccountInv, DeliveryInv
  <1>3. AccountInv /\ (LoopInv /\ DeliverInv) => DeliveryInv
    BY DEF DeliveryInv
  <1>4. QED
    BY <1>1, <1>2, <1>3, AccountInvariance, PTL DEF Spec

(* flush_pending returned True: every turn handed over before that call    *)
(* had been offered to every provider, for any number of providers.        *)
THEOREM FlushesCertify == ~Threaded => (Spec => []FlushCertifies)
  <1> SUFFICES ASSUME ~Threaded PROVE Spec => []FlushCertifies
    OBVIOUS
  <1>1. DeliveryInv => FlushCertifies
    BY DEF DeliveryInv, DeliverInv
  <1>2. QED
    BY <1>1, DeliveryInvariance, PTL

(* shutdown_all drains the worker before it shuts the providers down: no   *)
(* provider is called after its shutdown() unless the drain timed out.     *)
THEOREM QuietOnceClosed == ~Threaded => (Spec => []QuietAfterShutdown)
  <1> SUFFICES ASSUME ~Threaded PROVE Spec => []QuietAfterShutdown
    OBVIOUS
  <1>1. DeliveryInv => QuietAfterShutdown
    <2> SUFFICES ASSUME DeliveryInv, ~timedOut, NEW e \in Inside, at[e] \in closed PROVE FALSE
      BY DEF QuietAfterShutdown
    <2>1. e = 1 /\ job[1] # NoTask
      BY InState DEF Inside, DeliveryInv, AccountInv, LoopInv, OneExecutor, NoTask
    <2>2. td \in {"up", "taken", "cancelling", "draining"} => closed = {}
      BY DEF DeliveryInv, DeliverInv, DrainOrder
    <2>3. td \in {"closing", "down"}
      BY <2>2 DEF DeliveryInv, AccountInv, TypeInv, TypeOK, TeardownOK
    <2>4. QED
      BY <2>1, <2>3 DEF DeliveryInv, DeliverInv, DrainOrder
  <1>2. QED
    BY <1>1, DeliveryInvariance, PTL

--------------------------------------------------------------------------------
(* On one event loop the manager implements TurnDelivery.                  *)

LEMMA InitImplements == Init => Delivery!Init
  <1> SUFFICES ASSUME Init PROVE Delivery!Init
    OBVIOUS
  <1>1. turn = 0 /\ cancelled = {} /\ td = "up" /\ landed = [p \in Providers |-> <<>>]
    BY DEF Init
  <1>2. \A p \in Providers : Owed(p) = {}
    BY <1>1, InitAccount DEF Accounted
  <1>3. [p \in Providers |-> Owed(p)] = [p \in Providers |-> {}]
    BY <1>2
  <1>4. QED
    BY <1>1, <1>3 DEF Delivery!Init

(* Every step hands over, offers, begins teardown or writes off as         *)
(* TurnDelivery does, or leaves its variables alone.                       *)
LEMMA StepImplements == ~Threaded /\ DeliveryInv /\ [Next]_vars => [Delivery!Next]_(Delivery!dVars)
  <1> SUFFICES ASSUME ~Threaded, DeliveryInv, [Next]_vars
               PROVE  [Delivery!Next]_(Delivery!dVars)
    OBVIOUS
  <1> DEFINE owed == [p \in Providers |-> Owed(p)]
  <1>0. /\ Ledger /\ LogOK /\ AccountInv /\ OldestFirst
    BY StepLedger DEF DeliveryInv, DeliverInv, AccountInv, TypeInv, TypeOK
  <1>up. HandsOver => td = "up"
    BY DEF HandsOver, Available, DeliveryInv, AccountInv, TypeInv, ShapeInv, LoopInv, OneExecutor
  <1>1. CASE HandsOver
    <2>1. owed' = [p \in Providers |-> owed[p] \cup {turn'}]
      BY <1>1 DEF HandsOver
    <2>2. Delivery!HandOver
      BY <1>1, <1>up, <2>1 DEF HandsOver, Delivery!HandOver
    <2>3. QED
      BY <2>2 DEF Delivery!Next
  <1>2. CASE Moves
    <2>1. owed' = owed
      BY <1>2 DEF Moves
    <2>2. CASE (td # "up")' = (td # "up")
      BY <1>2, <2>1, <2>2 DEF Moves, Delivery!dVars
    <2>3. CASE (td # "up")' # (td # "up")
      <3>1. td = "up" /\ td' # "up"
        BY <1>0, <2>3 DEF Ledger
      <3>2. Delivery!Teardown
        BY <1>2, <2>1, <3>1 DEF Moves, Delivery!Teardown
      <3>3. QED
        BY <3>2 DEF Delivery!Next
    <2>4. QED
      BY <2>2, <2>3
  <1>3. CASE Offers
    <2>1. PICK p \in Providers : \E t \in Owed(p) :
              /\ Offering(p, t)
              /\ Returns(p, t) \/ Raises(p, t)
              /\ Owed(p)' = Owed(p) \ {t} /\ \A r \in Providers \ {p} : Owed(r)' = Owed(r)
              /\ UNCHANGED <<turn, cancelled, td>>
      BY <1>3 DEF Offers
    <2>2. PICK t \in Owed(p) :
              /\ Offering(p, t)
              /\ Returns(p, t) \/ Raises(p, t)
              /\ Owed(p)' = Owed(p) \ {t} /\ \A r \in Providers \ {p} : Owed(r)' = Owed(r)
              /\ UNCHANGED <<turn, cancelled, td>>
      BY <2>1
    <2>3. t \in Nat /\ \A u \in owed[p] : t <= u
      <3>1. t \in Nat /\ \A u \in Owed(p) : u # t => t < u
        BY <1>0, <2>2, OldestOffered, Bounds
      <3>2. \A u \in Owed(p) : u \in Nat
        BY <1>0, Bounds
      <3>3. QED
        BY <2>2, <3>1, <3>2
    <2>4. owed' = [owed EXCEPT ![p] = @ \ {t}]
      BY <2>2
    <2>5. landed' \in {landed, [landed EXCEPT ![p] = Append(@, t)]}
      BY <2>2 DEF Returns, Raises
    <2>6. Delivery!Offer(p)
      BY <2>2, <2>3, <2>4, <2>5 DEF Delivery!Offer
    <2>7. QED
      BY <2>6 DEF Delivery!Next
  <1>4. CASE WritesOff
    <2>1. /\ td = "cancelling" /\ UNCHANGED <<turn, landed, td>> /\ cancelled' = cancelled \cup Cut
          /\ \A p \in Providers : Owed(p)' = Owed(p) \ Cut
          /\ \A p \in Providers : Cut \subseteq Owed(p)
      BY <1>4, OwedNow DEF WritesOff, OwedPlaces
    <2>2. CASE Cut = {}
      <3>1. owed' = owed /\ cancelled' = cancelled
        BY <2>1, <2>2
      <3>2. QED
        BY <2>1, <3>1 DEF Delivery!dVars
    <2>3. CASE Cut # {}
      <3>1. PICK t : Cut = {t}
        BY <2>3 DEF Cut, SyncIn
      <3>2. owed' = [p \in Providers |-> owed[p] \ {t}] /\ \A p \in Providers : t \in owed[p]
        BY <2>1, <3>1
      <3>3. t \in 1 .. turn
        BY <1>0, <2>1, <3>1, Bounds, InState DEF AccountInv
      <3>4. Delivery!WriteOff
        BY <2>1, <3>1, <3>2, <3>3 DEF Delivery!WriteOff
      <3>5. QED
        BY <3>4 DEF Delivery!Next
    <2>4. QED
      BY <2>2, <2>3
  <1>5. QED
    BY <1>0, <1>1, <1>2, <1>3, <1>4 DEF Ledger

(* The manager keeps the promise TurnDelivery states: each provider is     *)
(* offered the turns it is owed oldest first and each once, no turn comes  *)
(* in once teardown has begun, and what teardown writes off no provider    *)
(* has been offered yet, so that all of them lack the same turns.          *)
THEOREM ImplementsTurnDelivery == ~Threaded => (Spec => DeliverySpec)
  <1> SUFFICES ASSUME ~Threaded PROVE Spec => DeliverySpec
    OBVIOUS
  <1>1. DeliveryInv /\ [Next]_vars => [Delivery!Next]_(Delivery!dVars)
    BY StepImplements
  <1>2. QED
    BY <1>1, InitImplements, DeliveryInvariance, PTL DEF Spec, DeliverySpec, Delivery!Spec
================================================================================
