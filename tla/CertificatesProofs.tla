------------------------- MODULE CertificatesProofs -------------------------
(* The safety of Certificates, for any number of hostnames, calls of ensure, *)
(* certificates and failures.                                                *)
EXTENDS Certificates, TLAPS

Task == [pc : {"idle", "waiting", "start"} \cup OrderPcs, host : Hosts, cert : Cert]

AccountState == [cell : BOOLEAN, file : BOOLEAN, by : Tasks \cup {NoTask},
                 made : Nat, lost : Nat]

(* A hostname has one order at most, and is marked exactly while it has one. *)
OneOrder ==
  \A t, u \in Tasks : Ordering(t) /\ Ordering(u) /\ task[t].host = task[u].host => t = u

Marked ==
  \A h \in Hosts : h \in ordering <=> \E t \in Tasks : Ordering(t) /\ task[t].host = h

Challenged ==
  /\ \A t \in Tasks : task[t].pc = "ready" => t \in challenges
  /\ \A t \in challenges : Ordering(t)

(* A certificate on its way to the disk follows the one that is there, and   *)
(* one on its way to memory is the one that is there.                        *)
InOrder ==
  \A t \in Tasks : /\ task[t].pc = "store" => task[t].cert = NextAfter(file[task[t].host])
                   /\ task[t].pc = "serve" => task[t].cert = file[task[t].host]

(* One call makes the account, while there is none; what the CA has and the  *)
(* Node lost is counted when it is lost.                                     *)
Makes(t) == task[t].pc \in {"make", "keep"}

OneMaker ==
  /\ \A t \in Tasks : Makes(t) <=> account.by = t
  /\ account.by # NoTask => ~account.file
  /\ account.cell => account.file

HasAccount == account.file \/ \E t \in Tasks : task[t].pc = "keep"

Accounts ==
  /\ HasAccount => account.made = account.lost + 1
  /\ ~HasAccount => account.made = account.lost

CaLoads == CaKeyKept /\ (node = "cert" => caKey # 0)

IInv ==
  /\ TypeOK /\ OneOrder /\ Marked /\ Challenged
  /\ InOrder /\ NeverServesOlder /\ OneMaker /\ Accounts /\ CaLoads
-----------------------------------------------------------------------------
(* What the actions put into the variables has its type. *)
LEMMA Types ==
  /\ None \in Cert /\ Idle \in Task /\ Idle.pc = "idle"
  /\ \A h \in Hosts : [Idle EXCEPT !.pc = "waiting", !.host = h] \in Task
<1>1. None \in Cert
  BY MaxCertsAssumption DEF None, Cert
<1>2. (CHOOSE h \in Hosts : TRUE) \in Hosts
  BY HostsAssumption
<1>3. Idle \in Task /\ Idle.pc = "idle"
  BY <1>1, <1>2, Zenon DEF Idle, Task
<1>4. \A h \in Hosts : [Idle EXCEPT !.pc = "waiting", !.host = h] \in Task
  BY <1>3, Zenon DEF Task
<1> QED BY <1>1, <1>3, <1>4, Zenon

(* A renewed certificate is fresh, and no earlier than the one it follows. *)
LEMMA Renewed ==
  ASSUME NEW c \in Cert
  PROVE  NextAfter(c) \in Cert /\ NextAfter(c).fresh = TRUE /\ c.n <= NextAfter(c).n
<1>1. c.n \in 0 .. MaxCerts
  BY DEF Cert
<1>2. NextAfter(c).n \in 0 .. MaxCerts /\ c.n <= NextAfter(c).n
  BY <1>1, MaxCertsAssumption DEF NextAfter
<1>3. NextAfter(c).fresh = TRUE
  BY DEF NextAfter
<1>4. NextAfter(c) = [n |-> NextAfter(c).n, fresh |-> TRUE]
  BY DEF NextAfter
<1>5. \A m \in 0 .. MaxCerts : [n |-> m, fresh |-> TRUE] \in Cert
  BY DEF Cert
<1>6. NextAfter(c) \in Cert
  BY <1>2, <1>4, <1>5, Zenon
<1> QED BY <1>2, <1>3, <1>6

(* What a certificate's growing old leaves alone. *)
LEMMA Aged ==
  ASSUME NEW c \in Cert
  PROVE  /\ [c EXCEPT !.fresh = FALSE] \in Cert
         /\ [c EXCEPT !.fresh = FALSE].n = c.n
         /\ [c EXCEPT !.fresh = FALSE].fresh = FALSE
BY Zenon DEF Cert

(* What setting one call of ensure leaves alone. *)
LEMMA TaskSet ==
  ASSUME TypeOK, NEW t \in Tasks, NEW k \in Task, task' = [task EXCEPT ![t] = k]
  PROVE  /\ task' \in [Tasks -> Task]
         /\ task'[t] = k /\ \A u \in Tasks \ {t} : task'[u] = task[u]
BY DEF TypeOK, Task

(* A task that only moves on. *)
LEMMA ToEffect ==
  ASSUME TypeOK, NEW t \in Tasks, NEW p \in {"idle", "waiting", "start"} \cup OrderPcs, To(t, p)
  PROVE  /\ task' \in [Tasks -> Task]
         /\ task'[t].pc = p /\ task'[t].host = task[t].host /\ task'[t].cert = task[t].cert
         /\ \A u \in Tasks \ {t} : task'[u] = task[u]
BY Zenon DEF TypeOK, Task, To

(* An order goes on: its hostname stays marked, its answer served. *)
LEMMA GoesOn ==
  ASSUME IInv, NEW t \in Tasks, Ordering(t), task'[t].pc \in OrderPcs,
         task'[t].host = task[t].host,
         \A u \in Tasks \ {t} : task'[u] = task[u],
         ordering' = ordering, challenges' \in {challenges, challenges \cup {t}},
         task'[t].pc = "ready" => t \in challenges'
  PROVE  OneOrder' /\ Marked' /\ Challenged'
<1>1. \A u \in Tasks : Ordering(u)' <=> Ordering(u)
  BY DEF Ordering
<1>2. \A u \in Tasks : task'[u].host = task[u].host
  OBVIOUS
<1>3. OneOrder'
  BY <1>1, <1>2, Zenon DEF OneOrder, IInv
<1>4. Marked'
  BY <1>1, <1>2, Zenon DEF Marked, IInv
<1>5. Challenged'
  BY <1>1 DEF Challenged, IInv, TypeOK
<1> QED BY <1>3, <1>4, <1>5

(* A call of ensure that has no order does not get one. *)
LEMMA StaysOut ==
  ASSUME IInv, NEW t \in Tasks, ~Ordering(t), task'[t].pc \notin OrderPcs,
         \A u \in Tasks \ {t} : task'[u] = task[u],
         UNCHANGED <<ordering, challenges>>
  PROVE  OneOrder' /\ Marked' /\ Challenged'
<1>1. \A u \in Tasks : Ordering(u)' <=> Ordering(u)
  BY DEF Ordering
<1>2. \A u \in Tasks : Ordering(u) => task'[u].host = task[u].host
  OBVIOUS
<1>3. OneOrder'
  BY <1>1, <1>2, Zenon DEF OneOrder, IInv
<1>4. Marked'
  BY <1>1, <1>2, Zenon DEF Marked, IInv
<1>5. Challenged'
  BY <1>1 DEF Challenged, IInv, TypeOK, OrderPcs
<1> QED BY <1>3, <1>4, <1>5

(* A step of a call that brings no certificate. *)
LEMMA CertsAlone ==
  ASSUME IInv, NEW t \in Tasks, task'[t].pc \notin {"store", "serve"},
         \A u \in Tasks \ {t} : task'[u] = task[u],
         UNCHANGED <<file, mem>>
  PROVE  InOrder' /\ NeverServesOlder'
<1>1. InOrder'
  BY DEF InOrder, IInv
<1> QED BY <1>1 DEF NeverServesOlder, IInv

(* A step of a call that has nothing to do with the account. *)
LEMMA AccountAlone ==
  ASSUME IInv, NEW t \in Tasks, ~Makes(t), task'[t].pc \notin {"make", "keep"},
         \A u \in Tasks \ {t} : task'[u] = task[u],
         UNCHANGED account
  PROVE  OneMaker' /\ Accounts'
<1>1. \A u \in Tasks : Makes(u)' <=> Makes(u)
  BY DEF Makes
<1>2. HasAccount' <=> HasAccount
  BY DEF HasAccount, Makes
<1> QED BY <1>1, <1>2, Zenon DEF OneMaker, Accounts, IInv
-----------------------------------------------------------------------------
(* The steps of a call before its order: ensure's looks at the certificate   *)
(* and at the last failure.                                                  *)
LEMMA LooksInv ==
  ASSUME IInv, NEW t \in Tasks, SeeWaiting(t) \/ \E h \in Hosts : GetCertificate(t, h)
  PROVE  IInv'
<1>1. UNCHANGED <<node_vars, acme_vars, account, trouble>>
  BY Zenon DEF SeeWaiting, GetCertificate
<1>2. /\ task[t].pc \in {"idle", "waiting"}
      /\ task'[t].pc \in {"idle", "waiting", "start"} /\ task' \in [Tasks -> Task]
      /\ \A u \in Tasks \ {t} : task'[u] = task[u]
  <2>1. CASE SeeWaiting(t)
    BY <2>1, ToEffect, Zenon DEF SeeWaiting, IInv
  <2>2. CASE \E h \in Hosts : GetCertificate(t, h)
    <3>1. PICK h \in Hosts : GetCertificate(t, h)
      BY <2>2
    <3>2. [Idle EXCEPT !.pc = "waiting", !.host = h].pc = "waiting"
      BY Types, Zenon DEF Task
    <3> QED BY <3>1, <3>2, Types, TaskSet, Zenon DEF GetCertificate, IInv
  <2> QED BY <2>1, <2>2, Zenon
<1>3. TypeOK'
  BY <1>1, <1>2, Zenon DEF IInv, TypeOK, Task, node_vars, acme_vars
<1>4. OneOrder' /\ Marked' /\ Challenged'
  BY <1>1, <1>2, StaysOut DEF Ordering, OrderPcs, acme_vars
<1>5. InOrder' /\ NeverServesOlder'
  BY <1>1, <1>2, CertsAlone DEF acme_vars
<1>6. OneMaker' /\ Accounts'
  BY <1>1, <1>2, AccountAlone DEF Makes
<1> QED BY <1>1, <1>3, <1>4, <1>5, <1>6, Zenon DEF IInv, CaLoads, CaKeyKept, node_vars

(* ensure marks the hostname, or leaves it to the order under way. *)
LEMMA StartOrderInv ==
  ASSUME IInv, NEW t \in Tasks, StartOrder(t)
  PROVE  IInv'
<1> DEFINE h == task[t].host
<1>1. UNCHANGED <<node_vars, file, mem, failed, challenges, account, trouble>>
  BY DEF StartOrder
<1>2. /\ task[t].pc = "start" /\ h \in Hosts /\ ordering' = ordering \cup {h}
      /\ task' \in [Tasks -> Task] /\ task'[t].host = h
      /\ task'[t].pc = IF h \in ordering THEN "idle" ELSE "account"
      /\ \A u \in Tasks \ {t} : task'[u] = task[u]
  <2>1. task[t].pc = "start" /\ h \in Hosts /\ ordering' = ordering \cup {h}
    BY Zenon DEF StartOrder, IInv, TypeOK
  <2>2. (IF h \in ordering THEN "idle" ELSE "account")
          \in {"idle", "waiting", "start"} \cup OrderPcs
    BY DEF OrderPcs
  <2> QED BY <2>1, <2>2, ToEffect, Zenon DEF StartOrder, IInv
<1>3. TypeOK'
  BY <1>1, <1>2, Zenon DEF IInv, TypeOK, Task, node_vars
<1>4. OneOrder' /\ Marked' /\ Challenged'
  <2>1. CASE h \in ordering
    <3>1. ordering' = ordering
      BY <1>2, <2>1
    <3> QED BY <1>1, <1>2, <2>1, <3>1, StaysOut DEF Ordering, OrderPcs
  <2>2. CASE h \notin ordering
    <3>1. \A u \in Tasks : Ordering(u) => task[u].host # h
      BY <1>2, <2>2 DEF IInv, Marked
    <3>2. \A u \in Tasks : Ordering(u)' <=> Ordering(u) \/ u = t
      BY <1>2, <2>2 DEF Ordering, OrderPcs
    <3>3. OneOrder'
      BY <1>2, <3>1, <3>2 DEF OneOrder, IInv
    <3>4. Marked'
      BY <1>2, <3>2 DEF Marked, IInv, Ordering, OrderPcs
    <3>5. Challenged'
      BY <1>1, <1>2, <2>2, <3>2 DEF Challenged, IInv, TypeOK
    <3> QED BY <3>3, <3>4, <3>5
  <2> QED BY <2>1, <2>2
<1>5. InOrder' /\ NeverServesOlder'
  BY <1>1, <1>2, CertsAlone
<1>6. OneMaker' /\ Accounts'
  BY <1>1, <1>2, AccountAlone DEF Makes
<1> QED BY <1>1, <1>3, <1>4, <1>5, <1>6, Zenon DEF IInv, CaLoads, CaKeyKept, node_vars

(* The PendingOrder goes: its hostname is free, its answer is served no more. *)
LEMMA DropOrderInv ==
  ASSUME IInv, NEW t \in Tasks, DropOrder(t)
  PROVE  IInv'
<1> DEFINE h == task[t].host
<1>1. UNCHANGED <<node_vars, file, mem, failed, account, trouble>>
  BY DEF DropOrder
<1>2. /\ task[t].pc = "drop" /\ ordering' = ordering \ {h} /\ challenges' = challenges \ {t}
      /\ task' \in [Tasks -> Task] /\ task'[t].pc = "idle"
      /\ \A u \in Tasks \ {t} : task'[u] = task[u]
  BY Types, TaskSet, Zenon DEF DropOrder, IInv
<1>3. TypeOK'
  <2>1. ordering' \subseteq Hosts /\ challenges' \subseteq Tasks
    BY <1>2 DEF IInv, TypeOK
  <2> QED BY <1>1, <1>2, <2>1, Zenon DEF IInv, TypeOK, Task, node_vars
<1>4. \A u \in Tasks : Ordering(u)' <=> Ordering(u) /\ u # t
  BY <1>2 DEF Ordering, OrderPcs
<1>5. \A u \in Tasks \ {t} : Ordering(u) => task[u].host # h
  BY <1>2 DEF IInv, OneOrder, Ordering, OrderPcs
<1>6. OneOrder'
  BY <1>2, <1>4, Zenon DEF OneOrder, IInv
<1>7. Marked'
  BY <1>2, <1>4, <1>5 DEF Marked, IInv
<1>8. Challenged'
  BY <1>2, <1>4 DEF Challenged, IInv, TypeOK
<1>9. InOrder' /\ NeverServesOlder'
  BY <1>1, <1>2, CertsAlone
<1>10. OneMaker' /\ Accounts'
  BY <1>1, <1>2, AccountAlone DEF Makes
<1> QED BY <1>1, <1>3, <1>6, <1>7, <1>8, <1>9, <1>10, Zenon
        DEF IInv, CaLoads, CaKeyKept, node_vars
-----------------------------------------------------------------------------
(* The steps of an order. Each goes on with its hostname marked; these keep  *)
(* the account and bring no certificate.                                     *)
LEMMA PlainInv ==
  ASSUME IInv, NEW t \in Tasks, HaveAccount(t) \/ PlaceOrder(t)
  PROVE  IInv'
<1>1. UNCHANGED <<node_vars, file, mem, ordering, failed, account, trouble>>
  BY DEF HaveAccount, PlaceOrder, acme_vars
<1>2. /\ task[t].pc \in {"account", "place"} /\ task'[t].pc \in {"place", "ready"}
      /\ task' \in [Tasks -> Task] /\ task'[t].host = task[t].host
      /\ \A u \in Tasks \ {t} : task'[u] = task[u]
  BY ToEffect, Zenon DEF HaveAccount, PlaceOrder, IInv, OrderPcs
<1>3. /\ challenges' \in {challenges, challenges \cup {t}}
      /\ task'[t].pc = "ready" => t \in challenges'
  <2>1. CASE HaveAccount(t)
    <3>1. task'[t].pc = "place" /\ challenges' = challenges
      BY <2>1, ToEffect, Zenon DEF HaveAccount, IInv, OrderPcs, acme_vars
    <3> QED BY <3>1
  <2>2. CASE PlaceOrder(t)
    BY <2>2 DEF PlaceOrder
  <2> QED BY <2>1, <2>2
<1>4. TypeOK'
  <2>1. challenges' \subseteq Tasks
    BY <1>3 DEF IInv, TypeOK
  <2> QED BY <1>1, <1>2, <2>1, Zenon DEF IInv, TypeOK, Task, node_vars
<1>5. OneOrder' /\ Marked' /\ Challenged'
  BY <1>1, <1>2, <1>3, GoesOn DEF Ordering, OrderPcs
<1>6. InOrder' /\ NeverServesOlder'
  BY <1>1, <1>2, CertsAlone
<1>7. OneMaker' /\ Accounts'
  BY <1>1, <1>2, AccountAlone DEF Makes
<1> QED BY <1>1, <1>4, <1>5, <1>6, <1>7, Zenon DEF IInv, CaLoads, CaKeyKept, node_vars

(* The calls that make the account: one at a time, counted as one or lost. *)
LEMMA AccountInv ==
  ASSUME IInv, NEW t \in Tasks,
         InitAccount(t) \/ MakeAccount(t) \/ KeepAccount(t) \/ OrderFails(t)
  PROVE  IInv'
<1>1. UNCHANGED <<node_vars, file, mem, ordering, challenges>>
  BY DEF InitAccount, MakeAccount, KeepAccount, OrderFails, acme_vars
<1>2. /\ Ordering(t) /\ task'[t].pc \in {"place", "make", "keep", "drop"}
      /\ task' \in [Tasks -> Task] /\ task'[t].host = task[t].host
      /\ \A u \in Tasks \ {t} : task'[u] = task[u]
  <2>1. CASE InitAccount(t)
    BY <2>1, ToEffect, Zenon DEF InitAccount, IInv, Ordering, OrderPcs
  <2>2. CASE MakeAccount(t)
    BY <2>2, ToEffect, Zenon DEF MakeAccount, IInv, Ordering, OrderPcs
  <2>3. CASE KeepAccount(t)
    BY <2>3, ToEffect, Zenon DEF KeepAccount, IInv, Ordering, OrderPcs
  <2>4. CASE OrderFails(t)
    BY <2>4, ToEffect, Zenon DEF OrderFails, IInv, Ordering, OrderPcs
  <2> QED BY <2>1, <2>2, <2>3, <2>4
<1>3. OneOrder' /\ Marked' /\ Challenged'
  BY <1>1, <1>2, GoesOn DEF OrderPcs
<1>4. InOrder' /\ NeverServesOlder'
  BY <1>1, <1>2, CertsAlone
<1>5. failed' \subseteq Hosts /\ trouble' \in 0 .. MaxTrouble
  BY MaxTroubleAssumption
     DEF InitAccount, MakeAccount, KeepAccount, OrderFails, acme_vars, Trouble, IInv, TypeOK
<1>6. t # NoTask /\ account \in AccountState
  BY TasksAssumption DEF IInv, TypeOK, AccountState
<1>7. \A u \in Tasks : task[u].pc = "keep" => account.by = u
  BY DEF IInv, OneMaker, Makes
<1>8. account' \in AccountState /\ OneMaker' /\ Accounts'
  <2>1. CASE InitAccount(t) /\ account.file
    <3>1. task[t].pc = "account" /\ task'[t].pc = "place"
      BY <2>1, ToEffect, Zenon DEF InitAccount, IInv, OrderPcs
    <3>2. account' = [account EXCEPT !.cell = TRUE]
      BY <2>1 DEF InitAccount
    <3>3. account' \in AccountState
      BY <1>6, <3>2, Zenon DEF AccountState
    <3>4. /\ account'.cell = TRUE /\ account'.file = account.file /\ account'.by = account.by
          /\ account'.made = account.made /\ account'.lost = account.lost
      BY <1>6, <3>2 DEF AccountState
    <3>5. OneMaker'
      BY <1>2, <2>1, <3>1, <3>4 DEF IInv, OneMaker, Makes
    <3>6. HasAccount /\ HasAccount'
      BY <2>1, <3>4 DEF HasAccount
    <3> QED BY <3>3, <3>4, <3>5, <3>6 DEF IInv, Accounts
  <2>2. CASE InitAccount(t) /\ ~account.file
    <3>1. task[t].pc = "account" /\ task'[t].pc = "make" /\ account.by = NoTask
      BY <2>2, ToEffect, Zenon DEF InitAccount, IInv, OrderPcs
    <3>2. account' = [account EXCEPT !.by = t]
      BY <2>2 DEF InitAccount
    <3>3. account' \in AccountState
      BY <1>6, <3>2, Zenon DEF AccountState
    <3>4. /\ account'.cell = account.cell /\ account'.file = account.file /\ account'.by = t
          /\ account'.made = account.made /\ account'.lost = account.lost
      BY <1>6, <3>2 DEF AccountState
    <3>5. OneMaker'
      BY <1>2, <1>6, <2>2, <3>1, <3>4, TasksAssumption DEF IInv, OneMaker, Makes
    <3>6. ~HasAccount /\ ~HasAccount'
      BY <1>2, <1>7, <2>2, <3>1, <3>4, TasksAssumption DEF HasAccount
    <3> QED BY <3>3, <3>4, <3>5, <3>6 DEF IInv, Accounts
  <2>3. CASE MakeAccount(t)
    <3>1. task[t].pc = "make" /\ task'[t].pc = "keep"
      BY <2>3, ToEffect, Zenon DEF MakeAccount, IInv, OrderPcs
    <3>2. account' = [account EXCEPT !.made = @ + 1]
      BY <2>3 DEF MakeAccount
    <3>3. account' \in AccountState
      BY <1>6, <3>2 DEF AccountState
    <3>4. /\ account'.cell = account.cell /\ account'.file = account.file
          /\ account'.by = account.by /\ account.by = t
          /\ account'.made = account.made + 1 /\ account'.lost = account.lost
      BY <1>6, <3>1, <3>2 DEF AccountState, IInv, OneMaker, Makes
    <3>5. OneMaker'
      BY <1>2, <3>1, <3>4 DEF IInv, OneMaker, Makes
    <3>6. ~HasAccount /\ HasAccount'
      BY <1>6, <1>7, <3>1, <3>4 DEF HasAccount, IInv, OneMaker
    <3> QED BY <3>3, <3>4, <3>5, <3>6 DEF IInv, Accounts
  <2>4. CASE KeepAccount(t)
    <3>1. task[t].pc = "keep" /\ task'[t].pc = "place"
      BY <2>4, ToEffect, Zenon DEF KeepAccount, IInv, OrderPcs
    <3>2. account' = [account EXCEPT !.file = TRUE, !.cell = TRUE, !.by = NoTask]
      BY <2>4 DEF KeepAccount
    <3>3. account' \in AccountState
      BY <1>6, <3>2, Zenon DEF AccountState
    <3>4. /\ account'.cell = TRUE /\ account'.file = TRUE /\ account'.by = NoTask /\ account.by = t
          /\ account'.made = account.made /\ account'.lost = account.lost
      BY <1>6, <1>7, <3>1, <3>2 DEF AccountState
    <3>5. OneMaker'
      BY <1>2, <3>1, <3>4, TasksAssumption DEF IInv, OneMaker, Makes
    <3>6. HasAccount /\ HasAccount'
      BY <3>1, <3>4 DEF HasAccount
    <3> QED BY <3>3, <3>4, <3>5, <3>6 DEF IInv, Accounts
  <2>5. CASE OrderFails(t) /\ account.by # t
    <3>1. task'[t].pc = "drop" /\ account' = account
      BY <2>5, ToEffect, Zenon DEF OrderFails, IInv, OrderPcs
    <3>2. ~Makes(t)
      BY <2>5 DEF IInv, OneMaker
    <3> QED BY <1>2, <1>6, <3>1, <3>2, AccountAlone
  <2>6. CASE OrderFails(t) /\ account.by = t
    <3>1. task'[t].pc = "drop"
      BY <2>6, ToEffect, Zenon DEF OrderFails, IInv, OrderPcs
    <3> DEFINE k == account.lost + (IF task[t].pc = "keep" THEN 1 ELSE 0)
    <3>2. account' = [account EXCEPT !.by = NoTask, !.lost = k]
      BY <2>6 DEF OrderFails
    <3>3. account' \in AccountState
      <4>1. k \in Nat
        BY <1>6 DEF AccountState
      <4> HIDE DEF k
      <4> QED BY <1>6, <3>2, <4>1, Zenon DEF AccountState
    <3>4. /\ account'.cell = account.cell /\ account'.file = account.file
          /\ account'.by = NoTask /\ account'.made = account.made
          /\ account'.lost = account.lost + (IF task[t].pc = "keep" THEN 1 ELSE 0)
      BY <1>6, <3>2 DEF AccountState
    <3>5. OneMaker'
      BY <1>2, <2>6, <3>1, <3>4, TasksAssumption DEF IInv, OneMaker, Makes
    <3>6. ~account.file
      BY <1>6, <2>6 DEF IInv, OneMaker
    <3>7. ~HasAccount' /\ (HasAccount <=> task[t].pc = "keep")
      BY <1>2, <1>7, <2>6, <3>1, <3>4, <3>6 DEF HasAccount
    <3>8. account.lost \in Nat
      BY <1>6 DEF AccountState
    <3> QED BY <3>3, <3>4, <3>5, <3>7, <3>8 DEF IInv, Accounts
  <2> QED BY <2>1, <2>2, <2>3, <2>4, <2>5, <2>6
<1>9. TypeOK'
  BY <1>1, <1>2, <1>5, <1>8, Zenon DEF IInv, TypeOK, Task, AccountState, node_vars
<1> QED BY <1>1, <1>3, <1>4, <1>8, <1>9, Zenon DEF IInv, CaLoads, CaKeyKept, node_vars

(* The CA issues: the certificate follows the one on disk. *)
LEMMA IssueInv ==
  ASSUME IInv, NEW t \in Tasks, Issue(t)
  PROVE  IInv'
<1> DEFINE c == NextAfter(file[task[t].host])
<1>1. UNCHANGED <<node_vars, acme_vars, account, trouble>>
  BY DEF Issue
<1>2. task[t].pc \in {"ready", "place"} /\ task[t].host \in Hosts /\ c \in Cert
  BY Renewed DEF Issue, IInv, TypeOK
<1>3. /\ task' \in [Tasks -> Task] /\ task'[t].host = task[t].host
      /\ task'[t].pc = "store" /\ task'[t].cert = c
      /\ \A u \in Tasks \ {t} : task'[u] = task[u]
  <2>1. task' = [task EXCEPT ![t] = [task[t] EXCEPT !.pc = "store", !.cert = c]]
    BY Zenon DEF Issue, IInv, TypeOK
  <2> HIDE DEF c
  <2> QED BY <1>2, <2>1, Zenon DEF IInv, TypeOK, Task, OrderPcs
<1> HIDE DEF c
<1>4. TypeOK'
  BY <1>1, <1>3, Zenon DEF IInv, TypeOK, Task, node_vars, acme_vars
<1>5. OneOrder' /\ Marked' /\ Challenged'
  BY <1>1, <1>2, <1>3, GoesOn DEF Ordering, OrderPcs, acme_vars
<1>6. InOrder'
  BY <1>1, <1>3 DEF IInv, InOrder, c, acme_vars
<1>7. NeverServesOlder'
  BY <1>1 DEF IInv, NeverServesOlder, acme_vars
<1>8. OneMaker' /\ Accounts'
  BY <1>1, <1>2, <1>3, AccountAlone DEF Makes
<1> QED BY <1>1, <1>4, <1>5, <1>6, <1>7, <1>8, Zenon DEF IInv, CaLoads, CaKeyKept, node_vars

(* The certificate comes to the disk, from where it is read and served. *)
LEMMA StoreInv ==
  ASSUME IInv, NEW t \in Tasks, Store(t)
  PROVE  IInv'
<1> DEFINE h == task[t].host
<1>1. UNCHANGED <<node_vars, mem, ordering, failed, challenges, account, trouble>>
  BY DEF Store
<1>2. /\ task[t].pc = "store" /\ h \in Hosts /\ task[t].cert \in Cert
      /\ file[h] \in Cert /\ task[t].cert = NextAfter(file[h])
  BY DEF Store, IInv, TypeOK, InOrder
<1>3. /\ task' \in [Tasks -> Task] /\ task'[t].host = h /\ task'[t].pc = "read"
      /\ \A u \in Tasks \ {t} : task'[u] = task[u]
  BY ToEffect, Zenon DEF Store, IInv, OrderPcs
<1>4. /\ file' \in [Hosts -> Cert] /\ file'[h] = NextAfter(file[h])
      /\ \A g \in Hosts \ {h} : file'[g] = file[g]
  BY <1>2 DEF Store, IInv, TypeOK
<1>5. TypeOK'
  BY <1>1, <1>3, <1>4, Zenon DEF IInv, TypeOK, Task, node_vars
<1>6. OneOrder' /\ Marked' /\ Challenged'
  BY <1>1, <1>2, <1>3, GoesOn DEF Ordering, OrderPcs
<1>7. InOrder'
  <2>1. ASSUME NEW u \in Tasks, task'[u].pc \in {"store", "serve"}
        PROVE  task'[u] = task[u] /\ task[u].host # h
    BY <1>2, <1>3, <2>1 DEF IInv, OneOrder, Ordering, OrderPcs
  <2>2. ASSUME NEW u \in Tasks, task'[u].pc \in {"store", "serve"}
        PROVE  file'[task[u].host] = file[task[u].host] /\ task'[u] = task[u]
    BY <1>4, <2>1, <2>2 DEF IInv, TypeOK
  <2> QED BY <2>2 DEF IInv, InOrder
<1>8. NeverServesOlder'
  <2> SUFFICES ASSUME NEW g \in Hosts
               PROVE  mem[g].n <= file'[g].n /\ (mem[g].fresh => file'[g].fresh)
    BY <1>1 DEF NeverServesOlder
  <2>1. CASE g = h
    <3>1. file'[g].fresh = TRUE /\ file[g].n <= file'[g].n /\ file'[g] \in Cert
      BY <1>2, <1>4, <2>1, Renewed, Zenon
    <3>2. mem[g].n <= file[g].n /\ mem[g] \in Cert /\ file[g] \in Cert
      BY DEF IInv, NeverServesOlder, TypeOK
    <3>3. mem[g].n <= file'[g].n
      BY <3>1, <3>2, MaxCertsAssumption DEF Cert
    <3> QED BY <3>1, <3>3
  <2>2. CASE g # h
    BY <1>4, <2>2 DEF IInv, NeverServesOlder
  <2> QED BY <2>1, <2>2
<1>9. OneMaker' /\ Accounts'
  BY <1>1, <1>2, <1>3, AccountAlone DEF Makes
<1> QED BY <1>1, <1>5, <1>6, <1>7, <1>8, <1>9, Zenon DEF IInv, CaLoads, CaKeyKept, node_vars

(* The certificate just stored is read back, to be served. *)
LEMMA ReadBackInv ==
  ASSUME IInv, NEW t \in Tasks, ReadBack(t)
  PROVE  IInv'
<1> DEFINE h == task[t].host
<1>1. UNCHANGED <<node_vars, file, mem, ordering, challenges, account, trouble>>
  BY DEF ReadBack
<1>2. task[t].pc = "read" /\ h \in Hosts /\ file[h] \in Cert
  BY DEF ReadBack, IInv, TypeOK
<1>3. /\ task' \in [Tasks -> Task] /\ task'[t].host = h
      /\ task'[t].pc = "serve" /\ task'[t].cert = file[h]
      /\ \A u \in Tasks \ {t} : task'[u] = task[u]
  <2>1. task' = [task EXCEPT ![t] = [task[t] EXCEPT !.pc = "serve", !.cert = file[h]]]
    BY Zenon DEF ReadBack, IInv, TypeOK
  <2> QED BY <1>2, <2>1, Zenon DEF IInv, TypeOK, Task, OrderPcs
<1>4. TypeOK'
  <2>1. failed' \subseteq Hosts
    BY DEF ReadBack, IInv, TypeOK
  <2> QED BY <1>1, <1>3, <2>1, Zenon DEF IInv, TypeOK, Task, node_vars
<1>5. OneOrder' /\ Marked' /\ Challenged'
  BY <1>1, <1>2, <1>3, GoesOn DEF Ordering, OrderPcs
<1>6. InOrder'
  BY <1>1, <1>3 DEF IInv, InOrder
<1>7. NeverServesOlder'
  BY <1>1 DEF IInv, NeverServesOlder
<1>8. OneMaker' /\ Accounts'
  BY <1>1, <1>2, <1>3, AccountAlone DEF Makes
<1> QED BY <1>1, <1>4, <1>5, <1>6, <1>7, <1>8, Zenon DEF IInv, CaLoads, CaKeyKept, node_vars

(* The new certificate is served. *)
LEMMA ServeInv ==
  ASSUME IInv, NEW t \in Tasks, Serve(t)
  PROVE  IInv'
<1> DEFINE h == task[t].host
<1>1. UNCHANGED <<node_vars, file, ordering, failed, challenges, account, trouble>>
  BY DEF Serve
<1>2. /\ task[t].pc = "serve" /\ h \in Hosts /\ file[h] \in Cert
      /\ task[t].cert = file[h] /\ mem' = [mem EXCEPT ![h] = file[h]]
  BY Zenon DEF Serve, IInv, TypeOK, InOrder
<1>3. /\ task' \in [Tasks -> Task] /\ task'[t].host = h /\ task'[t].pc = "drop"
      /\ \A u \in Tasks \ {t} : task'[u] = task[u]
  BY ToEffect, Zenon DEF Serve, IInv, OrderPcs
<1>4. /\ mem' \in [Hosts -> Cert] /\ mem'[h] = file[h]
      /\ \A g \in Hosts \ {h} : mem'[g] = mem[g]
  BY <1>2 DEF IInv, TypeOK
<1>5. TypeOK'
  BY <1>1, <1>3, <1>4, Zenon DEF IInv, TypeOK, Task, node_vars
<1>6. OneOrder' /\ Marked' /\ Challenged'
  BY <1>1, <1>2, <1>3, GoesOn DEF Ordering, OrderPcs
<1>7. InOrder'
  BY <1>1, <1>3 DEF IInv, InOrder
<1>8. NeverServesOlder'
  <2>1. file[h].n <= file[h].n
    BY <1>2 DEF Cert
  <2> QED BY <1>1, <1>2, <1>4, <2>1 DEF IInv, NeverServesOlder
<1>9. OneMaker' /\ Accounts'
  BY <1>1, <1>2, <1>3, AccountAlone DEF Makes
<1> QED BY <1>1, <1>5, <1>6, <1>7, <1>8, <1>9, Zenon DEF IInv, CaLoads, CaKeyKept, node_vars
-----------------------------------------------------------------------------
(* No call of ensure takes a step: what is said of the orders and of the     *)
(* account stays so.                                                         *)
LEMMA TasksAlone ==
  ASSUME IInv, UNCHANGED <<ordering, challenges, account, task>>
  PROVE  OneOrder' /\ Marked' /\ Challenged' /\ OneMaker' /\ Accounts'
<1>1. OneOrder' /\ Marked' /\ Challenged'
  BY Zenon DEF IInv, OneOrder, Marked, Challenged, Ordering
<1> QED BY <1>1, Zenon DEF IInv, OneMaker, Accounts, Makes, HasAccount

(* load_or_create: a certificate is made for the key that is there. *)
LEMMA BootInv ==
  ASSUME IInv, Boot
  PROVE  IInv'
<1>1. UNCHANGED <<file, ordering, failed, challenges, account, task, trouble>>
  BY DEF Boot, Start, LoadKey, LoadCert, acme_vars
<1>2. mem' = mem \/ mem' = file
  BY DEF Boot, Start, LoadKey, LoadCert, LoadCertificates, acme_vars
<1>3. /\ caKey \in 0 .. MaxTrouble + 1 /\ caCert \in 0 .. MaxTrouble + 1
      /\ trouble \in 0 .. MaxTrouble /\ (caCert # 0 => caCert = caKey)
      /\ node = "cert" => caKey # 0
  BY DEF IInv, TypeOK, CaLoads, CaKeyKept
<1>4. /\ caKey' \in 0 .. MaxTrouble + 1 /\ caCert' \in 0 .. MaxTrouble + 1
      /\ node' \in {"down", "key", "cert", "up"} /\ CaLoads'
  <2>1. CASE Start
    BY <1>3, <2>1 DEF Start, CaLoads, CaKeyKept
  <2>2. CASE LoadKey
    BY <1>3, <2>2, MaxTroubleAssumption DEF LoadKey, CaLoads, CaKeyKept
  <2>3. CASE LoadCert
    BY <1>3, <2>3 DEF LoadCert, CaLoads, CaKeyKept
  <2> QED BY <2>1, <2>2, <2>3 DEF Boot
<1>5. TypeOK'
  BY <1>1, <1>2, <1>4, Zenon DEF IInv, TypeOK
<1>6. InOrder'
  BY <1>1, Zenon DEF IInv, InOrder
<1>7. NeverServesOlder'
  <2>1. \A h \in Hosts : file[h].n <= file[h].n
    BY DEF IInv, TypeOK, Cert
  <2> QED BY <1>1, <1>2, <2>1, Zenon DEF IInv, NeverServesOlder
<1> QED BY <1>1, <1>4, <1>5, <1>6, <1>7, TasksAlone DEF IInv

(* The agent stops wherever it is: orders end, files stay, and an account    *)
(* that was not kept yet is lost.                                            *)
LEMMA StopInv ==
  ASSUME IInv, Stop
  PROVE  IInv'
<1> DEFINE k == IF account.by = NoTask THEN account.lost
                ELSE account.lost + (IF task[account.by].pc = "keep" THEN 1 ELSE 0)
<1>1. /\ node' = "down" /\ mem' = [h \in Hosts |-> None]
      /\ ordering' = {} /\ failed' = {} /\ challenges' = {}
      /\ task' = [t \in Tasks |-> Idle] /\ UNCHANGED <<caKey, caCert, file>>
  BY DEF Stop
<1>2. account \in AccountState /\ k \in Nat
  BY DEF IInv, TypeOK, AccountState
<1>3. account' = [account EXCEPT !.cell = FALSE, !.by = NoTask, !.lost = k]
  BY Zenon DEF Stop
<1>4. /\ account' \in AccountState /\ account'.cell = FALSE /\ account'.file = account.file
      /\ account'.by = NoTask /\ account'.made = account.made /\ account'.lost = k
  <2> HIDE DEF k
  <2> QED BY <1>2, <1>3, Zenon DEF AccountState
<1>5. trouble' \in 0 .. MaxTrouble
  BY MaxTroubleAssumption DEF Stop, Trouble, IInv, TypeOK
<1>6. task' \in [Tasks -> Task] /\ \A t \in Tasks : task'[t].pc = "idle"
  BY <1>1, Types, Zenon
<1>7. mem' \in [Hosts -> Cert] /\ \A h \in Hosts : mem'[h] = None
  BY <1>1, Types, Zenon
<1>8. TypeOK'
  BY <1>1, <1>4, <1>5, <1>6, <1>7, Zenon DEF IInv, TypeOK, Task, AccountState
<1>9. OneOrder' /\ Marked' /\ Challenged' /\ InOrder'
  BY <1>1, <1>6 DEF OneOrder, Marked, Challenged, InOrder, Ordering, OrderPcs
<1>10. NeverServesOlder'
  <2>1. \A h \in Hosts : file[h].n \in Nat
    BY DEF IInv, TypeOK, Cert
  <2> QED BY <1>1, <1>7, <2>1 DEF NeverServesOlder, None
<1>11. OneMaker'
  BY <1>4, <1>6, TasksAssumption DEF OneMaker, Makes
<1>12. Accounts'
  <2>1. HasAccount' <=> account.file
    BY <1>4, <1>6 DEF HasAccount
  <2>2. account.made = k + (IF account.file THEN 1 ELSE 0)
    <3>1. \A t \in Tasks : task[t].pc \in {"make", "keep"} <=> account.by = t
      BY DEF IInv, OneMaker, Makes
    <3>2. account.file => account.by = NoTask
      BY DEF IInv, OneMaker
    <3>3. account.by \in Tasks \cup {NoTask} /\ account.lost \in Nat
      BY <1>2 DEF AccountState
    <3>4. CASE account.by = NoTask
      <4>1. HasAccount <=> account.file
        BY <3>1, <3>4, TasksAssumption DEF HasAccount
      <4> QED BY <3>3, <3>4, <4>1 DEF IInv, Accounts
    <3>5. CASE account.by # NoTask
      <4>1. HasAccount <=> task[account.by].pc = "keep"
        BY <3>1, <3>2, <3>3, <3>5 DEF HasAccount
      <4> QED BY <3>2, <3>3, <3>5, <4>1 DEF IInv, Accounts
    <3> QED BY <3>4, <3>5
  <2> HIDE DEF k
  <2> QED BY <1>2, <1>4, <2>1, <2>2 DEF Accounts
<1>13. CaLoads'
  BY <1>1 DEF IInv, CaLoads, CaKeyKept
<1> QED BY <1>8, <1>9, <1>10, <1>11, <1>12, <1>13 DEF IInv

(* Time: a wait ends, a certificate grows old on disk and in memory alike,   *)
(* while no order for it is under way.                                       *)
LEMMA TimeInv ==
  ASSUME IInv, NEW h \in Hosts, RetryTimeComes(h) \/ TimePasses(h)
  PROVE  IInv'
<1>1. UNCHANGED <<node_vars, ordering, challenges, account, task, trouble>>
  BY DEF RetryTimeComes, TimePasses
<1>2. OneOrder' /\ Marked' /\ Challenged' /\ OneMaker' /\ Accounts'
  BY <1>1, TasksAlone
<1>3. CaLoads'
  BY <1>1 DEF IInv, CaLoads, CaKeyKept, node_vars
<1>4. CASE RetryTimeComes(h)
  <2>1. failed' \subseteq Hosts /\ UNCHANGED <<file, mem>>
    BY <1>4 DEF RetryTimeComes, IInv, TypeOK
  <2>2. TypeOK'
    BY <1>1, <2>1, Zenon DEF IInv, TypeOK, node_vars
  <2>3. InOrder' /\ NeverServesOlder'
    BY <1>1, <2>1, Zenon DEF IInv, InOrder, NeverServesOlder
  <2> QED BY <1>2, <1>3, <2>2, <2>3 DEF IInv
<1>5. CASE TimePasses(h)
  <2>1. /\ failed' = failed
        /\ file' = [file EXCEPT ![h] = [file[h] EXCEPT !.fresh = FALSE]]
        /\ mem' = [mem EXCEPT ![h] = [mem[h] EXCEPT !.fresh = FALSE]]
        /\ file \in [Hosts -> Cert] /\ mem \in [Hosts -> Cert]
    BY <1>5 DEF TimePasses, IInv, TypeOK
  <2>2. /\ file' \in [Hosts -> Cert] /\ file'[h].n = file[h].n
        /\ \A g \in Hosts \ {h} : file'[g] = file[g]
    BY <2>1, Aged
  <2>3. /\ mem' \in [Hosts -> Cert] /\ mem'[h].n = mem[h].n /\ mem'[h].fresh = FALSE
        /\ \A g \in Hosts \ {h} : mem'[g] = mem[g]
    BY <2>1, Aged
  <2>4. TypeOK'
    BY <1>1, <2>1, <2>2, <2>3, Zenon DEF IInv, TypeOK, node_vars
  <2>5. InOrder'
    <3>1. \A t \in Tasks : task[t].pc \in {"store", "serve"} => task[t].host # h
      BY <1>5 DEF TimePasses
    <3> QED BY <1>1, <2>2, <3>1 DEF IInv, TypeOK, InOrder
  <2>6. NeverServesOlder'
    BY <2>2, <2>3 DEF IInv, NeverServesOlder
  <2> QED BY <1>2, <1>3, <2>4, <2>5, <2>6 DEF IInv
<1> QED BY <1>4, <1>5
-----------------------------------------------------------------------------
(* A fresh Node has no account, no order and no certificate. *)
LEMMA InitInv == Init => IInv
<1> SUFFICES ASSUME Init PROVE IInv
  OBVIOUS
<1>1. \A t \in Tasks : task[t] = Idle /\ task[t].pc = "idle"
  BY Types, Zenon DEF Init
<1>2. account \in AccountState
  BY DEF Init, AccountState
<1>3. TypeOK
  <2>1. task \in [Tasks -> Task] /\ file \in [Hosts -> Cert] /\ mem \in [Hosts -> Cert]
    BY Types, Zenon DEF Init
  <2>2. /\ caKey \in 0 .. MaxTrouble + 1 /\ caCert \in 0 .. MaxTrouble + 1
        /\ trouble \in 0 .. MaxTrouble
    BY MaxTroubleAssumption DEF Init
  <2> QED BY <1>2, <2>1, <2>2, Zenon DEF Init, TypeOK, Task, AccountState
<1>4. OneOrder /\ Marked /\ Challenged /\ InOrder
  BY <1>1 DEF Init, OneOrder, Marked, Challenged, InOrder, Ordering, OrderPcs
<1>5. NeverServesOlder
  BY DEF Init, NeverServesOlder, None
<1>6. OneMaker /\ Accounts
  BY <1>1, TasksAssumption DEF Init, OneMaker, Accounts, Makes, HasAccount
<1>7. CaLoads
  BY DEF Init, CaLoads, CaKeyKept
<1> QED BY <1>3, <1>4, <1>5, <1>6, <1>7 DEF IInv

(* What the four safety properties rest on holds at every step of the agent, *)
(* its orders and the time that passes.                                      *)
THEOREM Inductive == Spec => []IInv
<1>1. IInv /\ [Next]_vars => IInv'
  <2> SUFFICES ASSUME IInv, [Next]_vars PROVE IInv'
    OBVIOUS
  <2>1. CASE Boot \/ Stop
    BY <2>1, BootInv, StopInv
  <2>2. ASSUME NEW t \in Tasks, OrderGoesOn(t) PROVE IInv'
    BY <2>2, LooksInv, StartOrderInv, PlainInv, AccountInv, IssueInv, StoreInv, ReadBackInv,
       ServeInv, DropOrderInv DEF OrderGoesOn
  <2>3. ASSUME NEW t \in Tasks, NEW h \in Hosts, GetCertificate(t, h) PROVE IInv'
    BY <2>3, LooksInv
  <2>4. ASSUME NEW h \in Hosts, RetryTimeComes(h) \/ TimePasses(h) PROVE IInv'
    BY <2>4, TimeInv
  <2>5. CASE UNCHANGED vars
    <3>1. UNCHANGED <<node, caKey, caCert, file, mem, ordering, failed, challenges, account, task,
                      trouble>>
      BY <2>5 DEF vars, node_vars, acme_vars
    <3>2. TypeOK' /\ InOrder' /\ NeverServesOlder' /\ CaLoads'
      BY <3>1, Zenon DEF IInv, TypeOK, InOrder, NeverServesOlder, CaLoads, CaKeyKept
    <3> QED BY <3>1, <3>2, TasksAlone DEF IInv
  <2> QED BY <2>1, <2>2, <2>3, <2>4, <2>5 DEF Next
<1> QED BY <1>1, InitInv, PTL DEF Spec

(* ensure and PendingOrder keep the orders of a hostname apart, and the      *)
(* challenge each has to answer.                                             *)
THEOREM OrdersApart == Spec => []OrdersKeepApart
<1>1. IInv => OrdersKeepApart
  <2> SUFFICES ASSUME IInv PROVE OrdersKeepApart
    OBVIOUS
  <2>1. ordering = {task[t].host : t \in {u \in Tasks : Ordering(u)}}
    BY DEF IInv, TypeOK, Marked
  <2>2. challenges \subseteq {t \in Tasks : Ordering(t)}
    BY DEF IInv, TypeOK, Challenged
  <2> QED BY <2>1, <2>2 DEF IInv, OrdersKeepApart, OneOrder, Challenged
<1> QED BY <1>1, Inductive, PTL

(* A certificate is served once it is on disk: no restart brings back an     *)
(* earlier one.                                                              *)
THEOREM ServesNewest == Spec => []NeverServesOlder
<1>1. IInv => NeverServesOlder
  BY DEF IInv
<1> QED BY <1>1, Inductive, PTL

(* The cell of Acme::account lets one call make the account.                 *)
THEOREM OneAccount == Spec => []AccountMadeOnce
<1>1. IInv => AccountMadeOnce
  <2> SUFFICES ASSUME IInv PROVE AccountMadeOnce
    OBVIOUS
  <2>1. account.lost \in Nat
    BY DEF IInv, TypeOK
  <2> QED BY <2>1 DEF IInv, Accounts, AccountMadeOnce
<1> QED BY <1>1, Inductive, PTL

(* load_or_create writes the key first: no stop leaves a certificate without *)
(* its key.                                                                  *)
THEOREM CaKeySafe == Spec => []CaKeyKept
<1>1. IInv => CaKeyKept
  BY DEF IInv, CaLoads
<1> QED BY <1>1, Inductive, PTL
=============================================================================
