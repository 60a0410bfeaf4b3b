---------------------------- MODULE Certificates ----------------------------
(* The TLS edge's certificates (cirro-edge/src/acme.rs, tls.rs and their use *)
(* in agent.rs): the Node's own CA, made when the agent first starts, and    *)
(* the ACME client, whose orders run side by side, fail, are put off, and    *)
(* are cut short when the agent stops.                                       *)
(*                                                                           *)
(* A certificate is [n, fresh]: the n-th that was stored for its hostname    *)
(* (0: none; from MaxCerts on they are not told apart), and whether it lasts *)
(* more than a month.                                                        *)
EXTENDS Naturals, FiniteSets

CONSTANTS
  Hosts,      \* the Apps' public hostnames
  Tasks,      \* calls of ensure under way at once
  MaxCerts,   \* certificates of a hostname that are told apart
  MaxTrouble, \* bound on failures and stops of the agent
  Stops       \* whether the agent stops and starts again

NoTask == 0

ASSUME HostsAssumption      == Hosts # {}
ASSUME TasksAssumption      == NoTask \notin Tasks
ASSUME MaxCertsAssumption   == MaxCerts \in Nat
ASSUME MaxTroubleAssumption == MaxTrouble \in Nat

VARIABLES
  node,       \* the agent: "down", "key" or "cert" (in NodeCa's load), "up"
  caKey, caCert, \* edge-ca.key, edge-ca.pem: the key (0: no file), the key certified
  file,       \* acme-<host>.pem: the certificate in it
  mem,        \* Acme::certificates
  ordering,   \* Acme::ordering
  failed,     \* Acme::failed: the hostnames whose next try is still ahead
  challenges, \* Acme::challenges: the orders whose token is served
  account,    \* Acme::account, its file, the call that is making it, and how
              \* many accounts the CA has for the Node, lost ones apart
  task,       \* each call of ensure
  trouble     \* failures and stops so far

node_vars == <<node, caKey, caCert>>
acme_vars == <<file, mem, ordering, failed, challenges>>
vars == <<node_vars, acme_vars, account, task, trouble>>

Cert == [n : 0 .. MaxCerts, fresh : BOOLEAN]
None == [n |-> 0, fresh |-> FALSE]

OrderPcs == {"account", "make", "keep", "place", "ready", "store", "read", "serve", "drop"}
Idle == [pc |-> "idle", host |-> CHOOSE h \in Hosts : TRUE, cert |-> None]

TypeOK ==
  /\ node \in {"down", "key", "cert", "up"}
  /\ caKey \in 0 .. MaxTrouble + 1 /\ caCert \in 0 .. MaxTrouble + 1
  /\ file \in [Hosts -> Cert] /\ mem \in [Hosts -> Cert]
  /\ ordering \subseteq Hosts
  /\ failed \subseteq Hosts
  /\ challenges \subseteq Tasks
  /\ account \in [cell : BOOLEAN, file : BOOLEAN, by : Tasks \cup {NoTask},
                  made : Nat, lost : Nat]
  /\ task \in [Tasks -> [pc : {"idle", "waiting", "start"} \cup OrderPcs,
                         host : Hosts, cert : Cert]]
  /\ trouble \in 0 .. MaxTrouble

Init ==
  /\ node = "down" /\ caKey = 0 /\ caCert = 0
  /\ file = [h \in Hosts |-> None] /\ mem = [h \in Hosts |-> None]
  /\ ordering = {} /\ failed = {} /\ challenges = {}
  /\ account = [cell |-> FALSE, file |-> FALSE, by |-> NoTask, made |-> 0, lost |-> 0]
  /\ task = [t \in Tasks |-> Idle]
  /\ trouble = 0

Trouble == trouble < MaxTrouble /\ trouble' = trouble + 1
-----------------------------------------------------------------------------
(* The agent starts: NodeCa::load_or_create, the key first.  A certificate   *)
(* that has no key is refused.                                               *)
Start ==
  /\ node = "down"
  /\ node' = "key"
  /\ UNCHANGED <<caKey, caCert, acme_vars, account, task, trouble>>

(* A new key is kept in memory, and written once the certificate is there. *)
BugLoadKey ==
  /\ node = "key"
  /\ node' = "cert"
  /\ IF caKey = 0 /\ caCert = 0 THEN caCert' = trouble + 1 /\ UNCHANGED caKey
     ELSE caKey' = trouble + 1 /\ UNCHANGED caCert
  /\ UNCHANGED <<acme_vars, account, task, trouble>>

LoadKey ==
  /\ node = "key"
  /\ IF caKey # 0 THEN node' = "cert" /\ UNCHANGED caKey
     ELSE IF caCert # 0 THEN node' = "down" /\ UNCHANGED caKey
     ELSE node' = "cert" /\ caKey' = trouble + 1
  /\ UNCHANGED <<caCert, acme_vars, account, task, trouble>>

(* Acme::load reads the certificates that are stored. *)
LoadCertificates == mem' = file

(* A key without its certificate gets one. *)
LoadCert ==
  /\ node = "cert"
  /\ caCert' = IF caCert = 0 THEN caKey ELSE caCert
  /\ node' = "up"
  /\ LoadCertificates
  /\ UNCHANGED <<caKey, file, ordering, failed, challenges, account, task, trouble>>

(* The agent stops or crashes, and its memory with it. *)
Stop ==
  /\ Stops /\ node # "down" /\ Trouble
  /\ node' = "down"
  /\ mem' = [h \in Hosts |-> None]
  /\ ordering' = {} /\ failed' = {} /\ challenges' = {}
  /\ account' = [account EXCEPT !.cell = FALSE, !.by = NoTask,
                                !.lost = IF account.by = NoTask THEN @
                                         ELSE @ + (IF task[account.by].pc = "keep" THEN 1 ELSE 0)]
  /\ task' = [t \in Tasks |-> Idle]
  /\ UNCHANGED <<caKey, caCert, file>>
-----------------------------------------------------------------------------
To(t, pc) == task' = [task EXCEPT ![t].pc = pc]

(* get_certificate, for a host that got its App and on every tick of the     *)
(* renewer: ensure looks at the certificate, then at the last failure, then  *)
(* starts an order, each under a lock of its own.                            *)
GetCertificate(t, h) ==
  /\ node = "up" /\ task[t].pc = "idle"
  /\ ~mem[h].fresh
  /\ task' = [task EXCEPT ![t] = [Idle EXCEPT !.pc = "waiting", !.host = h]]
  /\ UNCHANGED <<node_vars, acme_vars, account, trouble>>

SeeWaiting(t) ==
  /\ task[t].pc = "waiting"
  /\ To(t, IF task[t].host \in failed THEN "idle" ELSE "start")
  /\ UNCHANGED <<node_vars, acme_vars, account, trouble>>

(* The order under way is not looked at. *)
BugStartOrder(t) ==
  /\ task[t].pc = "start"
  /\ ordering' = ordering \cup {task[t].host}
  /\ To(t, "account")
  /\ UNCHANGED <<node_vars, file, mem, failed, challenges, account, trouble>>

StartOrder(t) ==
  LET h == task[t].host IN
  /\ task[t].pc = "start"
  /\ To(t, IF h \in ordering THEN "idle" ELSE "account")
  /\ ordering' = ordering \cup {h}
  /\ UNCHANGED <<node_vars, file, mem, failed, challenges, account, trouble>>

(* account: the cell is filled by one call while the others wait for it.     *)
HaveAccount(t) ==
  /\ task[t].pc = "account" /\ account.cell
  /\ To(t, "place")
  /\ UNCHANGED <<node_vars, acme_vars, account, trouble>>

(* Every call makes the account it does not find. *)
BugInitAccount(t) ==
  /\ task[t].pc = "account" /\ ~account.cell
  /\ IF account.file THEN account' = [account EXCEPT !.cell = TRUE] /\ To(t, "place")
     ELSE UNCHANGED account /\ To(t, "make")
  /\ UNCHANGED <<node_vars, acme_vars, trouble>>

InitAccount(t) ==
  /\ task[t].pc = "account" /\ ~account.cell /\ account.by = NoTask
  /\ IF account.file THEN account' = [account EXCEPT !.cell = TRUE] /\ To(t, "place")
     ELSE account' = [account EXCEPT !.by = t] /\ To(t, "make")
  /\ UNCHANGED <<node_vars, acme_vars, trouble>>

MakeAccount(t) ==
  /\ task[t].pc = "make"
  /\ account' = [account EXCEPT !.made = @ + 1]
  /\ To(t, "keep")
  /\ UNCHANGED <<node_vars, acme_vars, trouble>>

KeepAccount(t) ==
  /\ task[t].pc = "keep"
  /\ account' = [account EXCEPT !.file = TRUE, !.cell = TRUE, !.by = NoTask]
  /\ To(t, "place")
  /\ UNCHANGED <<node_vars, acme_vars, trouble>>

(* order: the challenge's answer is served before the CA is told to look. *)
PlaceOrder(t) ==
  /\ task[t].pc = "place"
  /\ challenges' = challenges \cup {t}
  /\ To(t, "ready")
  /\ UNCHANGED <<node_vars, file, mem, ordering, failed, account, trouble>>

NextAfter(c) == [n |-> IF c.n < MaxCerts THEN c.n + 1 ELSE MaxCerts, fresh |-> TRUE]

(* The certificate is served as soon as it is issued. *)
BugIssue(t) ==
  LET h == task[t].host IN
  /\ task[t].pc \in {"ready", "place"}
  /\ task' = [task EXCEPT ![t].pc = "store", ![t].cert = NextAfter(file[h])]
  /\ mem' = [mem EXCEPT ![h] = NextAfter(file[h])]
  /\ UNCHANGED <<node_vars, file, ordering, failed, challenges, account, trouble>>

(* The CA asks the HTTP edge for the token and validates the hostname, or    *)
(* has validated it for an earlier order and sends no challenge; then it     *)
(* issues.                                                                   *)
Issue(t) ==
  LET h == task[t].host IN
  /\ \/ task[t].pc = "ready" /\ t \in challenges
     \/ task[t].pc = "place"
  /\ task' = [task EXCEPT ![t].pc = "store", ![t].cert = NextAfter(file[h])]
  /\ UNCHANGED <<node_vars, acme_vars, account, trouble>>

(* Key and chain in one file, which read_certificate reads back. *)
Store(t) ==
  /\ task[t].pc = "store"
  /\ file' = [file EXCEPT ![task[t].host] = task[t].cert]
  /\ To(t, "read")
  /\ UNCHANGED <<node_vars, mem, ordering, failed, challenges, account, trouble>>

(* ensure's end: the failure is forgotten, then the certificate served. *)
ReadBack(t) ==
  LET h == task[t].host IN
  /\ task[t].pc = "read"
  /\ task' = [task EXCEPT ![t].pc = "serve", ![t].cert = file[h]]
  /\ failed' = failed \ {h}
  /\ UNCHANGED <<node_vars, file, mem, ordering, challenges, account, trouble>>

Serve(t) ==
  LET h == task[t].host IN
  /\ task[t].pc = "serve"
  /\ mem' = [mem EXCEPT ![h] = task[t].cert]
  /\ To(t, "drop")
  /\ UNCHANGED <<node_vars, file, ordering, failed, challenges, account, trouble>>

(* Any of an order's calls fails: the CA, the network or the disk.  The next *)
(* order has to wait, twice as long after every failure, up to a limit.      *)
OrderFails(t) ==
  LET h == task[t].host IN
  /\ task[t].pc \in OrderPcs \ {"serve", "drop"}
  /\ task[t].pc = "account" => ~account.cell /\ account.by = NoTask
  /\ Trouble
  /\ account' = IF account.by # t THEN account
                ELSE [account EXCEPT !.by = NoTask,
                                     !.lost = @ + (IF task[t].pc = "keep" THEN 1 ELSE 0)]
  /\ failed' = failed \cup {h}
  /\ To(t, "drop")
  /\ UNCHANGED <<node_vars, file, mem, ordering, challenges>>

(* The hostname stays marked as being ordered. *)
BugDropOrder(t) ==
  /\ task[t].pc = "drop"
  /\ challenges' = challenges \ {t}
  /\ task' = [task EXCEPT ![t] = Idle]
  /\ UNCHANGED <<node_vars, file, mem, ordering, failed, account, trouble>>

(* The PendingOrder is dropped, and takes its challenges back. *)
DropOrder(t) ==
  /\ task[t].pc = "drop"
  /\ challenges' = challenges \ {t}
  /\ ordering' = ordering \ {task[t].host}
  /\ task' = [task EXCEPT ![t] = Idle]
  /\ UNCHANGED <<node_vars, file, mem, failed, account, trouble>>

-----------------------------------------------------------------------------
RetryTimeComes(h) ==
  /\ h \in failed
  /\ failed' = failed \ {h}
  /\ UNCHANGED <<node_vars, file, mem, ordering, challenges, account, task, trouble>>

(* Months pass; an order's ninety seconds don't span them. *)
TimePasses(h) ==
  /\ file[h].fresh
  /\ \A t \in Tasks : task[t].host = h => task[t].pc \in {"idle", "waiting", "start"}
  /\ file' = [file EXCEPT ![h].fresh = FALSE]
  /\ mem' = [mem EXCEPT ![h].fresh = FALSE]
  /\ UNCHANGED <<node_vars, ordering, failed, challenges, account, task, trouble>>

OrderGoesOn(t) ==
  \/ SeeWaiting(t) \/ StartOrder(t) \/ HaveAccount(t) \/ InitAccount(t) \/ MakeAccount(t)
  \/ KeepAccount(t) \/ PlaceOrder(t) \/ Issue(t) \/ Store(t) \/ ReadBack(t) \/ Serve(t)
  \/ OrderFails(t) \/ DropOrder(t)

Boot == Start \/ LoadKey \/ LoadCert

Next ==
  \/ Boot \/ Stop
  \/ \E t \in Tasks : OrderGoesOn(t) \/ \E h \in Hosts : GetCertificate(t, h)
  \/ \E h \in Hosts : RetryTimeComes(h) \/ TimePasses(h)

Spec == Init /\ [][Next]_vars

(* The service manager starts the agent again, the runtime's tasks go on,    *)
(* the renewer ticks and waits come to an end.                               *)
Fairness ==
  /\ WF_vars(Boot)
  /\ \A t \in Tasks : WF_vars(OrderGoesOn(t))
  /\ \A h \in Hosts : /\ WF_vars(RetryTimeComes(h))
                      /\ SF_vars(\E t \in Tasks : GetCertificate(t, h))

FairSpec == Spec /\ Fairness
-----------------------------------------------------------------------------
Ordering(t) == task[t].pc \in OrderPcs

(* A hostname has one order under way at most, and is free for the next one  *)
(* once that has ended, however it ended. What the CA will ask for is served *)
(* from before it is told to look until its order ends, and nothing else is: *)
(* no order takes another's answer away or leaves its own behind.            *)
OrdersKeepApart ==
  /\ TypeOK
  /\ \A t, u \in Tasks : Ordering(t) /\ Ordering(u) /\ task[t].host = task[u].host => t = u
  /\ ordering = {task[t].host : t \in {u \in Tasks : Ordering(u)}}
  /\ \A t \in Tasks : task[t].pc = "ready" => t \in challenges
  /\ challenges \subseteq {t \in Tasks : Ordering(t)}

(* What a restart would load is never older than what the edge serves, also  *)
(* while an order fails or is cut short: the edge never goes back to an      *)
(* earlier certificate.                                                      *)
NeverServesOlder ==
  \A h \in Hosts : mem[h].n <= file[h].n /\ (mem[h].fresh => file[h].fresh)

(* The Node makes an account with the CA once, however many orders need it   *)
(* at once, and again only when one was lost between the CA and the disk.    *)
AccountMadeOnce == account.made <= account.lost + 1

(* Whenever the agent stops, the Node's CA on disk is a key with its         *)
(* certificate, a key alone, or nothing: the next start is never refused,    *)
(* and a certificate clients may trust is never left without its key.        *)
CaKeyKept == caCert # 0 => caCert = caKey

(* A certificate that is due is renewed, after any bounded number of failed  *)
(* orders and restarts (renew_certificates, ensure).                         *)
CertificateRenewed ==
  \A h \in Hosts : ~mem[h].fresh ~> mem[h].fresh
=============================================================================
