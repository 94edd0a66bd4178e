-------------------------- MODULE CallRcuRegistry --------------------------
(***************************************************************************)
(* The registry of call_rcu workers in src/urcu-call-rcu-impl.h:          *)
(*   call_rcu_data_list      listed,                                      *)
(*   default_call_rcu_data   defaultW,                                    *)
(*   per_cpu_call_rcu_data   percpu (NULL until alloc_cpu_call_rcu_data   *)
(*                           succeeds) and maxcpus,                       *)
(*   call_rcu_mutex          mutex.                                       *)
(* Its operations: create_all_cpu_call_rcu_data() on threads Creators,    *)
(* get_call_rcu_data() (with get_cpu_call_rcu_data() and the double-     *)
(* checked get_default_call_rcu_data()) on threads Getters, and the      *)
(* call_rcu_data_free() a create_all thread makes of the worker it lost   *)
(* the EEXIST race with; and, on threads Installers, an application that *)
(* creates a worker with create_call_rcu_data() and installs it on a CPU  *)
(* of its choice with set_cpu_call_rcu_data(), freeing it if that fails.  Each worker is reduced to the one answer the    *)
(* registry waits for: it sets STOPPED once it sees STOP.  Its queue,     *)
(* futex and pause protocol are the subject of CallRcu.                   *)
(***************************************************************************)
EXTENDS Integers, FiniteSets, Functions

CONSTANTS
  Crdps,        \* the call_rcu_data structures malloc() may return
  Creators,     \* threads calling create_all_cpu_call_rcu_data()
  Getters,      \* threads calling get_call_rcu_data() (no per-thread worker)
  Installers,   \* threads calling create_call_rcu_data, set_cpu_call_rcu_data
  NCpus,        \* what sysconf(_SC_NPROCESSORS_CONF) returns
  MallocFails,  \* whether the malloc() of the per-CPU array may fail
  NULL

ASSUME NCpus \in Nat /\ MallocFails \in BOOLEAN
ASSUME NULL \notin Crdps
ASSUME Creators \cap Getters = {} /\ Installers \cap (Creators \cup Getters) = {}

Threads == Creators \cup Getters \cup Installers
Cpus == 0 .. NCpus - 1
(* the cpu arguments an application may pass: every CPU, and one out of  *)
(* range on each side                                                      *)
CpuArgs == -1 .. NCpus

VARIABLES
  listed,    \* call_rcu_data_list
  defaultW,  \* default_call_rcu_data
  maxcpus,   \* maxcpus
  percpu,    \* per_cpu_call_rcu_data: NULL or a function Cpus -> Crdps \cup {NULL}
  mutex,     \* owner of call_rcu_mutex, or NULL
  flags,     \* crdp->flags of every structure ever allocated (STOP, STOPPED)
  used,      \* structures malloc() has returned so far
  freed,     \* structures free()d
  pc,        \* program counter of each thread
  i,         \* loop index of create_all
  crdp,      \* create_all's local crdp; get_call_rcu_data's result
  rv         \* return value of create_all ("0", "EINVAL", "ENOMEM")

vars == <<listed, defaultW, maxcpus, percpu, mutex, flags, used, freed,
          pc, i, crdp, rv>>

CreatorPcs == {"ca_lock", "ca_alloc", "ca_loop", "ca_get", "ca_set_lock",
               "ca_set", "ca_free_wait", "ca_free_lock", "ca_free_del", "done"}
GetterPcs  == {"get", "gd_read", "gd_lock", "gd_check", "done"}
InstallerPcs == {"cr_lock", "cr_init", "sc_lock", "sc_set", "is_free", "is_free_wait",
                 "is_free_lock", "is_free_del", "done"}

TypeOK ==
  /\ listed \subseteq Crdps /\ used \subseteq Crdps /\ freed \subseteq used
  /\ defaultW \in Crdps \cup {NULL}
  /\ maxcpus \in {0, NCpus}
  /\ percpu \in {NULL} \cup [Cpus -> Crdps \cup {NULL}]
  /\ mutex \in Threads \cup {NULL}
  /\ flags \in [Crdps -> SUBSET {"STOP", "STOPPED"}]
  /\ pc \in [Threads -> CreatorPcs \cup GetterPcs \cup InstallerPcs]
  /\ i \in [Threads -> 0 .. NCpus]
  /\ crdp \in [Threads -> Crdps \cup {NULL}]
  /\ rv \in [Threads -> {"none", "0", "EINVAL", "ENOMEM", "EEXIST"}]

Init ==
  /\ listed = {} /\ defaultW = NULL /\ maxcpus = 0 /\ percpu = NULL
  /\ mutex = NULL /\ flags = [c \in Crdps |-> {}]
  /\ used = {} /\ freed = {}
  /\ pc = [t \in Threads |-> CASE t \in Creators -> "ca_lock"
                                [] t \in Getters  -> "get"
                                [] OTHER          -> "cr_lock"]
  /\ i = [t \in Threads |-> 0] /\ crdp = [t \in Threads |-> NULL]
  /\ rv = [t \in Threads |-> "none"]

Goto(t, l) == pc' = [pc EXCEPT ![t] = l]

(* call_rcu_lock(&call_rcu_mutex) taken by t at label from, going on to to *)
Lock(t, from, to) ==
  /\ pc[t] = from /\ mutex = NULL
  /\ mutex' = t /\ Goto(t, to)
  /\ UNCHANGED <<listed, defaultW, maxcpus, percpu, flags, used, freed, i, crdp, rv>>

(* alloc_cpu_call_rcu_data(): a no-op once maxcpus is set, whether or not *)
(* the array was allocated; otherwise sysconf(), then malloc() which may  *)
(* fail and leave per_cpu_call_rcu_data NULL for good.                    *)
AllocOutcomes ==
  IF maxcpus # 0 \/ NCpus = 0 THEN {percpu}
  ELSE {[c \in Cpus |-> NULL]} \cup (IF MallocFails THEN {NULL} ELSE {})

(* call_rcu_data_init(): malloc a structure (possibly at the address of  *)
(* one freed before), zero it, set its flags, list it and start its       *)
(* thread.  The caller plants the pointer.                                *)
Fresh == Crdps \ (used \ freed)
InitCrdp(c) ==
  /\ used' = used \cup {c} /\ freed' = freed \ {c}
  /\ flags' = [flags EXCEPT ![c] = {}]
  /\ listed' = listed \cup {c}

(* get_cpu_call_rcu_data(cpu), read without the mutex *)
GetCpu(cpu) == IF percpu = NULL THEN NULL ELSE percpu[cpu]

-------------------------------------------------------------------------------
(* create_all_cpu_call_rcu_data() *)

CaLock(t) == Lock(t, "ca_lock", "ca_alloc")

(* alloc_cpu_call_rcu_data(), the unlock and the checks of maxcpus and of *)
(* per_cpu_call_rcu_data that follow it (lines 543-552)                   *)
CaAlloc(t) ==
  /\ pc[t] = "ca_alloc"
  /\ \E p \in AllocOutcomes :
       /\ percpu' = p
       /\ maxcpus' = NCpus
       /\ mutex' = NULL
       /\ CASE NCpus = 0 -> rv' = [rv EXCEPT ![t] = "EINVAL"] /\ Goto(t, "done")
            [] p = NULL  -> rv' = [rv EXCEPT ![t] = "ENOMEM"] /\ Goto(t, "done")
            [] OTHER     -> UNCHANGED rv /\ Goto(t, "ca_loop")
  /\ UNCHANGED <<listed, defaultW, flags, used, freed, i, crdp>>

(* mutant: the loop stops one CPU short *)
CaLoopOffByOne(t) ==
  /\ pc[t] = "ca_loop"
  /\ IF i[t] < maxcpus - 1
       THEN /\ mutex = NULL /\ mutex' = t /\ Goto(t, "ca_get") /\ UNCHANGED rv
       ELSE /\ rv' = [rv EXCEPT ![t] = "0"] /\ Goto(t, "done") /\ UNCHANGED mutex
  /\ UNCHANGED <<listed, defaultW, maxcpus, percpu, flags, used, freed, i, crdp>>

(* the for loop test; on exit the function returns 0 *)
CaLoop(t) ==
  /\ pc[t] = "ca_loop"
  /\ IF i[t] < maxcpus
       THEN /\ mutex = NULL /\ mutex' = t /\ Goto(t, "ca_get") /\ UNCHANGED rv
       ELSE /\ rv' = [rv EXCEPT ![t] = "0"] /\ Goto(t, "done") /\ UNCHANGED mutex
  /\ UNCHANGED <<listed, defaultW, maxcpus, percpu, flags, used, freed, i, crdp>>

(* under the mutex: skip a populated slot, or create a worker for it and *)
(* unlock (lines 555-565; call_rcu_data_init dies rather than return NULL) *)
CaGet(t) ==
  /\ pc[t] = "ca_get"
  /\ mutex' = NULL
  /\ IF GetCpu(i[t]) # NULL
       THEN /\ i' = [i EXCEPT ![t] = @ + 1] /\ Goto(t, "ca_loop")
            /\ UNCHANGED <<listed, used, freed, flags, crdp>>
       ELSE /\ \E c \in Fresh : InitCrdp(c) /\ crdp' = [crdp EXCEPT ![t] = c]
            /\ Goto(t, "ca_set_lock") /\ UNCHANGED i
  /\ UNCHANGED <<defaultW, maxcpus, percpu, rv>>

CaSetLock(t) == Lock(t, "ca_set_lock", "ca_set")

(* mutant: -EEXIST taken as done, the losing worker left running *)
CaSetNoFree(t) ==
  /\ pc[t] = "ca_set"
  /\ mutex' = NULL
  /\ IF percpu[i[t]] # NULL
       THEN crdp' = [crdp EXCEPT ![t] = NULL] /\ UNCHANGED percpu
       ELSE percpu' = [percpu EXCEPT ![i[t]] = crdp[t]] /\ UNCHANGED crdp
  /\ i' = [i EXCEPT ![t] = @ + 1] /\ Goto(t, "ca_loop")
  /\ UNCHANGED <<listed, defaultW, maxcpus, flags, used, freed, rv>>

(* mutant: set_cpu_call_rcu_data without the EEXIST test *)
CaSetNoExistCheck(t) ==
  /\ pc[t] = "ca_set"
  /\ mutex' = NULL
  /\ percpu' = [percpu EXCEPT ![i[t]] = crdp[t]]
  /\ i' = [i EXCEPT ![t] = @ + 1] /\ Goto(t, "ca_loop")
  /\ UNCHANGED <<listed, defaultW, maxcpus, flags, used, freed, crdp, rv>>

(* mutant: call_rcu_data_free polls for STOPPED without setting STOP *)
CaSetNoStop(t) ==
  /\ pc[t] = "ca_set"
  /\ mutex' = NULL
  /\ IF percpu[i[t]] # NULL
       THEN Goto(t, "ca_free_wait") /\ UNCHANGED <<percpu, i>>
       ELSE /\ percpu' = [percpu EXCEPT ![i[t]] = crdp[t]]
            /\ i' = [i EXCEPT ![t] = @ + 1] /\ Goto(t, "ca_loop")
  /\ UNCHANGED <<listed, defaultW, maxcpus, flags, used, freed, crdp, rv>>

(* set_cpu_call_rcu_data(i, crdp) under the mutex: alloc is a no-op, the   *)
(* range and array checks pass, a slot filled meanwhile gives -EEXIST,     *)
(* which create_all answers with call_rcu_data_free(crdp): set STOP and    *)
(* wake the worker.                                                        *)
CaSet(t) ==
  /\ pc[t] = "ca_set"
  /\ mutex' = NULL
  /\ IF percpu[i[t]] # NULL
       THEN /\ flags' = [flags EXCEPT ![crdp[t]] = @ \cup {"STOP"}]
            /\ Goto(t, "ca_free_wait") /\ UNCHANGED <<percpu, i>>
       ELSE /\ percpu' = [percpu EXCEPT ![i[t]] = crdp[t]]
            /\ i' = [i EXCEPT ![t] = @ + 1]
            /\ Goto(t, "ca_loop") /\ UNCHANGED flags
  /\ UNCHANGED <<listed, defaultW, maxcpus, used, freed, crdp, rv>>

(* call_rcu_data_free(): the poll() loop until the worker is STOPPED; its *)
(* queue is empty then, the worker having drained its dummy first.        *)
CaFreeWait(t) ==
  /\ pc[t] = "ca_free_wait" /\ "STOPPED" \in flags[crdp[t]]
  /\ Goto(t, "ca_free_lock")
  /\ UNCHANGED <<listed, defaultW, maxcpus, percpu, mutex, flags, used, freed, i, crdp, rv>>

CaFreeLock(t) == Lock(t, "ca_free_lock", "ca_free_del")

(* mutant: the EEXIST path advances the index itself and then continues *)
CaFreeDelDoubleStep(t) ==
  /\ pc[t] = "ca_free_del"
  /\ listed' = listed \ {crdp[t]} /\ freed' = freed \cup {crdp[t]}
  /\ mutex' = NULL
  /\ i' = [i EXCEPT ![t] = @ + 2] /\ crdp' = [crdp EXCEPT ![t] = NULL]
  /\ Goto(t, "ca_loop")
  /\ UNCHANGED <<defaultW, maxcpus, percpu, flags, used, rv>>

(* cds_list_del, unlock, free(crdp), and the continue of the EEXIST case *)
CaFreeDel(t) ==
  /\ pc[t] = "ca_free_del"
  /\ listed' = listed \ {crdp[t]} /\ freed' = freed \cup {crdp[t]}
  /\ mutex' = NULL
  /\ i' = [i EXCEPT ![t] = @ + 1] /\ crdp' = [crdp EXCEPT ![t] = NULL]
  /\ Goto(t, "ca_loop")
  /\ UNCHANGED <<defaultW, maxcpus, percpu, flags, used, rv>>

CreatorStep(t) ==
  \/ CaLock(t) \/ CaAlloc(t) \/ CaLoop(t) \/ CaGet(t) \/ CaSetLock(t)
  \/ CaSet(t) \/ CaFreeWait(t) \/ CaFreeLock(t) \/ CaFreeDel(t)

-------------------------------------------------------------------------------
(* An application thread: crdp = create_call_rcu_data(0, -1), then         *)
(* set_cpu_call_rcu_data(cpu, crdp), and call_rcu_data_free(crdp) when that *)
(* fails, as the comment of set_cpu_call_rcu_data prescribes.             *)

(* create_call_rcu_data(): lock, __create_call_rcu_data, unlock *)
CrLock(t) == Lock(t, "cr_lock", "cr_init")

CrInit(t) ==
  /\ pc[t] = "cr_init"
  /\ mutex' = NULL
  /\ \E c \in Fresh : InitCrdp(c) /\ crdp' = [crdp EXCEPT ![t] = c]
  /\ Goto(t, "sc_lock")
  /\ UNCHANGED <<defaultW, maxcpus, percpu, i, rv>>

ScLock(t) == Lock(t, "sc_lock", "sc_set")

(* per_cpu_call_rcu_data[cpu]; a read past the end of the array, which  *)
(* only a wrong range test allows, is taken to find NULL                  *)
SlotOf(p, cpu) == IF cpu \in DOMAIN p THEN p[cpu] ELSE NULL

(* mutant: the range test written maxcpus < cpu, so cpu = maxcpus passes *)
SetCpuResultOffByOne(cpu, m, p) ==
  CASE cpu < 0 \/ m < cpu  -> "EINVAL"
    [] p = NULL              -> "ENOMEM"
    [] SlotOf(p, cpu) # NULL -> "EEXIST"
    [] OTHER                 -> "0"

(* What set_cpu_call_rcu_data(cpu, crdp) returns for a non-NULL crdp, once *)
(* alloc_cpu_call_rcu_data() has left maxcpus m and the array p: the range *)
(* test comes first, then the missing array, then the populated slot.     *)
SetCpuResult(cpu, m, p) ==
  CASE cpu < 0 \/ m <= cpu -> "EINVAL"
    [] p = NULL              -> "ENOMEM"
    [] SlotOf(p, cpu) # NULL -> "EEXIST"
    [] OTHER                 -> "0"

(* set_cpu_call_rcu_data(cpu, crdp) under the mutex: alloc, which may be  *)
(* the first and may fail for good; the checks; rcu_set_pointer on success; *)
(* unlock.  A slot index past the array leaves it untouched here, where C  *)
(* would write past its end.                                               *)
ScSet(t) ==
  /\ pc[t] = "sc_set"
  /\ \E cpu \in CpuArgs, p \in AllocOutcomes :
       LET r == SetCpuResult(cpu, NCpus, p) IN
       /\ rv' = [rv EXCEPT ![t] = r]
       /\ percpu' = IF r = "0" THEN [p EXCEPT ![cpu] = crdp[t]] ELSE p
       /\ Goto(t, IF r = "0" THEN "done" ELSE "is_free")
  /\ maxcpus' = NCpus /\ mutex' = NULL
  /\ UNCHANGED <<listed, defaultW, flags, used, freed, i, crdp>>

(* call_rcu_data_free(crdp): not the default and not yet STOPPED, so set *)
(* STOP and wake the worker                                               *)
IsFree(t) ==
  /\ pc[t] = "is_free"
  /\ crdp[t] # defaultW /\ "STOPPED" \notin flags[crdp[t]]
  /\ flags' = [flags EXCEPT ![crdp[t]] = @ \cup {"STOP"}]
  /\ Goto(t, "is_free_wait")
  /\ UNCHANGED <<listed, defaultW, maxcpus, percpu, mutex, used, freed, i, crdp, rv>>

IsFreeWait(t) ==
  /\ pc[t] = "is_free_wait" /\ "STOPPED" \in flags[crdp[t]]
  /\ Goto(t, "is_free_lock")
  /\ UNCHANGED <<listed, defaultW, maxcpus, percpu, mutex, flags, used, freed, i, crdp, rv>>

IsFreeLock(t) == Lock(t, "is_free_lock", "is_free_del")

(* cds_list_del, unlock, free(crdp) *)
IsFreeDel(t) ==
  /\ pc[t] = "is_free_del"
  /\ listed' = listed \ {crdp[t]} /\ freed' = freed \cup {crdp[t]}
  /\ mutex' = NULL /\ crdp' = [crdp EXCEPT ![t] = NULL]
  /\ Goto(t, "done")
  /\ UNCHANGED <<defaultW, maxcpus, percpu, flags, used, i, rv>>

InstallerStep(t) ==
  \/ CrLock(t) \/ CrInit(t) \/ ScLock(t) \/ ScSet(t)
  \/ IsFree(t) \/ IsFreeWait(t) \/ IsFreeLock(t) \/ IsFreeDel(t)

-------------------------------------------------------------------------------
(* get_call_rcu_data() on a thread with no per-thread worker *)

(* mutant: get_cpu_call_rcu_data's result returned without the NULL test *)
GetNoNullCheck(t) ==
  /\ pc[t] = "get"
  /\ maxcpus > 0
  /\ \E cpu \in Cpus : crdp' = [crdp EXCEPT ![t] = GetCpu(cpu)]
  /\ Goto(t, "done")
  /\ UNCHANGED <<listed, defaultW, maxcpus, percpu, mutex, flags, used, freed, i, rv>>

(* if maxcpus > 0, the worker of the CPU it runs on, when there is one *)
Get(t) ==
  /\ pc[t] = "get"
  /\ \E cpu \in Cpus :
       LET c == IF maxcpus > 0 THEN GetCpu(cpu) ELSE NULL IN
       /\ crdp' = [crdp EXCEPT ![t] = c]
       /\ Goto(t, IF c # NULL THEN "done" ELSE "gd_read")
  /\ UNCHANGED <<listed, defaultW, maxcpus, percpu, mutex, flags, used, freed, i, rv>>

(* get_default_call_rcu_data(): the unlocked read *)
GdRead(t) ==
  /\ pc[t] = "gd_read"
  /\ crdp' = [crdp EXCEPT ![t] = defaultW]
  /\ Goto(t, IF defaultW # NULL THEN "done" ELSE "gd_lock")
  /\ UNCHANGED <<listed, defaultW, maxcpus, percpu, mutex, flags, used, freed, i, rv>>

GdLock(t) == Lock(t, "gd_lock", "gd_check")

(* mutant: the second test under the mutex dropped, so two callers that *)
(* both read NULL each create a default                                  *)
GdCheckNoRecheck(t) ==
  /\ pc[t] = "gd_check"
  /\ mutex' = NULL
  /\ \E c \in Fresh :
       /\ InitCrdp(c) /\ defaultW' = c /\ crdp' = [crdp EXCEPT ![t] = c]
  /\ Goto(t, "done")
  /\ UNCHANGED <<maxcpus, percpu, i, rv>>

(* the check under the mutex, call_rcu_data_init when still NULL, unlock *)
GdCheck(t) ==
  /\ pc[t] = "gd_check"
  /\ mutex' = NULL
  /\ IF defaultW # NULL
       THEN /\ crdp' = [crdp EXCEPT ![t] = defaultW]
            /\ UNCHANGED <<listed, used, freed, flags, defaultW>>
       ELSE \E c \in Fresh :
              /\ InitCrdp(c) /\ defaultW' = c /\ crdp' = [crdp EXCEPT ![t] = c]
  /\ Goto(t, "done")
  /\ UNCHANGED <<maxcpus, percpu, i, rv>>

GetterStep(t) == Get(t) \/ GdRead(t) \/ GdLock(t) \/ GdCheck(t)

-------------------------------------------------------------------------------
(* call_rcu_thread(): the STOP test at the end of its loop *)
WorkerStop(c) ==
  /\ "STOP" \in flags[c] /\ "STOPPED" \notin flags[c]
  /\ flags' = [flags EXCEPT ![c] = @ \cup {"STOPPED"}]
  /\ UNCHANGED <<listed, defaultW, maxcpus, percpu, mutex, used, freed, pc, i, crdp, rv>>

(* The program has stopped once every thread has returned. *)
Terminated ==
  /\ \A t \in Threads : pc[t] = "done"
  /\ UNCHANGED vars

Next ==
  \/ Terminated
  \/ \E t \in Creators : CreatorStep(t)
  \/ \E t \in Getters : GetterStep(t)
  \/ \E t \in Installers : InstallerStep(t)
  \/ \E c \in Crdps : WorkerStop(c)

(* Every thread is scheduled; pthread mutexes are not fair, but with a     *)
(* bounded number of lock requests weak fairness suffices.                  *)
Fairness ==
  /\ \A t \in Creators : WF_vars(CreatorStep(t))
  /\ \A t \in Getters : WF_vars(GetterStep(t))
  /\ \A t \in Installers : WF_vars(InstallerStep(t))
  /\ \A c \in Crdps : WF_vars(WorkerStop(c))

Spec == Init /\ [][Next]_vars /\ Fairness

-------------------------------------------------------------------------------
(* Properties *)

(* No worker thread is orphaned: every structure on call_rcu_data_list is *)
(* the default worker, a per-CPU worker, or the one a create_all thread   *)
(* has just created and is still publishing or freeing.  A listed worker  *)
(* reachable from nowhere would run, and hold its thread, for good, and   *)
(* free_all_cpu_call_rcu_data() would never free it.  Two create_all      *)
(* threads racing on one slot reach it only through the EEXIST path.      *)
NoOrphanWorker ==
  \A c \in listed :
    \/ c = defaultW
    \/ percpu # NULL /\ c \in Range(percpu)
    \/ \E t \in Creators \cup Installers : crdp[t] = c

(* A published worker pointer is never replaced: once the default worker *)
(* is set it stays (get_default's check under the mutex), the per-CPU    *)
(* array once allocated stays, and a populated slot keeps its worker     *)
(* (set_cpu_call_rcu_data's EEXIST test), whatever the threads racing.   *)
PublishedNeverReplaced ==
  [][ /\ defaultW # NULL => defaultW' = defaultW
      /\ percpu # NULL =>
           /\ percpu' # NULL
           /\ \A c \in Cpus : percpu[c] # NULL => percpu'[c] = percpu[c]
    ]_vars

(* When create_all_cpu_call_rcu_data() returns 0, every CPU has a worker, *)
(* whichever thread created it.                                          *)
CreateAllPopulates ==
  \A t \in Creators :
    rv[t] = "0" => percpu # NULL /\ \A c \in Cpus : percpu[c] # NULL

(* get_call_rcu_data() returns a live, listed worker: never NULL, never  *)
(* the worker a create_all thread lost the race with and is freeing.     *)
GetReturnsListed ==
  \A t \in Getters : pc[t] = "done" => crdp[t] \in listed

(* set_cpu_call_rcu_data() returns 0 only when the worker it was given   *)
(* is installed, and stays installed: neither a create_all thread racing *)
(* for the same slot nor the array allocated by another caller's alloc   *)
(* loses it.                                                              *)
InstallSticks ==
  \A t \in Installers :
    rv[t] = "0" => percpu # NULL /\ crdp[t] \in Range(percpu)

(* Every create_all_cpu_call_rcu_data() and get_call_rcu_data() call     *)
(* returns: the lost worker answers STOP, and the mutex is released.     *)
AllReturn == \A t \in Threads : <>(pc[t] = "done")
=============================================================================
