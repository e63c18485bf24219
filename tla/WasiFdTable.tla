------------------------------ MODULE WasiFdTable ------------------------------
(***************************************************************************)
(* The descriptor table of a wasi instance (libwasi/wasi_table.c,          *)
(* wasi_fdtable.c, wasi_fdinfo.c) and the calls that use and change it, by *)
(* several threads: those of wasi_abi_fd.c, wasi_abi_path.c,               *)
(* wasi_abi_sock.c and wasi_abi_poll.c.                                    *)
(*                                                                         *)
(* An open file is a struct wasi_fdinfo.  Its reference count is one for   *)
(* the slot of the table that names it and one for each call that uses it. *)
(* Closing waits until no other call uses it.  One step is one critical    *)
(* section of wasi.lock; those of fd_renumber and fd_readdir are split in  *)
(* two, and LockFree keeps the others out of them meanwhile.  (The         *)
(* expansion of the table ahead of fd_renumber's is a step of its own: it  *)
(* commutes with what the others do.)                                      *)
(*                                                                         *)
(* A call finds its descriptors, checks what they are, makes its host call *)
(* and releases them.  The checks and the host call are data here: a call  *)
(* may fail at any point after its lookup.                                 *)
(***************************************************************************)
EXTENDS Integers, FiniteSets

CONSTANTS Threads,
          Users,          \* those that make every call: the others only read,
                          \* write and close
          Infos,          \* the addresses a struct wasi_fdinfo can have
          Null,           \* a null pointer
          MaxFds,         \* the table cannot grow beyond this size
          ReservedSlots,  \* the descriptors not used for new files
          Garbage         \* what an uninitialised pointer may hold

ASSUME FdAssumption == /\ IsFiniteSet(Infos) /\ IsFiniteSet(Threads)
                       /\ Users \subseteq Threads /\ Null \notin Infos
                       /\ MaxFds \in Nat \ {0} /\ ReservedSlots \in Nat
                       /\ Garbage \subseteq Infos \cup {Null}

Fds == 0..(MaxFds - 1)

VARIABLES lsize,      \* the size of the table
          slot,       \* its entries
          refcount,
          file,       \* what has become of each struct
          cvwait,     \* the threads waiting on wasi.cv
          pc, op, from, to,  \* where a thread is, its call and operands
          ref1, ref2, \* its pointers: fdinfo or fdinfo_to, and fdinfo_from
          fresh       \* the struct it makes and that no slot names yet

tvars == <<lsize, slot, refcount, file, cvwait>>
lvars == <<pc, op, from, to, ref1, ref2, fresh>>
vars == <<tvars, lvars>>

PCs == {"idle", "second", "using", "readdir", "opening", "release", "release2",
        "drain", "wait", "woken", "detached", "rn_swap", "rn_release"}

(* The calls, by what they do with descriptors: one that ends soon, one that
   may block, fd_readdir, two directories, two subscriptions of poll_oneoff,
   a new file by way of another one. *)
Uses == {"stat", "io", "readdir", "link", "poll", "open"}
Ops == Uses \cup {"none", "add", "close", "renumber"}

(* emulate_blocking and wasi_poll wait for as long as it takes. *)
Blocking == {"io", "poll", "open"}

TypeOK ==
  /\ lsize \in 0..MaxFds
  /\ slot \in [Fds -> Infos \cup {Null}]
  /\ refcount \in [Infos -> Nat \cup {-1}]
  /\ file \in [Infos -> {"free", "open", "closed", "leaked"}]
  /\ cvwait \subseteq Threads
  /\ pc \in [Threads -> PCs]
  /\ op \in [Threads -> Ops]
  /\ from \in [Threads -> Fds] /\ to \in [Threads -> Fds]
  /\ ref1 \in [Threads -> Infos \cup {Null}]
  /\ ref2 \in [Threads -> Infos \cup {Null}]
  /\ fresh \in [Threads -> Infos \cup {Null}]

(* wasi_instance_create *)
Init ==
  /\ lsize = 0
  /\ slot = [fd \in Fds |-> Null]
  /\ refcount = [i \in Infos |-> 0]
  /\ file = [i \in Infos |-> "free"]
  /\ cvwait = {}
  /\ pc = [t \in Threads |-> "idle"]
  /\ op = [t \in Threads |-> "none"]
  /\ from = [t \in Threads |-> 0] /\ to = [t \in Threads |-> 0]
  /\ ref1 = [t \in Threads |-> Null] /\ ref2 = [t \in Threads |-> Null]
  /\ fresh = [t \in Threads |-> Null]

LockFree == \A t \in Threads : pc[t] \notin {"rn_swap", "readdir"}
Goto(t, l) == pc' = [pc EXCEPT ![t] = l]

(* The end of a call. *)
Finish(t) ==
  /\ pc' = [pc EXCEPT ![t] = "idle"]
  /\ op' = [op EXCEPT ![t] = "none"]
  /\ from' = [from EXCEPT ![t] = 0] /\ to' = [to EXCEPT ![t] = 0]
  /\ ref1' = [ref1 EXCEPT ![t] = Null] /\ ref2' = [ref2 EXCEPT ![t] = Null]
  /\ fresh' = [fresh EXCEPT ![t] = Null]

(* wasi_table_lookup_locked finds an entry; slots past lsize are Null. *)
Found(fd) == fd < lsize /\ slot[fd] # Null

(* The wait for the cv is over for w, or for nobody if none waits. *)
Signalled == IF cvwait = {} THEN {{}} ELSE {{w} : w \in cvwait}

(* wasi_fdinfo_release: nothing for a null pointer; the waiters for the drain
   are signalled at one reference left, the struct is freed at none. *)
Release(i) ==
  IF i = Null THEN UNCHANGED tvars ELSE
  LET n == refcount[i] - 1 IN
  /\ LockFree
  /\ refcount' = [refcount EXCEPT ![i] = n]
  /\ IF n = 1 THEN \E w \in Signalled : cvwait' = cvwait \ w
              ELSE UNCHANGED cvwait
  /\ file' = IF n = 0 THEN [file EXCEPT ![i] = "free"] ELSE file
  /\ UNCHANGED <<lsize, slot>>

-----------------------------------------------------------------------------
(* wasi_fd_lookup at the start of a call.  If there is no such descriptor the
   call releases what its pointer was initialised with. *)
Begin(t, o, fd, gd, init) ==
  /\ pc[t] = "idle" /\ LockFree
  /\ op' = [op EXCEPT ![t] = o]
  /\ from' = [from EXCEPT ![t] = gd]
  /\ IF Found(fd)
     THEN /\ refcount' = [refcount EXCEPT ![slot[fd]] = @ + 1]
          /\ ref1' = [ref1 EXCEPT ![t] = slot[fd]]
          /\ Goto(t, IF o \in {"link", "poll"} THEN "second" ELSE "using")
     ELSE /\ ref1' = [ref1 EXCEPT ![t] = init]
          /\ Goto(t, IF o = "poll" THEN "second" ELSE "release")
          /\ UNCHANGED refcount
  /\ UNCHANGED <<lsize, slot, file, cvwait, to, ref2, fresh>>

(* fd_fdstat_get, fd_seek, fd_sync and their like. *)
FdStat(t, fd) == Begin(t, "stat", fd, 0, Null)

(* fd_advise, fd_allocate and fd_filestat_set_size do not initialise their
   pointer in every build. *)
FdAdvise(t, fd) == \E g \in Garbage : Begin(t, "stat", fd, 0, g)

(* fd_read, fd_write and their like, sock_recv, sock_send. *)
FdIo(t, fd) == Begin(t, "io", fd, 0, Null)

FdReaddir(t, fd) == Begin(t, "readdir", fd, 0, Null)

(* path_unlink_file, path_symlink and their like hold the directory;
   path_create_directory does not initialise its struct path_info. *)
PathCall(t, fd) == \E g \in Garbage : Begin(t, "stat", fd, 0, g)

(* path_link and path_rename hold two directories, maybe the same one. *)
PathLink(t, fd, gd) == Begin(t, "link", fd, gd, Null)

(* path_open holds the directory, sock_accept the socket. *)
PathOpen(t, fd) == Begin(t, "open", fd, 0, Null)

(* poll_oneoff of two descriptors. *)
PollOneoff(t, fd, gd) == Begin(t, "poll", fd, gd, Null)

(* The second lookup.  Without a descriptor path_link gives up, poll_oneoff
   reports an event; either may have given up before. *)
SecondLookup(t) ==
  LET gd == from[t] IN
  /\ pc[t] = "second" /\ LockFree
  /\ \/ /\ Found(gd)
        /\ refcount' = [refcount EXCEPT ![slot[gd]] = @ + 1]
        /\ ref2' = [ref2 EXCEPT ![t] = slot[gd]]
        /\ Goto(t, IF ref1[t] = Null THEN "release" ELSE "using")
     \/ Goto(t, "release") /\ UNCHANGED <<refcount, ref2>>
  /\ UNCHANGED <<lsize, slot, file, cvwait, op, from, to, ref1, fresh>>

(* fd_readdir reads the directory with the lock. *)
ReaddirLock(t) ==
  /\ pc[t] = "using" /\ op[t] = "readdir" /\ LockFree
  /\ Goto(t, "readdir")
  /\ UNCHANGED <<tvars, op, from, to, ref1, ref2, fresh>>

(* The host call is over, or was interrupted. *)
EndUse(t) ==
  /\ pc[t] \in {"using", "readdir"}
  /\ Goto(t, "release")
  /\ UNCHANGED <<tvars, op, from, to, ref1, ref2, fresh>>

(* path_open or sock_accept has opened a file. *)
Opened(t, i) ==
  /\ pc[t] = "using" /\ op[t] = "open" /\ file[i] = "free"
  /\ file' = [file EXCEPT ![i] = "open"]
  /\ refcount' = [refcount EXCEPT ![i] = 0]
  /\ fresh' = [fresh EXCEPT ![t] = i]
  /\ Goto(t, "opening")
  /\ UNCHANGED <<lsize, slot, cvwait, op, from, to, ref1, ref2>>

(* wasi_instance_prestat_add_vfs, called by the embedder. *)
PrestatAdd(t, i) ==
  /\ pc[t] = "idle" /\ file[i] = "free"
  /\ file' = [file EXCEPT ![i] = "open"]
  /\ refcount' = [refcount EXCEPT ![i] = 0]
  /\ fresh' = [fresh EXCEPT ![t] = i]
  /\ op' = [op EXCEPT ![t] = "add"]
  /\ Goto(t, "opening")
  /\ UNCHANGED <<lsize, slot, cvwait, from, to, ref1, ref2>>

(* wasi_table_alloc_slot: the first empty entry after the reserved ones, or
   a new one at the end of the table. *)
EmptySlots == {fd \in Fds : ReservedSlots <= fd /\ fd < lsize /\ slot[fd] = Null}
AllocSlot == IF EmptySlots # {}
             THEN CHOOSE fd \in EmptySlots : \A g \in EmptySlots : fd <= g
             ELSE IF lsize < ReservedSlots THEN ReservedSlots ELSE lsize

(* wasi_table_expand up to fd. *)
Expanded(fd) == IF fd < lsize THEN lsize ELSE fd + 1

(* wasi_table_fdinfo_add: wasi_table_alloc_slot and wasi_table_affix.  If the
   table cannot grow the struct is freed (and a host file it has is not
   closed, against the assertion of wasi_fdinfo_clear). *)
FdAdd(t) ==
  LET i == fresh[t] IN
  /\ pc[t] = "opening" /\ LockFree
  /\ \/ /\ AllocSlot < MaxFds
        /\ slot' = [slot EXCEPT ![AllocSlot] = i]
        /\ refcount' = [refcount EXCEPT ![i] = @ + 1]
        /\ lsize' = Expanded(AllocSlot)
        /\ UNCHANGED file
     \/ /\ AllocSlot >= lsize
        /\ file' = [file EXCEPT ![i] = "free"]
        /\ UNCHANGED <<lsize, slot, refcount>>
  /\ fresh' = [fresh EXCEPT ![t] = Null]
  /\ Goto(t, "release")
  /\ UNCHANGED <<cvwait, op, from, to, ref1, ref2>>

(* wasi_instance_add_hostfd, called by the embedder: the file gets the
   descriptor fd if that is not in use (otherwise it is like FdStat). *)
AddHostfd(t, fd, i) ==
  /\ pc[t] = "idle" /\ LockFree /\ ~Found(fd) /\ file[i] = "free"
  /\ lsize' = Expanded(fd)
  /\ slot' = [slot EXCEPT ![fd] = i]
  /\ refcount' = [refcount EXCEPT ![i] = 1]
  /\ file' = [file EXCEPT ![i] = "open"]
  /\ UNCHANGED <<cvwait, lvars>>

(* Its error path: set_nonblocking fails, and wasi_fdinfo_release drops a
   reference that nobody has taken.  The count wraps (-1 stands for
   UINT32_MAX) and the struct is never freed. *)
AddHostfdFails(t, fd, i) ==
  /\ pc[t] = "idle" /\ LockFree /\ ~Found(fd) /\ file[i] = "free"
  /\ lsize' = Expanded(fd)
  /\ refcount' = [refcount EXCEPT ![i] = -1]
  /\ file' = [file EXCEPT ![i] = "leaked"]
  /\ UNCHANGED <<slot, cvwait, lvars>>

(* wasi_instance_destroy, once no thread uses the instance: wasi_table_clear
   closes and frees what the table names, each by its only reference.  The
   next instance starts with an empty table. *)
TableClear ==
  LET named == {slot[fd] : fd \in Fds} \ {Null} IN
  /\ \A t \in Threads : pc[t] = "idle"
  /\ lsize' = 0
  /\ slot' = [fd \in Fds |-> Null]
  /\ refcount' = [i \in Infos |-> IF i \in named THEN refcount[i] - 1 ELSE refcount[i]]
  /\ file' = [i \in Infos |-> IF i \in named THEN "free" ELSE file[i]]
  /\ UNCHANGED <<cvwait, lvars>>

(* fd_close is called. *)
CloseCall(t, fd) ==
  /\ pc[t] = "idle"
  /\ op' = [op EXCEPT ![t] = "close"]
  /\ to' = [to EXCEPT ![t] = fd]
  /\ Goto(t, "drain")
  /\ UNCHANGED <<tvars, from, ref1, ref2, fresh>>

(* fd_renumber expands the table to its second operand first. *)
RenumberCall(t, fd, gd) ==
  /\ pc[t] = "idle" /\ LockFree
  /\ op' = [op EXCEPT ![t] = "renumber"]
  /\ from' = [from EXCEPT ![t] = fd]
  /\ to' = [to EXCEPT ![t] = gd]
  /\ lsize' = Expanded(gd)
  /\ Goto(t, "drain")
  /\ UNCHANGED <<slot, refcount, file, cvwait, ref1, ref2, fresh>>

(* wasi_table_lookup_locked_for_close finds no entry. *)
DrainBadf(t) ==
  /\ pc[t] = "drain" /\ LockFree /\ ~Found(to[t])
  /\ Finish(t)
  /\ UNCHANGED tvars

(* Mutant of DrainWait: it takes its own reference for one of another user. *)
DrainWait_OffByOne(t) ==
  /\ pc[t] = "drain" /\ LockFree /\ Found(to[t])
  /\ refcount[slot[to[t]]] + 1 >= 2
  /\ cvwait' = cvwait \cup {t}
  /\ Goto(t, "wait")
  /\ UNCHANGED <<lsize, slot, refcount, file, op, from, to, ref1, ref2, fresh>>

(* It finds a descriptor in use: it drops the reference it has just taken,
   and wasi_fdinfo_wait waits. *)
DrainWait(t) ==
  /\ pc[t] = "drain" /\ LockFree /\ Found(to[t])
  /\ refcount[slot[to[t]]] + 1 > 2
  /\ cvwait' = cvwait \cup {t}
  /\ Goto(t, "wait")
  /\ UNCHANGED <<lsize, slot, refcount, file, op, from, to, ref1, ref2, fresh>>

(* The timed wait ends, signalled or not; it takes the lock and releases it
   again before check_interrupt. *)
WaitEnd(t) ==
  /\ pc[t] = "wait" /\ LockFree
  /\ cvwait' = cvwait \ {t}
  /\ Goto(t, "woken")
  /\ UNCHANGED <<lsize, slot, refcount, file, op, from, to, ref1, ref2, fresh>>

(* check_interrupt without the lock: the call goes on with the lookup, or it
   is abandoned (and maybe executed again from the start). *)
WaitCheck(t) ==
  /\ pc[t] = "woken"
  /\ \/ Goto(t, "drain") /\ UNCHANGED <<op, from, to, ref1, ref2, fresh>>
     \/ Finish(t)
  /\ UNCHANGED tvars

(* Mutant of CloseDetach: it does not wait for the users of the descriptor. *)
CloseDetach_NoDrain(t) ==
  /\ pc[t] = "drain" /\ op[t] = "close" /\ LockFree /\ Found(to[t])
  /\ slot' = [slot EXCEPT ![to[t]] = Null]
  /\ ref1' = [ref1 EXCEPT ![t] = slot[to[t]]]
  /\ Goto(t, "detached")
  /\ UNCHANGED <<lsize, refcount, file, cvwait, op, from, to, ref2, fresh>>

(* fd_close finds nobody else using the descriptor: the slot is emptied and
   its reference dropped, the one of the lookup is kept. *)
CloseDetach(t) ==
  /\ pc[t] = "drain" /\ op[t] = "close" /\ LockFree /\ Found(to[t])
  /\ refcount[slot[to[t]]] + 1 = 2
  /\ slot' = [slot EXCEPT ![to[t]] = Null]
  /\ ref1' = [ref1 EXCEPT ![t] = slot[to[t]]]
  /\ Goto(t, "detached")
  /\ UNCHANGED <<lsize, refcount, file, cvwait, op, from, to, ref2, fresh>>

(* fd_renumber, the same, then the lookup of "from". *)
RenumberLookup(t) ==
  LET i == slot[to[t]]
      j == slot[from[t]]
      counts == [refcount EXCEPT ![i] = @ + 1]
  IN
  /\ pc[t] = "drain" /\ op[t] = "renumber" /\ LockFree /\ Found(to[t])
  /\ refcount[i] + 1 = 2
  /\ ref1' = [ref1 EXCEPT ![t] = i]
  /\ IF Found(from[t])
     THEN /\ refcount' = [counts EXCEPT ![j] = @ + 1]
          /\ ref2' = [ref2 EXCEPT ![t] = j]
          /\ Goto(t, "rn_swap")
     ELSE /\ refcount' = counts
          /\ Goto(t, "release")
          /\ UNCHANGED ref2
  /\ UNCHANGED <<lsize, slot, file, cvwait, op, from, to, fresh>>

(* Mutants of RenumberSwap: the reference of the slot is not dropped; and the
   old descriptor goes on naming the file. *)
RenumberSwap_NoDecrement(t) ==
  /\ pc[t] = "rn_swap"
  /\ slot' = [slot EXCEPT ![to[t]] = ref2[t], ![from[t]] = Null]
  /\ Goto(t, "rn_release")
  /\ UNCHANGED <<lsize, refcount, file, cvwait, op, from, to, ref1, ref2, fresh>>

RenumberSwap_KeepsFrom(t) ==
  /\ pc[t] = "rn_swap"
  /\ refcount' = [refcount EXCEPT ![ref1[t]] = @ - 1]
  /\ slot' = [slot EXCEPT ![to[t]] = ref2[t]]
  /\ Goto(t, "rn_release")
  /\ UNCHANGED <<lsize, file, cvwait, op, from, to, ref1, ref2, fresh>>

(* fd_renumber, the rest of the critical section. *)
RenumberSwap(t) ==
  /\ pc[t] = "rn_swap"
  /\ refcount' = [refcount EXCEPT ![ref1[t]] = @ - 1]
  /\ slot' = [slot EXCEPT ![to[t]] = ref2[t], ![from[t]] = Null]
  /\ Goto(t, "rn_release")
  /\ UNCHANGED <<lsize, file, cvwait, op, from, to, ref1, ref2, fresh>>

(* It releases "from" before it closes the old "to". *)
RenumberRelease(t) ==
  /\ pc[t] = "rn_release"
  /\ Release(ref2[t])
  /\ ref2' = [ref2 EXCEPT ![t] = Null]
  /\ Goto(t, "detached")
  /\ UNCHANGED <<op, from, to, ref1, fresh>>

(* wasi_fdinfo_close, without the lock. *)
FdinfoClose(t) ==
  /\ pc[t] = "detached"
  /\ file' = [file EXCEPT ![ref1[t]] = "closed"]
  /\ Goto(t, "release")
  /\ UNCHANGED <<lsize, slot, refcount, cvwait, op, from, to, ref1, ref2, fresh>>

(* The releases at the end of a call: path_clear of both directories, the
   descriptors of poll_oneoff, the one that fd_close and fd_renumber closed. *)
CallRelease(t) ==
  /\ pc[t] = "release"
  /\ Release(ref1[t])
  /\ IF ref2[t] = Null THEN Finish(t)
     ELSE /\ Goto(t, "release2")
          /\ ref1' = [ref1 EXCEPT ![t] = Null]
          /\ UNCHANGED <<op, from, to, ref2, fresh>>

CallRelease2(t) ==
  /\ pc[t] = "release2"
  /\ Release(ref2[t])
  /\ Finish(t)

Progress(t) ==
  \/ SecondLookup(t) \/ ReaddirLock(t) \/ FdAdd(t)
  \/ op[t] \notin Blocking /\ EndUse(t)
  \/ DrainBadf(t) \/ DrainWait(t) \/ WaitEnd(t) \/ WaitCheck(t)
  \/ CloseDetach(t) \/ RenumberLookup(t) \/ RenumberSwap(t) \/ RenumberRelease(t)
  \/ FdinfoClose(t) \/ CallRelease(t) \/ CallRelease2(t)

(* A new call. *)
UserCall(t) ==
  \/ \E fd \in Fds :
       \/ FdStat(t, fd) \/ FdAdvise(t, fd) \/ FdReaddir(t, fd)
       \/ PathCall(t, fd) \/ PathOpen(t, fd)
       \/ \E gd \in Fds :
            PathLink(t, fd, gd) \/ PollOneoff(t, fd, gd) \/ RenumberCall(t, fd, gd)
       \/ \E i \in Infos : AddHostfd(t, fd, i) \/ AddHostfdFails(t, fd, i)
  \/ \E i \in Infos : PrestatAdd(t, i)

ThreadStep(t) ==
  \/ t \in Users /\ UserCall(t)
  \/ \E fd \in Fds : FdIo(t, fd) \/ CloseCall(t, fd)
  \/ \E i \in Infos : Opened(t, i)
  \/ op[t] \in Blocking /\ EndUse(t)
  \/ Progress(t)

Next == (\E t \in Threads : ThreadStep(t)) \/ TableClear

Spec == Init /\ [][Next]_vars

(* A call that can go on does, and a thread that waits for the mutex gets it
   (the mutex is free again and again); but a call that blocks may last for
   ever. *)
FairSpec == Spec /\ \A t \in Threads : SF_vars(Progress(t))

-----------------------------------------------------------------------------
Slots(i) == {fd \in Fds : slot[fd] = i}
Holders(i) == {t \in Threads : ref1[t] = i}
Sources(i) == {t \in Threads : ref2[t] = i}

(* A reference count is exactly the slot that names the file and the calls
   that hold a pointer to it: a file is freed with its last reference, and at
   wasi_table_clear every remaining one has a count of 1.  (The struct that a
   failed add_hostfd leaks is the subject of ReleaseHasReference.) *)
RefcountExact == TypeOK /\ \A i \in {j \in Infos : file[j] # "leaked"} :
  refcount[i] = Cardinality(Slots(i)) + Cardinality(Holders(i)) + Cardinality(Sources(i))

(* A file is closed by one call, and only after all others are done with it:
   nobody uses, and no descriptor names, a file that has been closed, and no
   call holds a pointer to one that has been freed. *)
OpenWhileReachable ==
  /\ \A fd \in Fds : slot[fd] # Null => file[slot[fd]] = "open"
  /\ \A t \in Threads :
       /\ pc[t] \in {"second", "using", "readdir", "opening"} =>
            \A i \in {ref1[t], ref2[t], fresh[t]} \ {Null} : file[i] = "open"
       /\ \A i \in {ref1[t], ref2[t]} \ {Null} : file[i] # "free"
       /\ pc[t] = "detached" => /\ file[ref1[t]] = "open"
                                /\ refcount[ref1[t]] = 1
                                /\ \A u \in Threads \ {t} :
                                     ref1[t] \notin {ref1[u], ref2[u], fresh[u]}

(* Two descriptors never name the same file, over any fd_renumber. *)
OneDescriptorPerFile == \A i \in Infos : Cardinality(Slots(i)) <= 1

(* Calls that close the same descriptors do not wait for one another: once no
   call is blocked in its host call and no new call is made, all of them
   end. *)
CloseEnds ==
  /\ <>[](\A t \in Threads : ~(pc[t] = "using" /\ op[t] \in Blocking))
  /\ <>[][\A t \in Threads : pc[t] = "idle" => pc'[t] = "idle"]_vars
  => <>[](\A t \in Threads : pc[t] = "idle")

(* wasi_fdinfo_release: assert(fdinfo->refcount > 0) before it decrements, so
   that no count wraps. *)
ReleaseHasReference == \A i \in Infos : refcount[i] >= 0

(* wasi_fd_renumber: assert(fdinfo_to->refcount == 2) once both descriptors
   have been looked up. *)
RenumberHasTwoReferences == \A t \in Threads :
  pc[t] = "rn_swap" => refcount[ref1[t]] = 2
=============================================================================
