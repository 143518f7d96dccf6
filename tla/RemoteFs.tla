------------------------------- MODULE RemoteFs -------------------------------
(***************************************************************************)
(* The remote file system of examples/remote-fs: the services remote_fs and*)
(* remote_file of the server, which keep directories, iterators and files  *)
(* under handles, and the objects of the client that own the handles.      *)
(*                                                                         *)
(* Each thread of the client makes one call at a time, and the calls of    *)
(* several threads run side by side on the server.  An object is destroyed *)
(* when nobody uses it, and its destructor closes its handle.  Copies of a *)
(* directory iterator share one position, and iter_clone answers with the  *)
(* handle of the original, so a clone and its original are two owners of   *)
(* one handle while the new handle has none.                               *)
(***************************************************************************)
EXTENDS Naturals, FiniteSets

CONSTANTS
  MaxObjects,   \* bound: objects the client makes
  MaxHandles,   \* bound: handles the service remote_fs gives out
  Entries       \* bound: entries of a directory

Threads == {"c1", "c2"}
Objects == 1..MaxObjects
None == 0

VARIABLES
  handle_index_,  \* the last handle of remote_fs, counted from 0 instead of 100
  file_index_,    \* the last handle of remote_file, which counts its own
  fs_inst_, iterators_, files_,   \* the handles in the maps of the services
  shares,         \* handle -> the handle whose iterator it is a copy of
  position,       \* handle -> entries its iterator has passed
  object,         \* the client's objects: [kind, hdl, end, live]
  call,           \* thread -> its call: [op, on]
  cloned,         \* history: handles that were cloned
  beyond          \* history: handles whose iterator was moved past the end

vars == <<handle_index_, file_index_, fs_inst_, iterators_, files_, shares, position,
          object, call, cloned, beyond>>

NoObject == [kind |-> "none", hdl |-> None, end |-> FALSE, live |-> FALSE]
NoCall == [op |-> "none", on |-> None]
Handles == 1..MaxHandles

Init ==
  /\ handle_index_ = 0 /\ file_index_ = 0 /\ fs_inst_ = {} /\ iterators_ = {} /\ files_ = {}
  /\ shares = [h \in Handles |-> h] /\ position = [h \in Handles |-> 0]
  /\ object = [o \in Objects |-> NoObject]
  /\ call = [c \in Threads |-> NoCall]
  /\ cloned = {} /\ beyond = {}

Fresh(o) == object[o].kind = "none" /\ \A p \in 1..(o - 1) : object[p].kind # "none"
Idle(c) == call[c] = NoCall
InUse(o) == \E c \in Threads : call[c].on = o
Owns(o, kind) == object[o].live /\ object[o].kind = kind
MakesObject(o, kind, h, end) ==
  object' = [object EXCEPT ![o] = [kind |-> kind, hdl |-> h, end |-> end, live |-> TRUE]]

------------------------------------------------------------------------------
(* The services.  next_index is ++handle_index_.                            *)

next_index == handle_index_ + 1

\* path_from_request: an absolute path takes a new handle that nobody uses, a
\* relative one needs the directory of the request; n is the last index then.
path_from_request(h, n) == n = next_index \/ (h \in fs_inst_ /\ n = handle_index_)

\* pwd, exists, file_size, info, mkdir and del use the path; cd changes it.
path_call(h) ==
  /\ \E n \in Handles : path_from_request(h, n) /\ handle_index_' = n
  /\ UNCHANGED <<fs_inst_, iterators_>>

open == handle_index_' = next_index /\ fs_inst_' = fs_inst_ \cup {next_index}

open_file == file_index_' = file_index_ + 1 /\ files_' = files_ \cup {file_index_'}

\* Mutant: the iterator is kept under the handle of the directory.
iter_begin_same(h, i) ==
  /\ \E n \in Handles : path_from_request(h, n) /\ i = n + 1
  /\ handle_index_' = i
  /\ iterators_' = iterators_ \cup {h}

\* iter_begin: i is a new handle, for a new iterator.
iter_begin(h, i) ==
  /\ \E n \in Handles : path_from_request(h, n) /\ i = n + 1
  /\ handle_index_' = i
  /\ iterators_' = iterators_ \cup {i}

iter_from_request(h) == h \in iterators_

\* iter_clone: the copy gets a new handle; the answer names the old one.
iter_clone(h) ==
  /\ iter_from_request(h)
  /\ handle_index_' = next_index
  /\ iterators_' = iterators_ \cup {next_index}
  /\ shares' = [shares EXCEPT ![next_index] = shares[h]]

\* iter_next takes a copy under the lock and moves it ...
iter_next(h) ==
  /\ iter_from_request(h)
  /\ position' = [position EXCEPT ![shares[h]] = IF @ < Entries THEN @ + 1 ELSE @]
  /\ beyond' = IF position[shares[h]] = Entries THEN beyond \cup {h} ELSE beyond

\* Mutant: the iterator is put back under a new handle.
put_back_new(h) == iterators_' = (iterators_ \ {h}) \cup {next_index}

\* ... and puts it back under the lock, whether the handle is still there or
\* not.
put_back(h) == iterators_' = iterators_ \cup {h}

close_file(h) == files_' = files_ \ {h}

\* close looks for a directory under one lock ...
close(h) == fs_inst_' = fs_inst_ \ {h}

\* ... and, if there was none, for an iterator under the other.
close_iterator(h) == iterators_' = iterators_ \ {h}

------------------------------------------------------------------------------
(* The objects of the client.                                               *)

create_remote_fs(c, o) ==
  /\ Idle(c) /\ Fresh(o) /\ next_index \in Handles
  /\ open
  /\ MakesObject(o, "fs", next_index, FALSE)
  /\ UNCHANGED <<file_index_, iterators_, files_, shares, position, call, cloned, beyond>>

\* create_remote_file: if fopen fails, the constructor throws.
create_remote_file(c, o) ==
  /\ Idle(c) /\ Fresh(o)
  /\ open_file
  /\ MakesObject(o, "file", file_index_', FALSE)
  /\ UNCHANGED <<handle_index_, fs_inst_, iterators_, shares, position, call, cloned, beyond>>

begin_iterator(c, d, o) ==
  /\ Idle(c) /\ Owns(d, "fs") /\ Fresh(o)
  /\ \E i \in Handles, empty \in BOOLEAN :
       /\ iter_begin(object[d].hdl, i)
       /\ MakesObject(o, "iter", i, empty)
       /\ position' = [position EXCEPT ![i] = IF empty THEN Entries ELSE 0]
  /\ UNCHANGED <<file_index_, fs_inst_, files_, shares, call, cloned, beyond>>

\* cd, pwd, exists, info, file_size, mkdir and del of a directory.
fs_call(c, d) ==
  /\ Idle(c) /\ Owns(d, "fs")
  /\ path_call(object[d].hdl)
  /\ UNCHANGED <<file_index_, files_, shares, position, object, call, cloned, beyond>>

\* next: the loops of the client ask end first.  The call throws if the handle
\* is not known.
next(c, o) ==
  /\ Idle(c) /\ Owns(o, "iter") /\ ~object[o].end /\ ~InUse(o)
  /\ IF object[o].hdl \in iterators_
       THEN iter_next(object[o].hdl) /\ call' = [call EXCEPT ![c] = [op |-> "next", on |-> o]]
       ELSE UNCHANGED <<position, beyond, call>>
  /\ UNCHANGED <<handle_index_, file_index_, fs_inst_, iterators_, files_, shares, object, cloned>>

next_returns(c) ==
  /\ call[c].op = "next"
  /\ put_back(object[call[c].on].hdl)
  /\ object' = [object EXCEPT ![call[c].on].end = (position[shares[object[call[c].on].hdl]] = Entries)]
  /\ call' = [call EXCEPT ![c] = NoCall]
  /\ UNCHANGED <<handle_index_, file_index_, fs_inst_, files_, shares, position, cloned, beyond>>

clone(c, o, n) ==
  /\ Idle(c) /\ Owns(o, "iter") /\ Fresh(n) /\ next_index \in Handles
  /\ iter_clone(object[o].hdl)
  /\ MakesObject(n, "iter", object[o].hdl, position[shares[object[o].hdl]] = Entries)
  /\ cloned' = cloned \cup {object[o].hdl}
  /\ UNCHANGED <<file_index_, fs_inst_, files_, position, call, beyond>>

\* The rest of a close that found no directory.
Closing(c, o) == call' = [call EXCEPT ![c] = [op |-> "close", on |-> o]]

\* The destructor of a directory closes its handle, and that of an iterator.
close_handle(c, o) ==
  /\ close(object[o].hdl) /\ UNCHANGED files_
  /\ IF object[o].hdl \in fs_inst_ THEN UNCHANGED call ELSE Closing(c, o)

\* Mutant: the destructor of a file closes in the wrong service.
destroy_fs(c, o) ==
  /\ Idle(c) /\ object[o].live /\ ~InUse(o)
  /\ close_handle(c, o)
  /\ object' = [object EXCEPT ![o].live = FALSE]
  /\ UNCHANGED <<handle_index_, file_index_, iterators_, shares, position, cloned, beyond>>

\* The destructors close the handle.
destroy(c, o) ==
  /\ Idle(c) /\ object[o].live /\ ~InUse(o)
  /\ IF object[o].kind = "file"
       THEN close_file(object[o].hdl) /\ UNCHANGED <<fs_inst_, call>>
       ELSE close_handle(c, o)
  /\ object' = [object EXCEPT ![o].live = FALSE]
  /\ UNCHANGED <<handle_index_, file_index_, iterators_, shares, position, cloned, beyond>>

close_returns(c) ==
  /\ call[c].op = "close"
  /\ close_iterator(object[call[c].on].hdl)
  /\ call' = [call EXCEPT ![c] = NoCall]
  /\ UNCHANGED <<handle_index_, file_index_, fs_inst_, files_, shares, position, object, cloned, beyond>>

Next ==
  \E c \in Threads :
    \/ next_returns(c) \/ close_returns(c)
    \/ \E o \in Objects :
         \/ create_remote_fs(c, o) \/ create_remote_file(c, o)
         \/ fs_call(c, o) \/ next(c, o) \/ destroy(c, o)
         \/ \E n \in Objects : begin_iterator(c, o, n) \/ clone(c, o, n)

Spec == Init /\ [][Next]_vars

------------------------------------------------------------------------------
(* Properties.                                                              *)

\* An object of this kind owns the handle, or its destructor is closing it.
Owned(h, kind) ==
  \E o \in Objects :
    /\ object[o].kind = kind /\ object[o].hdl = h
    /\ object[o].live \/ InUse(o)
IsClone(h) == shares[h] # h

\* Every live object has its handle on the server, except an iterator that
\* shared it through clone with one that is destroyed; and only shared iterators
\* are moved past the end of their directory.
OwnersServed ==
  /\ \A o \in Objects :
       /\ Owns(o, "fs") => object[o].hdl \in fs_inst_
       /\ Owns(o, "file") => object[o].hdl \in files_
       /\ Owns(o, "iter") /\ object[o].hdl \notin iterators_ =>
            \E p \in Objects : object[p].kind = "iter" /\ object[p].hdl = object[o].hdl /\ ~object[p].live
  /\ beyond \subseteq cloned

\* The server keeps nothing that no object owns, except the copies clone made,
\* whose handles nobody is told: an iterator that next puts back after another
\* owner closed it is still closed by the owner that called next.
NothingLeft ==
  /\ \A h \in fs_inst_ : Owned(h, "fs")
  /\ \A h \in files_ : Owned(h, "file")
  /\ \A h \in iterators_ : Owned(h, "iter") \/ IsClone(h)
==============================================================================
