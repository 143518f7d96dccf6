----------------------------- MODULE FileTransfer -----------------------------
(***************************************************************************)
(* The transfers of the client of examples/remote-fs: push_file and        *)
(* pull_file move a file block by block, push_tree and pull_tree walk a    *)
(* directory and transfer the files in it.                                 *)
(*                                                                         *)
(* The tree is a root with the files "a" and "b" and a directory "d" with  *)
(* the file "c".  A call may throw; pull_tree catches what a directory     *)
(* throws and goes on after it, push_tree does not.  A write stores as much*)
(* as the file system of the server takes, which may be nothing; readsome  *)
(* of the local stream returns what its buffer holds, which may be nothing *)
(* before the end, and fread returns nothing at the end and after an error.*)
(* pull_file asks the local stream neither after open nor after write      *)
(* whether it failed; one that did takes nothing any more.                 *)
(***************************************************************************)
EXTENDS Naturals, Sequences, SequencesExt

CONSTANTS
  Size,              \* bytes of every file
  block_size,        \* of the transfer
  max_block_length   \* of one message

Content == [i \in 1..Size |-> i]
Files == {"a", "b", "c"}
FilesOf == [root |-> {"a", "b"}, d |-> {"c"}]

VARIABLES
  how,     \* "push" or "pull"
  walk,    \* the directories being walked, the innermost first: [dir, todo]
  file,    \* the file in transfer, or "none"
  block,   \* the bytes read and not yet written
  at,      \* how far the source was read
  sink,    \* file -> what has been stored of it
  made,    \* directories made at the destination
  short,   \* history: files whose source read nothing before its end
  lost,    \* history: directories that were given up after an exception
  full,    \* the file system of the server takes nothing any more
  bad,     \* the files of a pull whose local stream failed
  state    \* "on", "done" or "thrown"

vars == <<how, walk, file, block, at, sink, made, short, lost, full, bad, state>>

Enter(dir) == [dir |-> dir, todo |-> FilesOf[dir] \cup (IF dir = "root" THEN {"d"} ELSE {})]

\* mkdir, or create_directories, comes before the first entry.
Init ==
  /\ how \in {"push", "pull"}
  /\ walk = <<Enter("root")>> /\ made = {"root"}
  /\ file = "none" /\ block = <<>> /\ at = 0 /\ full = FALSE
  /\ sink = [f \in Files |-> <<>>] /\ short = {} /\ lost = {} /\ bad = {} /\ state = "on"

On == state = "on"

------------------------------------------------------------------------------
(* The walk: push_tree_impl and pull_tree.                                  *)

\* A file is opened, or the call throws.  The local file of a pull may not open.
OpenFile ==
  /\ On /\ file = "none" /\ walk # <<>>
  /\ \E f \in walk[1].todo \cap Files :
       /\ file' = f
       /\ walk' = [walk EXCEPT ![1].todo = @ \ {f}]
       /\ \/ UNCHANGED bad
          \/ how = "pull" /\ bad' = bad \cup {f}
  /\ block' = <<>> /\ at' = 0
  /\ UNCHANGED <<how, sink, made, short, lost, full, state>>

EnterDirectory ==
  /\ On /\ file = "none" /\ walk # <<>> /\ "d" \in walk[1].todo
  /\ walk' = <<Enter("d")>> \o [walk EXCEPT ![1].todo = @ \ {"d"}]
  /\ made' = made \cup {"d"}
  /\ UNCHANGED <<how, file, block, at, sink, short, lost, full, bad, state>>

LeaveDirectory ==
  /\ On /\ file = "none" /\ walk # <<>> /\ walk[1].todo = {}
  /\ walk' = Tail(walk)
  /\ state' = IF Len(walk) = 1 THEN "done" ELSE "on"
  /\ UNCHANGED <<how, file, block, at, sink, made, short, lost, full, bad>>

\* Mutant: an exception is caught where it happens.
Throws_caught ==
  /\ On
  /\ file' = "none" /\ block' = <<>>
  /\ UNCHANGED <<how, walk, at, sink, made, short, lost, full, bad, state>>

\* A remote call throws: pull_tree catches it in the directory above, the root
\* of a pull and every push end.
Throws ==
  /\ On
  /\ file' = "none" /\ block' = <<>>
  /\ IF how = "pull" /\ Len(walk) > 1
       THEN walk' = Tail(walk) /\ lost' = lost \cup {walk[1].dir} /\ UNCHANGED state
       ELSE state' = "thrown" /\ UNCHANGED <<walk, lost>>
  /\ UNCHANGED <<how, at, sink, made, short, full, bad>>

------------------------------------------------------------------------------
(* The transfer of a file: push_file and pull_file.                         *)

\* What one call of the remote file may read or write: the server cuts a read
\* to its limit, the client a write.
read_limit == IF how = "pull" THEN Min({block_size, max_block_length}) ELSE block_size
write_limit == Min({Len(block), max_block_length})

\* Mutant: a read of nothing does not end the loop.
read_on ==
  /\ On /\ file # "none" /\ block = <<>>
  /\ \E n \in 0..Min({Size - at, read_limit}) :
       /\ block' = SubSeq(Content, at + 1, at + n)
       /\ at' = at + n
       /\ file' = file
       /\ short' = IF n = 0 /\ at < Size THEN short \cup {file} ELSE short
  /\ UNCHANGED <<how, walk, sink, made, lost, full, bad, state>>

\* readsome, or remote read: up to a block; nothing ends the loop.
read ==
  /\ On /\ file # "none" /\ block = <<>>
  /\ \E n \in 0..Min({Size - at, read_limit}) :
       /\ block' = SubSeq(Content, at + 1, at + n)
       /\ at' = at + n
       /\ file' = IF n = 0 THEN "none" ELSE file
       /\ short' = IF n = 0 /\ at < Size THEN short \cup {file} ELSE short
  /\ UNCHANGED <<how, walk, sink, made, lost, full, bad, state>>

\* Mutant: the next message begins where the first one did.
remote_write_noshift ==
  \E w \in IF full THEN {0} ELSE 1..write_limit :
    /\ sink' = [sink EXCEPT ![file] = @ \o SubSeq(block, 1, w)]
    /\ block' = SubSeq(block, 1, Len(block) - w)

\* Mutant: what was not stored is not sent again.
remote_write_once ==
  \E w \in IF full THEN {0} ELSE 1..write_limit :
    /\ sink' = [sink EXCEPT ![file] = @ \o SubSeq(block, 1, w)]
    /\ block' = <<>>

\* The client cuts the block to a message, the server stores some of it, and the
\* loop goes on with the rest.
remote_write ==
  \E w \in IF full THEN {0} ELSE 1..write_limit :
    /\ sink' = [sink EXCEPT ![file] = @ \o SubSeq(block, 1, w)]
    /\ block' = SubSeq(block, w + 1, Len(block))

\* The stream of the local file takes the block, or it fails and takes nothing
\* any more; the loop goes on, and nobody asks.
local_write ==
  /\ \E w \in IF file \in bad THEN {0} ELSE 0..Len(block) :
       /\ sink' = [sink EXCEPT ![file] = @ \o SubSeq(block, 1, w)]
       /\ bad' = IF w < Len(block) THEN bad \cup {file} ELSE bad
  /\ block' = <<>>

write ==
  /\ On /\ file # "none" /\ block # <<>>
  /\ \/ how = "push" /\ remote_write /\ UNCHANGED bad
     \/ how = "pull" /\ local_write
  /\ UNCHANGED <<how, walk, file, at, made, short, lost, full, state>>

FillsUp ==
  /\ On /\ how = "push" /\ ~full
  /\ full' = TRUE
  /\ UNCHANGED <<how, walk, file, block, at, sink, made, short, lost, bad, state>>

Step == OpenFile \/ EnterDirectory \/ LeaveDirectory \/ read \/ write

Next == Step \/ Throws \/ FillsUp

Fairness == WF_vars(Step)

Spec == Init /\ [][Next]_vars /\ Fairness

------------------------------------------------------------------------------
(* Properties.                                                              *)

\* What is stored of a file is always a beginning of it, and when the transfer
\* says that it is complete, every file was stored whole, except in directories
\* that were given up and where the program does not ask: a source that read
\* nothing before its end, and a local stream that failed, over which pull_file
\* prints "Download complete" all the same.
CompleteMeansWhole ==
  /\ \A f \in Files : IsPrefix(sink[f], Content)
  /\ state = "done" =>
       \A f \in Files : sink[f] = Content \/ f \in short \cup bad \/ (f = "c" /\ "d" \in lost)

Ended == state # "on" \/ full

\* A transfer ends, unless the server's file system takes nothing any more:
\* then push_file sends the rest of its block for ever.
TransferEnds == (state = "on") ~> Ended
===============================================================================
