------------------------------- MODULE MCMyFS -------------------------------
(***************************************************************************)
(* The file system for TLC: MyFS with the constants of the .cfg (the part  *)
(* "files"), and two more instances of it on variables of their own, in    *)
(* which the process dies, and in which an open file is unlinked.  In a    *)
(* behaviour one of the Parts moves; the others stay in their first state. *)
(***************************************************************************)
EXTENDS MyFS, TLC

CONSTANTS Parts   \* of "files", "crash", "busy"

Symmetry == Permutations(Ult)

\* "a" is a prefix of "ab".
Prefixes == {<<"a", "a">>, <<"ab", "ab">>, <<"a", "ab">>}

VARIABLES
  part,
  b_name, b_block, b_n_block, b_free_blocks, b_rp, b_wp, b_flags,
  b_ref_count, b_myfs_mutex, b_file_mutex, b_fds, b_pc, b_ctx

\* The process dies and mounts again; two files of one block, two blocks.
Crash == INSTANCE MyFS WITH
  NUM_BLOCKS <- 3, MYFS_MAX_FILES <- 2, MYFS_MAX_BLOCKS_PER_FILE <- 1, Breaks <- {"crash"},
  name <- b_name, block <- b_block, n_block <- b_n_block, free_blocks <- b_free_blocks,
  free_blocks_rp <- b_rp, free_blocks_wp <- b_wp, flags <- b_flags, ref_count <- b_ref_count,
  myfs_mutex <- b_myfs_mutex, file_mutex <- b_file_mutex, fds <- b_fds, pc <- b_pc, ctx <- b_ctx
\* One file of one block, unlinked while it is open.
Busy == INSTANCE MyFS WITH
  Name <- {"a"}, PrefixOf <- {<<"a", "a">>}, RefMod <- 2,
  NUM_BLOCKS <- 3, MYFS_MAX_FILES <- 1, MYFS_MAX_BLOCKS_PER_FILE <- 1, Breaks <- {"busy"},
  name <- b_name, block <- b_block, n_block <- b_n_block, free_blocks <- b_free_blocks,
  free_blocks_rp <- b_rp, free_blocks_wp <- b_wp, flags <- b_flags, ref_count <- b_ref_count,
  myfs_mutex <- b_myfs_mutex, file_mutex <- b_file_mutex, fds <- b_fds, pc <- b_pc, ctx <- b_ctx

ASSUME MyFSAssumption /\ Crash!MyFSAssumption /\ Busy!MyFSAssumption

brokenVars == <<b_name, b_block, b_n_block, b_free_blocks, b_rp, b_wp, b_flags, b_ref_count,
                b_myfs_mutex, b_file_mutex, b_fds, b_pc, b_ctx>>

MCInit == /\ part \in Parts /\ Init
          /\ IF part = "busy" THEN Busy!Init ELSE Crash!Init

MCNext == /\ UNCHANGED part
          /\ \/ part = "files" /\ Next /\ UNCHANGED brokenVars
             \/ part = "crash" /\ Crash!Next /\ UNCHANGED vars
             \/ part = "busy" /\ Busy!Next /\ UNCHANGED vars

MCSpec == MCInit /\ [][MCNext]_<<part, vars, brokenVars>>

-----------------------------------------------------------------------------
(* Properties of the two other instances.                                    *)

\* After the process died and mounted the superblock again, no block belongs to
\* two file positions (a block may be lost).
NoSharedAfterCrash == part = "crash" => Crash!NoSharedBlock

\* The locks of myfs never leave every ULT waiting, also when the end of a call
\* unlinks a file that is open.
BusyNeverDeadlocks == part = "busy" => Busy!LocksNeverDeadlock
=============================================================================
