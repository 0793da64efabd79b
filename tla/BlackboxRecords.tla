---------------------------- MODULE BlackboxRecords ----------------------------
(***************************************************************************)
(* The record array of the publish-timing blackbox                         *)
(* (src/include/blackbox.hpp): a fixed array of kBufN records that the     *)
(* grab thread fills in two steps, log_cbk before the ROS publish and      *)
(* log_pub after it.  The mapping, its writer thread and its file are not  *)
(* here: this module holds what a log call does to the array.              *)
(*                                                                         *)
(* Times are abstracted.  t_cbk_ns and t_pub_ns are the flags cap_done and *)
(* ros_done that the code sets in the same breath; t_capture_ns is the     *)
(* number of the frame whose capture time it is; header_stamp is the       *)
(* number of the frame the message shows.  A zero-filled record (the file  *)
(* comes from fallocate) is Blank.                                         *)
(***************************************************************************)
EXTENDS Naturals

CONSTANT kBufN          \* capacity of the array, 1 << 20 in the code
ASSUME kBufNAssumption == kBufN \in Nat \ {0}

VARIABLES idx,          \* Box::idx, index the next record asks for
          seq,          \* Box::seq, sequence number of the last record
          base          \* Box::base, the mapped array

boxVars == <<idx, seq, base>>

Slot == 0 .. kBufN - 1

\* The index of no record.  log_pub refuses every i >= kBufN, so one value will do.
SIZE_MAX == kBufN

ImagePubRecord == [seq : Nat, header_stamp : Nat, t_capture_ns : Nat,
                   cap_done : BOOLEAN, ros_done : BOOLEAN]

Blank == [seq |-> 0, header_stamp |-> 0, t_capture_ns |-> 0,
          cap_done |-> FALSE, ros_done |-> FALSE]

BoxTypeOK == /\ idx \in Nat
             /\ seq \in Nat
             /\ base \in [Slot -> ImagePubRecord]

BoxInit == /\ idx = 0
           /\ seq = 0
           /\ base = [i \in Slot |-> Blank]

\* A slip: the index is not checked against the capacity.
next_idx_unchecked == idx

\* What next_idx returns in this state: SIZE_MAX once the array is full.
next_idx == IF idx < kBufN THEN idx ELSE SIZE_MAX

(***************************************************************************)
(* log_cbk: idx advances on every call, also when the array is full; seq   *)
(* and the record only when there is a slot.  The caller keeps next_idx.   *)
(***************************************************************************)
log_cbk(header_stamp, t_capture) ==
  /\ idx' = idx + 1
  /\ IF idx < kBufN
     THEN /\ seq' = seq + 1
          /\ base' = [base EXCEPT ![idx] =
                        [seq |-> seq + 1, header_stamp |-> header_stamp,
                         t_capture_ns |-> t_capture,
                         cap_done |-> TRUE, ros_done |-> FALSE]]
     ELSE UNCHANGED <<seq, base>>

\* A slip that takes index 0 for "no record".
log_pub_zero_is_none(i) ==
  /\ base' = IF i \in Slot \ {0} THEN [base EXCEPT ![i].ros_done = TRUE] ELSE base
  /\ UNCHANGED <<idx, seq>>

\* log_pub: nothing for an index outside the array.
log_pub(i) ==
  /\ base' = IF i \in Slot THEN [base EXCEPT ![i].ros_done = TRUE] ELSE base
  /\ UNCHANGED <<idx, seq>>

================================================================================
