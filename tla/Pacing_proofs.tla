---------------------------- MODULE Pacing_proofs ----------------------------
(***************************************************************************)
(* The streamer's schedule holds as long as the product period * fid fits  *)
(* 32 bits: PacingWraps shows what happens after that.                     *)
(***************************************************************************)
EXTENDS Pacing, TLAPS

\* The inductive invariant.
IInv ==
  /\ ts \in Nat /\ fid \in 0 .. MaxFid + 1 /\ start \in Nat
  /\ start <= ts /\ start >= Period * fid
  /\ streamer = "pace" => fid <= MaxFid

\* The schedule of a frame that is sent does not wrap.
LEMMA ExpectedFits ==
  ASSUME Period \in Nat, Modulus \in Nat, MaxFid \in Nat,
         Period * (MaxFid + 1) < Modulus,
         NEW f \in 0 .. MaxFid + 1
  PROVE  Expected(f) = Period * f
<1>1. Period * f \in Nat /\ Period * f <= Period * (MaxFid + 1)
  OBVIOUS
<1>2. QED
  BY <1>1 DEF Expected

\* No frame is sent before its time, whatever the frames cost and however long
\* the sleeps take, if the time of the last one is less than 2^32 us.
THEOREM OnSchedule ==
  ASSUME Period \in Nat, Modulus \in Nat, MaxFid \in Nat, SleepMax \in Nat, WorkMax \in Nat,
         Period * (MaxFid + 1) < Modulus
  PROVE  Spec => []NotAheadOfSchedule
<1>1. Init => IInv
  BY DEF Init, IInv
<1>2. IInv /\ [Next]_vars => IInv'
  <2> SUFFICES ASSUME IInv, [Next]_vars PROVE IInv'
    OBVIOUS
  <2>1. CASE Work
    BY <2>1 DEF Work, IInv
  <2>2. CASE Sleep
    BY <2>2 DEF Sleep, IInv
  <2>3. CASE NextIteration
    <3>1. fid + 1 \in 0 .. MaxFid + 1 /\ ts \in Nat
      BY <2>3 DEF NextIteration, IInv
    <3>2. ts >= Period * (fid + 1)
      BY <2>3, <3>1, ExpectedFits DEF NextIteration
    <3>3. QED
      BY <2>3, <3>1, <3>2 DEF NextIteration, IInv
  <2>4. CASE UNCHANGED vars
    BY <2>4 DEF vars, IInv
  <2>5. QED
    BY <2>1, <2>2, <2>3, <2>4 DEF Next
<1>3. IInv => NotAheadOfSchedule
  BY DEF IInv, NotAheadOfSchedule
<1>4. QED
  BY <1>1, <1>2, <1>3, PTL DEF Spec
=============================================================================
