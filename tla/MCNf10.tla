-------------------------------- MODULE MCNf10 -------------------------------
(* Two ports; each budget lets one side of the driver be busy.              *)
EXTENDS Nf10

Budget(sizes, tx_, rx_, regs, toggles, faults, remove) ==
  [sizes |-> sizes, tx |-> tx_, rx |-> rx_, regs |-> regs,
   toggles |-> toggles, faults |-> faults, remove |-> remove]

\* Frames of two sizes from two ports, more frames than the ring has slots, a
\* mapping or an allocation that fails, receiving, removal, and registers.
MCBudgets == { Budget({1, 2}, 2, 0, 0, 2, 0, 0),
               Budget({1}, 3, 0, 0, 1, 0, 0),
               Budget({1}, 2, 0, 0, 1, 1, 0),
               Budget({1}, 0, 3, 0, 0, 1, 0),
               Budget({1}, 1, 1, 0, 1, 0, 1),
               Budget({1}, 0, 0, 7, 0, 0, 0) }
=============================================================================
