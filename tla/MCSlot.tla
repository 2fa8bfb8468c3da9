------------------------------- MODULE MCSlot -------------------------------
(* TLC instances of Slot: the cfg files choose the constants. *)
EXTENDS Slot, TLC

\* Threads of a kind and process ids are interchangeable.
Symmetry ==
    Permutations(Handlers) \cup Permutations(Recoverers) \cup Permutations(Pids)

\* Kinds of slots.json entries.
NoGpio == {[gpio_boot |-> FALSE, usb_device |-> TRUE]}
WithGpio == {[gpio_boot |-> TRUE, usb_device |-> TRUE]}
EitherGpio == NoGpio \cup WithGpio
AnyConfig == Config
=============================================================================
