----------------------------- MODULE MCBusAdapter -----------------------------
(* Instances of the bus adapter for TLC. *)
EXTENDS BusAdapter

CONSTANTS main, usb_isr, timer_isr

TwoHandlers == {usb_isr, timer_isr}
ByHandler == [c \in Contexts |-> IF c = main THEN 0 ELSE IF c = usb_isr THEN 1 ELSE 2]
=============================================================================
