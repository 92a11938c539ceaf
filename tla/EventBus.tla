------------------------------ MODULE EventBus ------------------------------
(***************************************************************************)
(* The in-process event bus of internal/platform/eventbus.go: one buffered *)
(* Go channel that every publisher shares and one loop that takes the      *)
(* events out in order and starts a goroutine per subscribed handler.  The *)
(* handlers themselves are actions of the modules that use the bus.        *)
(***************************************************************************)
EXTENDS Naturals, Sequences

CONSTANT BusCapacity      \* NewEventBus(logger, 1000)

VARIABLE bus              \* the channel's buffer

BusInit == bus = <<>>

BusFull == Len(bus) >= BusCapacity

\* Publish: the select with a default drops the event when the buffer is full.
Publish(e) == bus' = IF BusFull THEN bus ELSE Append(bus, e)

\* Start takes the next event; a handler goroutine starts for each subscriber.
Take(e) == bus # <<>> /\ e = Head(bus) /\ bus' = Tail(bus)

\* The process stops: the channel is memory.
BusLost == bus' = <<>>
=============================================================================
