------------------------------- MODULE GnssUsb -------------------------------
(***************************************************************************)
(* The USB connection of the GNSS driver: the timer that initialises it,   *)
(* the thread that handles libusb's events (hot plug and transfers), the   *)
(* queue of transfers, and the device, which is plugged in and out at any  *)
(* moment.  The bytes that are transferred are left out.                   *)
(***************************************************************************)
EXTENDS Naturals, Sequences

CONSTANTS MaxPlugEvents,  \* hot plug events waiting at a time
          MaxWrites       \* writes in flight at a time

ASSUME UsbAssumption == MaxPlugEvents \in Nat \ {0} /\ MaxWrites \in Nat

VARIABLES
    plugged,     \* a receiver is plugged in
    link,        \* the receiver that devh_ belongs to is still there
    plugEvents,  \* libusb's hot plug events that are not handled yet
    devh,        \* devh_ is not null
    attached,    \* attached_
    initTimer,   \* usb_init_timer_ and its callback
    hot,         \* the callback of a hot plug event
    reads,       \* IN transfers in flight
    stuck,       \* IN transfers that have ended and count as outstanding
    writes,      \* OUT transfers in flight
    before,      \* has_been_connected_before_
    up,          \* usbc_ exists and the node runs
    served,      \* the receiver that is attached has been asked for data
    flaws        \* what has gone wrong for good (not a variable of the code)

usbVars == <<plugged, link, plugEvents, devh, attached, initTimer, hot, reads, stuck, writes,
             before, up, served, flaws>>
device == <<plugged, plugEvents>>
transfers == <<reads, stuck, writes>>

UsbTypeOK ==
    /\ {plugged, link, devh, attached, before, up, served} \subseteq BOOLEAN
    /\ plugEvents \in Seq({"arrived", "left"}) /\ Len(plugEvents) <= MaxPlugEvents
    /\ initTimer \in {"new", "idle", "submit", "off"}
    /\ hot \in {"idle", "opening", "init"}
    /\ reads \in 0..2 /\ stuck \in 0..4 /\ writes \in 0..MaxWrites
    /\ flaws \subseteq {"garbage", "failed", "silent", "cut"}

\* The constructor gives attached_ no value.
UsbInit ==
    /\ plugged \in BOOLEAN /\ link = FALSE /\ plugEvents = <<>>
    /\ devh = FALSE /\ attached \in BOOLEAN
    /\ initTimer = "new" /\ hot = "idle"
    /\ reads = 0 /\ stuck = 0 /\ writes = 0
    /\ before = FALSE /\ up = TRUE /\ served = FALSE
    /\ flaws = IF attached THEN {"garbage"} ELSE {}

-----------------------------------------------------------------------------
(* The receiver.  libusb reports it once the callbacks are registered. *)

Reports(event) ==
    plugEvents' = IF initTimer = "new" THEN plugEvents ELSE Append(plugEvents, event)

Plug ==
    /\ ~plugged /\ Len(plugEvents) < MaxPlugEvents
    /\ plugged' = TRUE /\ Reports("arrived")
    /\ UNCHANGED <<link, devh, attached, initTimer, hot, transfers, before, up, served, flaws>>

Unplug ==
    /\ plugged /\ Len(plugEvents) < MaxPlugEvents
    /\ plugged' = FALSE /\ link' = FALSE /\ Reports("left")
    /\ UNCHANGED <<devh, attached, initTimer, hot, transfers, before, up, served, flaws>>

\* perform_usb_initialization() catches every exception: the node shuts down.
Fatal ==
    /\ up' = FALSE
    /\ UNCHANGED <<link, devh, attached, transfers, before, served, flaws>>

\* init_async(): the first read, when a receiver is attached.
Submits ==
    /\ attached /\ link
    /\ reads' = reads + 1 /\ served' = TRUE
    /\ UNCHANGED <<link, devh, attached, stuck, writes, before, up, flaws>>

-----------------------------------------------------------------------------
(* The init timer. *)

\* The first tick registers the callbacks: libusb calls the one for arrivals
\* there and then for a receiver that is plugged in.
TimerInit ==
    /\ initTimer = "new" /\ initTimer' = "idle"
    /\ \/ (~plugged \/ attached) /\ UNCHANGED <<link, devh, attached, transfers, before, up, served, flaws>>
       \/ /\ plugged /\ ~attached
          /\ devh' = TRUE /\ link' = TRUE /\ attached' = TRUE /\ before' = TRUE
          /\ UNCHANGED <<transfers, up, served, flaws>>
       \/ plugged /\ ~attached /\ Fatal
    /\ UNCHANGED <<device, hot>>

\* A tick looks for a handle: without one it waits for the next.
TimerCheck ==
    /\ initTimer = "idle" /\ devh
    /\ initTimer' = "submit"
    /\ UNCHANGED <<device, link, devh, attached, hot, transfers, before, up, served, flaws>>

\* submit_transfer() does nothing while attached_ is false, and says nothing.
TimerSubmit ==
    /\ initTimer = "submit" /\ initTimer' = "off"
    /\ \/ devh /\ Submits
       \/ /\ devh /\ ~attached
          /\ flaws' = flaws \union {"silent"}
          /\ UNCHANGED <<link, devh, attached, transfers, before, up, served>>
       \/ (~devh \/ (attached /\ ~link)) /\ Fatal
    /\ UNCHANGED <<device, hot>>

TimerTask == TimerInit \/ TimerCheck \/ TimerSubmit

-----------------------------------------------------------------------------
(* Hot plug events, in the thread that calls handle_usb_events(). *)

Handles(event) ==
    /\ hot = "idle" /\ plugEvents # <<>> /\ Head(plugEvents) = event
    /\ plugEvents' = Tail(plugEvents) /\ plugged' = plugged

\* The transfers of a handle that was not closed are never marked as completed.
Orphaned == reads' = 0 /\ stuck' = stuck + reads /\ writes' = 0

\* Whatever is plugged in is opened, or, when nothing is or it cannot be, the
\* exception is logged.
HotArrived ==
    /\ Handles("arrived")
    /\ \/ attached /\ UNCHANGED <<link, devh, hot, transfers, flaws>>
       \/ /\ ~attached /\ plugged
          /\ devh' = TRUE /\ link' = TRUE /\ hot' = "opening" /\ UNCHANGED flaws
          /\ Orphaned
       \/ /\ ~attached /\ devh' = FALSE /\ link' = FALSE /\ UNCHANGED hot
          /\ flaws' = IF plugged THEN flaws \union {"failed"} ELSE flaws
          /\ Orphaned
    /\ UNCHANGED <<attached, initTimer, before, up, served>>

\* The rest of open_device() may throw when devh_ is set already.
HotFails ==
    /\ hot = "opening" /\ hot' = "idle"
    /\ flaws' = IF link THEN flaws \union {"failed"} ELSE flaws
    /\ UNCHANGED <<device, link, devh, attached, initTimer, transfers, before, up, served>>

\* Mutant: every connection leaves the initialisation to the timer.
MutAfterAttach == "idle"

\* The first connection leaves the initialisation to the timer.
AfterAttach == IF before THEN "init" ELSE "idle"

HotAttached ==
    /\ hot = "opening" /\ hot' = AfterAttach
    /\ attached' = TRUE /\ before' = TRUE /\ served' = FALSE
    /\ UNCHANGED <<device, link, devh, initTimer, transfers, up, flaws>>

HotInit ==
    /\ hot = "init" /\ hot' = "idle"
    /\ \/ Submits /\ initTimer' = IF initTimer = "idle" THEN "off" ELSE initTimer
       \/ ~link /\ Fatal /\ UNCHANGED initTimer
    /\ UNCHANGED device

\* cleanup_all_transfers(): the transfers are cancelled and the queue emptied.
NoTransfers == reads' = 0 /\ stuck' = 0 /\ writes' = 0

\* close_devh(): libusb_close() forgets what is still in flight.
Closed == NoTransfers /\ devh' = FALSE /\ link' = FALSE

HotLeft ==
    /\ Handles("left")
    /\ \/ attached /\ attached' = FALSE /\ served' = FALSE /\ Closed
       \/ ~attached /\ UNCHANGED <<attached, devh, link, served, transfers>>
    /\ UNCHANGED <<initTimer, hot, before, up, flaws>>

HotTask == HotArrived \/ HotFails \/ HotAttached \/ HotInit \/ HotLeft

\* libusb_handle_events_timeout() says three times that there is no device; once
\* in a behaviour, a bound.
NoDevice ==
    /\ hot = "idle" /\ attached /\ devh /\ ~link /\ "cut" \notin flaws
    /\ attached' = FALSE /\ served' = FALSE
    /\ flaws' = flaws \union {"cut"}
    /\ UNCHANGED <<device, link, devh, initTimer, hot, transfers, before, up>>

-----------------------------------------------------------------------------
(* Transfers, whose callbacks run in the same thread. *)

Outstanding(n) == n + stuck

\* Both callbacks queue a read when none is outstanding; a submission that fails
\* is logged.
Requeued(n) == IF attached /\ link /\ Outstanding(n) = 0 THEN 1 ELSE n

InDone ==
    /\ hot = "idle" /\ reads > 0
    /\ reads' = Requeued(reads - 1)
    /\ UNCHANGED <<device, link, devh, attached, initTimer, hot, stuck, writes, before, up, served, flaws>>

\* The callback returns before it marks the transfer as completed.
InNoDevice ==
    /\ hot = "idle" /\ reads > 0 /\ ~link
    /\ reads' = reads - 1 /\ stuck' = stuck + 1
    /\ UNCHANGED <<device, link, devh, attached, initTimer, hot, writes, before, up, served, flaws>>

OutDone ==
    /\ hot = "idle" /\ writes > 0
    /\ writes' = writes - 1 /\ reads' = Requeued(reads)
    /\ UNCHANGED <<device, link, devh, attached, initTimer, hot, stuck, before, up, served, flaws>>

OutFails ==
    /\ hot = "idle" /\ writes > 0
    /\ writes' = writes - 1
    /\ UNCHANGED <<device, link, devh, attached, initTimer, hot, reads, stuck, before, up, served, flaws>>

\* A poll, a correction or a configuration is sent by another thread.
Write ==
    /\ attached /\ link /\ writes < MaxWrites
    /\ writes' = writes + 1
    /\ UNCHANGED <<device, link, devh, attached, initTimer, hot, reads, stuck, before, up, served, flaws>>

-----------------------------------------------------------------------------
UsbNext ==
    \/ Plug \/ Unplug
    \/ up /\ \/ TimerTask \/ HotTask \/ NoDevice
             \/ InDone \/ InNoDevice \/ OutDone \/ OutFails \/ Write

\* An attached receiver that has been asked for data is asked again and again:
\* a read is outstanding for as long as it is there, whatever becomes of the
\* single transfers, unless the connection was cut without being closed.
KeepsReading == served /\ attached /\ link /\ "cut" \notin flaws => reads > 0

\* A receiver that stays plugged in is read from in the end, however often it
\* was plugged in and out before, when opening it did not fail, no
\* initialisation was lost and attached_ happened to start out false.
GetsServed == <>[](plugged /\ up /\ flaws = {}) => <>[]served

GnssReads == []KeepsReading /\ GetsServed
=============================================================================
