------------------------------ MODULE Clients ------------------------------
(***************************************************************************)
(* The two programs of the repository that use the C API the way it is     *)
(* meant: the C example (examples/c_api_basic_usage.c) and the Zig binding *)
(* as its own test drives it (bindings/zig/src/root.zig).  Both scan once, *)
(* and of each handle list the USB devices and ask for the main, display,  *)
(* FPGA and hub device; they differ in the order of the two, in how they   *)
(* take an error, in the buffers they pass and in who frees the handles.   *)
(*                                                                         *)
(* Every step is one call of the C API with what the program does with its *)
(* result.  Getters that read one USB device one after the other, with     *)
(* nothing in between, are one step.                                       *)
(***************************************************************************)
EXTENDS CApi, FixedCopy

CONSTANTS
  Room,             \* program -> length of the array it gives find_all
  ErrorBuffer,      \* program -> length of its error_message
  UsbBuffer,        \* length of the Zig test's usb_devices_buf
  PortChainBuffer,  \* length of the binding's port_chain_buf
  TextLength,       \* error text -> its length
  MaxUsb            \* bound on the USB devices of a handle

Program == {"c", "zig"}

\* What the getters of an iterator set say when there is no such USB device: one
\* text on a standalone device, another on a FreeWili.
Says == [of : {"main", "display", "fpga", "hub"}, standalone : BOOLEAN]

\* What is in error_message before anything was copied there.
Empty == [says |-> [of |-> "nothing", standalone |-> FALSE], length |-> 0]

ASSUME RoomAssumption == Room \in [Program -> 1..ArraySize]
ASSUME BufferAssumption ==
  /\ ErrorBuffer \in [Program -> Nat \ {0}]
  /\ UsbBuffer \in Nat \ {0}
  /\ PortChainBuffer \in Nat
\* Every scanner makes a device of a list that has the hub or the device itself.
ASSUME UsbAssumption ==
  /\ MaxUsb \in Nat
  /\ \A d \in Device : /\ Len(d.usbDevices) \in 1..MaxUsb
                       /\ \A k \in DOMAIN d.usbDevices : Len(d.usbDevices[k].portChain) \in Nat
ASSUME TextAssumption == TextLength \in [Says -> Nat]
ASSUME StandaloneAssumption == \A d \in Device : d.standalone \in BOOLEAN

VARIABLES
  program,             \* which of the two runs
  pc,                  \* its next call
  index,               \* the entry of `devices` it is at
  asked,               \* how many of the four iterator sets it asked that handle for
  usb_devices,         \* the positions the Zig binding has put in its buffer
  error_message_size,  \* the size it passes with error_message
  error_message,       \* the text in that buffer
  output               \* history: the lines it printed

errorVars == <<error_message_size, error_message>>

clientVars == <<vars, program, pc, index, asked, usb_devices, errorVars, output>>

Call == {"find_all", "is_valid", "set", "get set", "begin", "get", "next", "free", "done", "gave up"}

\* The order both ask in.
Sets == <<"main", "display", "fpga", "hub">>

\* Bound on the lines of output: no program has that much to say, but one that did
\* not end would.
MaxOutput == ArraySize * (MaxUsb + Len(Sets))

Current == devices[index]

\* The USB device the iterator of the current handle is on, counted from 1.
Usb == heap[Current].iter.pos + 1

NotFound(iter_set) ==
  LET says == [of |-> iter_set, standalone |-> heap[Current].device.standalone]
  IN  [says |-> says, length |-> TextLength[says]]

Listed(usb) == [handle |-> index, is |-> "listed", usb |-> usb]
Found(iter_set, usb) == [handle |-> index, is |-> "found", asked |-> iter_set, usb |-> usb]
Missing(iter_set, text) == [handle |-> index, is |-> "missing", asked |-> iter_set, text |-> text]
Unread(iter_set, text) == [handle |-> index, is |-> "unread", asked |-> iter_set, text |-> text]

Say(lines) ==
  output' = IF Len(output) + Len(lines) <= MaxOutput THEN output \o lines ELSE output

-----------------------------------------------------------------------------
(* Where a program goes on. *)

GoTo(call) == pc' = call /\ UNCHANGED index

\* Variant with a bug: one entry too many.
NextHandleBeyond ==
  /\ index' = index + 1
  /\ pc' = IF index <= count THEN "is_valid" ELSE IF program = "c" THEN "free" ELSE "done"

\* The entry after this one; after the last the C example frees what it got, the
\* Zig test just ends: the binding has no call to free a handle.
NextHandle ==
  /\ index' = index + 1
  /\ pc' = IF index < count THEN "is_valid" ELSE IF program = "c" THEN "free" ELSE "done"

\* The C example asks before it lists, the Zig test after.
Asked ==
  /\ asked' = asked + 1
  /\ IF asked + 1 < Len(Sets)
     THEN GoTo("set")
     ELSE IF program = "c" THEN GoTo("begin") ELSE NextHandle

\* get_usb_devices returned: the Zig test prints what it got and sets up a fresh
\* error_message for this handle.
ListingReturned ==
  /\ Say([k \in DOMAIN usb_devices |-> Listed(usb_devices[k])])
  /\ error_message_size' = ErrorBuffer[program]
  /\ error_message' = Empty
  /\ GoTo("set")

\* The getters of one USB device give all they are asked for.  The C example does
\* not ask for the port chain; the binding fails as a whole when it does not fit.
ReadWhole ==
  LET h == heap[Current]
  IN  /\ answer' = OnDeviceOf(Current)
      /\ (program = "zig" /\ OnDevice(h)) =>
           ChainFits(Len(h.device.usbDevices[Usb].portChain), PortChainBuffer)

-----------------------------------------------------------------------------
ClientInit ==
  /\ Init
  /\ program \in Program
  /\ pc = "find_all"
  /\ index = 1
  /\ asked = 0
  /\ usb_devices = <<>>
  /\ error_message_size = ErrorBuffer[program]
  /\ error_message = Empty
  /\ output = <<>>

\* Variant with a bug: the array is said to be one longer than it is.
FindDevicesBeyond ==
  /\ pc = "find_all"
  /\ \E found \in Scans : FindAll(Room[program] + 1, found)
  /\ pc' = IF count' > 0 THEN "is_valid" ELSE IF program = "c" THEN "free" ELSE "done"
  /\ UNCHANGED <<program, index, asked, usb_devices, errorVars, output>>

FindDevices ==
  /\ pc = "find_all"
  /\ \/ /\ \E found \in Scans : FindAll(Room[program], found)
        /\ pc' = IF count' > 0 THEN "is_valid" ELSE IF program = "c" THEN "free" ELSE "done"
     \/ Refused /\ pc' = "done"
  /\ UNCHANGED <<program, index, asked, usb_devices, errorVars, output>>

\* The C example asks is_valid, then the getters of the handle; the binding's
\* getters ask it themselves.
CheckHandle ==
  /\ pc = "is_valid"
  /\ IsValid(Current)
  /\ IF answer' = ValidSaid(Current)
     THEN GoTo(IF program = "c" THEN "set" ELSE "begin")
     ELSE IF program = "c" THEN NextHandle ELSE GoTo("gave up")
  /\ asked' = 0
  /\ UNCHANGED <<program, usb_devices, errorVars, output>>

\* fw_usb_device_set, and the error text it copies when there is no such device:
\* the size comes back as what that text took and goes into the next call.
AskFor(iter_set) ==
  /\ pc = "set" /\ iter_set = Sets[asked + 1]
  /\ \/ /\ SetDevice(Current, iter_set)
        /\ GoTo("get set")
        /\ UNCHANGED <<asked, errorVars, output>>
     \/ /\ Target(heap[Current].device, iter_set) = 0
        /\ Refused
        /\ IF CanCopy(error_message_size)
           THEN /\ error_message' = Copied(error_message_size, NotFound(iter_set))
                /\ error_message_size' = SizeAfter(error_message_size, NotFound(iter_set))
           ELSE UNCHANGED errorVars
        /\ Say(<<Missing(iter_set, error_message')>>)
        /\ Asked
  /\ UNCHANGED <<program, usb_devices>>

\* The device that was set is printed.  The C example prints nothing when it cannot
\* be read, the Zig test an error with whatever text is in the buffer.
PrintAsked(iter_set) ==
  /\ pc = "get set" /\ iter_set = Sets[asked + 1]
  /\ GetFromDevice(Current)
  /\ Say(IF ReadWhole THEN <<Found(iter_set, Usb)>>
         ELSE IF program = "c" THEN <<>> ELSE <<Unread(iter_set, error_message)>>)
  /\ Asked
  /\ UNCHANGED <<program, usb_devices, errorVars>>

BeginListing ==
  /\ pc = "begin"
  /\ Begin(Current)
  /\ GoTo("get")
  /\ usb_devices' = <<>>
  /\ UNCHANGED <<program, asked, errorVars, output>>

\* The C example prints the device at once; one it cannot read ends the handle.
PrintListed ==
  /\ pc = "get" /\ program = "c"
  /\ GetFromDevice(Current)
  /\ IF ReadWhole
     THEN Say(<<Listed(Usb)>>) /\ GoTo("next")
     ELSE UNCHANGED output /\ NextHandle
  /\ UNCHANGED <<program, asked, usb_devices, errorVars>>

\* USBDevice.from_device: one device that cannot be read fails get_usb_devices, and
\* with it the test.
ReadListed ==
  /\ pc = "get" /\ program = "zig" /\ Len(usb_devices) < UsbBuffer
  /\ GetFromDevice(Current)
  /\ IF ReadWhole
     THEN usb_devices' = Append(usb_devices, Usb) /\ GoTo("next")
     ELSE UNCHANGED usb_devices /\ GoTo("gave up")
  /\ UNCHANGED <<program, asked, errorVars, output>>

\* The caller's slice is full: no call, the rest is left out.
SliceFull ==
  /\ pc = "get" /\ program = "zig" /\ Len(usb_devices) = UsbBuffer
  /\ ListingReturned
  /\ UNCHANGED <<vars, program, asked, usb_devices>>

StepListing ==
  /\ pc = "next"
  /\ NextDevice(Current)
  /\ IF answer' = OnDeviceOf(Current)
     THEN GoTo("get") /\ UNCHANGED <<errorVars, output>>
     ELSE IF program = "c"
          THEN NextHandle /\ UNCHANGED <<errorVars, output>>
          ELSE ListingReturned
  /\ UNCHANGED <<program, asked, usb_devices>>

\* fw_device_free(devices, device_count); a count of 0 is an invalid parameter.
FreeDevices ==
  /\ pc = "free"
  /\ IF count > 0 THEN Free(count) ELSE Refused
  /\ GoTo("done")
  /\ UNCHANGED <<program, asked, usb_devices, errorVars, output>>

ClientNext ==
  \/ FindDevices
  \/ CheckHandle
  \/ \E iter_set \in Range(Sets) : AskFor(iter_set) \/ PrintAsked(iter_set)
  \/ BeginListing
  \/ PrintListed
  \/ ReadListed
  \/ SliceFull
  \/ StepListing
  \/ FreeDevices

\* Both programs are one thread that does not wait for anything: as long as there
\* is a next call it is made, and it returns.
ClientSpec == ClientInit /\ [][ClientNext]_clientVars /\ WF_clientVars(ClientNext)

-----------------------------------------------------------------------------
(* Properties. *)

Text == [says : Says \cup {Empty.says}, length : Nat]

IsLine(line) ==
  \/ line \in [handle : Nat, is : {"listed"}, usb : Nat]
  \/ line \in [handle : Nat, is : {"found"}, asked : Range(Sets), usb : Nat]
  \/ line \in [handle : Nat, is : {"missing", "unread"}, asked : Range(Sets), text : Text]

ClientTypeOK ==
  /\ TypeOK
  /\ program \in Program
  /\ pc \in Call
  /\ index \in 1..(ArraySize + 1)
  /\ asked \in 0..Len(Sets)
  /\ usb_devices \in Seq(Nat)
  /\ error_message_size \in 1..ErrorBuffer[program]
  /\ error_message \in Text /\ error_message.length < ErrorBuffer[program]
  /\ \A k \in DOMAIN output : IsLine(output[k])

Ended == pc \in {"done", "gave up"}

\* The handles the program is through with and has not freed yet.
Through == IF program = "c" /\ Ended THEN {} ELSE 1..(index - 1)

\* Where in the output the lines of a kind about a handle are.
LinesOf(j, kinds) == {m \in DOMAIN output : output[m].handle = j /\ output[m].is \in kinds}

\* The USB devices of an entry that a program lists: the Zig test's buffer holds some.
Shown(j) ==
  LET all == heap[devices[j]].device.usbDevices
  IN  IF program = "c" THEN all ELSE SubSeq(all, 1, Min({UsbBuffer, Len(all)}))

\* The port chain is refused, although one as long as the buffer would fit.
TooLong(usb) == Len(usb.portChain) >= PortChainBuffer

\* The calls that pass the handle of an entry.
OnHandle == {"is_valid", "set", "get set", "begin", "get", "next"}

(* Whatever a program calls next on the handle it is at, the entry is one    *)
(* find_all filled and its handle is alive: errors on earlier handles and    *)
(* the loop's end never lead to a freed or an unfilled entry                 *)
(* (c_api_basic_usage.c:39-167, root.zig:168-172, 318).                      *)
HandlesInUseAreLive == pc \in OnHandle => index \in 1..count /\ Current \in Registered

(* Setting the iterator before the listing, or stepping it to the end        *)
(* before the next set, loses or repeats nothing: each handle a program is   *)
(* through with was listed whole, in the order of its vector, each USB       *)
(* device once; the Zig binding stops at the end of the caller's slice       *)
(* (c_api_basic_usage.c:155-166, root.zig:240-259, cfwfinder.cpp:271-293).   *)
EachListedOnceInOrder ==
  \A j \in Through :
    LET lines == LinesOf(j, {"listed"})
    IN  /\ {output[m].usb : m \in lines} = DOMAIN Shown(j)
        /\ \A m, n \in lines : m < n => output[m].usb < output[n].usb

(* Each handle is asked four times, and each answer is about the device that *)
(* was asked for, wherever the iterator had been left: the getter's device,  *)
(* or that there is none; only the Zig test may fail to read one it found    *)
(* (cfwfinder.cpp:312-350).                                                  *)
EachAnswerIsTheGetters ==
  \A j \in Through :
    LET device == heap[devices[j]].device
        answers == LinesOf(j, {"found", "missing", "unread"})
    IN  /\ {output[m].asked : m \in answers} = Range(Sets)
        /\ \A m, n \in answers : \A k, l \in DOMAIN Sets :
             m < n /\ output[m].asked = Sets[k] /\ output[n].asked = Sets[l] => k < l
        /\ \A m \in answers :
             LET target == Target(device, output[m].asked)
             IN  /\ output[m].is = "found" => output[m].usb = target
                 /\ output[m].is = "missing" <=> target = 0
                 /\ output[m].is = "unread" =>
                      program = "zig" /\ TooLong(device.usbDevices[target])

(* A program that keeps to begin, read, step and set never reads beyond the  *)
(* list: whatever a call succeeded on is a device of the handle.             *)
ReadsOnlyDevices == answer.is = "on device" => OnDevice(heap[answer.ptr])

(* An error text is about the device that was asked for, but it is no longer *)
(* than the shortest shown before it out of the same buffer, however large   *)
(* that buffer is: the size of one call is the limit of the next             *)
(* (cfwfinder_internal.hpp:29-32, c_api_basic_usage.c:23-24, 99-143,         *)
(* root.zig:392-415).                                                        *)
TextsAreCutToTheShortest ==
  \A k \in DOMAIN output : output[k].is = "missing" =>
    LET text == output[k].text
        before == {m \in 1..(k - 1) : /\ output[m].is = "missing"
                                      /\ program = "zig" => output[m].handle = output[k].handle}
    IN  /\ text.says.of = output[k].asked
        /\ text.length = Min({TextLength[text.says], ErrorBuffer[program] - 1}
                               \cup {output[m].text.length : m \in before})

(* The Zig binding reads a handle's USB devices until the list or the        *)
(* caller's slice ends, and lists all it is to read or none: if the code     *)
(* refuses the chain of one of the first UsbBuffer devices, nothing of the   *)
(* handle is listed and the test ends; if it refuses none of theirs, exactly *)
(* they are listed, whatever the chains of those beyond the slice, and       *)
(* nothing else ends the test (root.zig:67-147, 240-259, cfwfinder.cpp:540). *)
(* It refuses a chain that just fills the buffer, which is large enough to   *)
(* hold the port chain as cfwfinder.h:397 asks.                              *)
OneLongChainHidesAll ==
  /\ program = "zig" =>
       \A j \in Through :
         LET listed == {output[m].usb : m \in LinesOf(j, {"listed"})}
             size   == ListSize(heap[devices[j]].device)
         IN  /\ listed = 1..(IF size < UsbBuffer THEN size ELSE UsbBuffer)
             /\ \A k \in listed : ~TooLong(heap[devices[j]].device.usbDevices[k])
  /\ pc = "gave up" => /\ program = "zig"
                       /\ \E k \in DOMAIN Shown(index) : TooLong(Shown(index)[k])
                       /\ LinesOf(index, {"listed"}) = {}

(* What stays in the process-wide registry: of the C example the handles     *)
(* that did not fit its array, which it never gets to free; of the Zig test  *)
(* all of them (cfwfinder.cpp:89-94, 120-135, root.zig:155-175).             *)
OnlyUnreportedHandlesStay ==
  Ended =>
    LET found == Cardinality(DOMAIN scan)
    IN  Cardinality(Registered) =
          IF program = "zig" THEN found ELSE IF found > Room["c"] THEN found - Room["c"] ELSE 0

(* Both programs are callers as CApi allows them: they only pass pointers     *)
(* that find_all gave them and that they did not free, and never more room   *)
(* than their array has, so what holds of the API after any sequence of      *)
(* calls holds in them (c_api_basic_usage.c:25-29, 39, 169, root.zig:156-162).*)
UsesTheApi == Spec

(* Both programs end: listing a handle reaches the end of its list, and no   *)
(* error makes a loop start again (c_api_basic_usage.c:160-166,              *)
(* root.zig:245-257).                                                        *)
ProgramsEnd == <>Ended
=============================================================================
