------------------------------ MODULE CsimGpio ------------------------------
(***************************************************************************)
(* The GPIO component (csim/test-csim.c, and csim/Templates/               *)
(* template_gpio.c it is generated from): the registers MODR, IDR and ODR, *)
(* and update_pins, the function called with each message a port receives, *)
(* which works on the pin named by the global variable indxxx.             *)
(*                                                                         *)
(* update_pins and csim_send_digital call each other.  Nothing is left to  *)
(* do when the inner call returns (ODR is written with its own value), so  *)
(* that the innermost call and the number of calls stand for the stack.  A *)
(* word is the set of its bits that are 1; MODR holds two bits per pin.    *)
(***************************************************************************)
EXTENDS Integers

CONSTANTS
  Gpios,      (* the GPIO instances *)
  NbPins,     (* NB_PINS *)
  Links,      (* how ports may be connected: functions from <<inst, port>> *)
              (* to <<inst, port>> or NONE *)
  Words,      (* bound: the values written and sent *)
  Modes,      (* bound: the values written in MODR *)
  Stack,      (* bound: the calls of update_pins the stack has room for *)
  NONE        (* NULL: no message, no partner *)

ASSUME PinAssumption == NbPins \in Nat \ {0} /\ Stack \in Nat \ {0}

Pin == 0..NbPins - 1
INPUT == 0
OUTPUT == 1
Mode == 0..3

(* Ports are connected to ports, and what is written fits the registers.   *)
ASSUME WiringAssumption ==
  /\ Links \subseteq [Gpios \X Pin -> (Gpios \X Pin) \cup {NONE}]
  /\ Words \subseteq SUBSET Pin
  /\ Modes \subseteq [Pin -> Mode]

VARIABLES
  link,       (* the ports connected together *)
  mode,       (* MODR, pin by pin *)
  idr, odr,   (* IDR, ODR *)
  indxxx,     (* the global variable *)
  call,       (* the innermost call of update_pins, [inst, port, val] *)
  depth,      (* the calls of update_pins on the stack *)
  abort       (* an assertion failed *)

registers == <<mode, idr, odr>>
gpioVars == <<link, registers, indxxx, call, depth, abort>>

(* The value of a message that carries one bit. *)
Digit(bit) == IF bit THEN {0} ELSE {}

-----------------------------------------------------------------------------
(* gpio_construct, on a board where ports were connected beforehand. *)
GpioInit ==
  /\ link \in Links
  /\ mode \in [Gpios -> Modes]
  /\ idr \in [Gpios -> Words]
  /\ odr = [i \in Gpios |-> {}]
  /\ indxxx = 0
  /\ call = NONE /\ depth = 0
  /\ abort = FALSE

MainRuns == ~abort /\ call = NONE

(* update_pins_global, called by main with the first port. *)
UpdatePinsGlobal(i, val, k) ==
  /\ MainRuns
  /\ indxxx' = k
  /\ call' = [inst |-> i, port |-> 0, val |-> val] /\ depth' = 1
  /\ UNCHANGED <<link, registers, abort>>

(* Variant: the message comes back to the port it was sent on. *)
SendDigitalBack(i, x, bit) ==
  /\ abort' = (x \notin Pin)
  /\ call' = IF x \notin Pin THEN NONE ELSE [inst |-> i, port |-> 0, val |-> Digit(bit)]

(* csim_send_digital on port number x of instance i. *)
SendDigital(i, x, bit) ==
  /\ abort' = (x \notin Pin)
  /\ call' = IF x \notin Pin \/ link[<<i, x>>] = NONE THEN NONE
             ELSE [inst |-> link[<<i, x>>][1], port |-> link[<<i, x>>][2],
                   val |-> Digit(bit)]

(* Variant: pins are counted from one. *)
OnwardFromOne(pin) == call.port + pin - 1

(* The number of the port `&(port->port[pin])', counted from the one that  *)
(* received.                                                               *)
Onward(pin) == call.port + pin

SetBit(word, k, bit) == IF bit THEN word \cup {k} ELSE word \ {k}

(* update_pins.  Only the low bit of the mode of the pin is looked at.  A  *)
(* call the stack has no room for is the end of the program.               *)
UpdatePins ==
  /\ ~abort /\ call # NONE /\ depth <= Stack
  /\ LET i == call.inst
         pin == indxxx
     IN IF pin \notin Pin
        THEN call' = NONE /\ UNCHANGED <<odr, abort>>
        ELSE IF mode[i][pin] % 2 = OUTPUT
        THEN /\ odr' = [odr EXCEPT ![i] = SetBit(@, pin, pin \in call.val)]
             /\ SendDigital(i, Onward(pin), pin \in call.val)
        ELSE /\ odr' = odr
             /\ SendDigital(i, Onward(pin), pin \in idr[i])
  /\ depth' = IF call' = NONE THEN 0 ELSE depth + 1
  /\ UNCHANGED <<link, mode, idr, indxxx>>

-----------------------------------------------------------------------------
WriteMODR(i, m) ==
  /\ MainRuns
  /\ mode' = [mode EXCEPT ![i] = m]
  /\ UNCHANGED <<link, idr, odr, indxxx, call, depth, abort>>

WriteIDR(i, w) ==
  /\ MainRuns
  /\ idr' = [idr EXCEPT ![i] = w]
  /\ UNCHANGED <<link, mode, odr, indxxx, call, depth, abort>>

WriteODR(i, w) ==
  /\ MainRuns
  /\ odr' = [odr EXCEPT ![i] = w]
  /\ UNCHANGED <<link, mode, idr, indxxx, call, depth, abort>>

(* gpio_configure_pin_input (INPUT), gpio_configure_pin_output (OUTPUT):   *)
(* the high bit of the mode stays.                                         *)
Configure(i, k, m) ==
  /\ MainRuns
  /\ mode' = [mode EXCEPT ![i][k] = 2 * (@ \div 2) + m]
  /\ UNCHANGED <<link, idr, odr, indxxx, call, depth, abort>>

(* gpio_reset *)
Reset(i) ==
  /\ MainRuns
  /\ mode' = [mode EXCEPT ![i] = [k \in Pin |-> INPUT]]
  /\ idr' = [idr EXCEPT ![i] = {}]
  /\ odr' = [odr EXCEPT ![i] = {}]
  /\ UNCHANGED <<link, indxxx, call, depth, abort>>

GpioNext ==
  \/ \E i \in Gpios, w \in Words :
       \/ WriteIDR(i, w) \/ WriteODR(i, w)
       \/ \E k \in 0..NbPins : UpdatePinsGlobal(i, w, k)
  \/ \E i \in Gpios, m \in Modes : WriteMODR(i, m)
  \/ \E i \in Gpios, k \in Pin, m \in {INPUT, OUTPUT} : Configure(i, k, m)
  \/ \E i \in Gpios : Reset(i)
  \/ UpdatePins

GpioSpec == GpioInit /\ [][GpioNext]_gpioVars

(* A call that is in progress goes on, while there is room for it. *)
GpioFairSpec == GpioSpec /\ WF_gpioVars(UpdatePins)

-----------------------------------------------------------------------------
GpioTypeOK ==
  /\ mode \in [Gpios -> [Pin -> Mode]]
  /\ idr \in [Gpios -> SUBSET Pin] /\ odr \in [Gpios -> SUBSET Pin]
  /\ indxxx \in Nat
  /\ call = NONE \/ call \in [inst : Gpios, port : Pin, val : SUBSET Pin]
  /\ depth \in 0..Stack + 1
  /\ abort \in BOOLEAN

(* Links that lead to the port of the same number. *)
Straight == \A e \in DOMAIN link : link[e] # NONE => link[e][2] = e[2]

(* When links lead to ports of the same number, the recursion of           *)
(* update_pins through csim_send_digital is bounded by the pin: a message  *)
(* about pin k of NB_PINS meets at most (NB_PINS - 1) div k + 1 calls,     *)
(* however many instances it goes through and back.  (A message about pin  *)
(* 0 has no bound: it goes to and fro until the stack is full.)            *)
DepthBounded == Straight /\ indxxx > 0 => (depth - 1) * indxxx < NbPins

(* Such a message moves on to a higher port each time an instance passes   *)
(* it on: the calls return, or csim_send_digital refuses a port, before    *)
(* the stack is full, although each link leads back.                       *)
CascadeEnds ==
  (Straight /\ call # NONE /\ indxxx > 0) ~> (call = NONE \/ abort)

=============================================================================
