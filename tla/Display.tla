------------------------------ MODULE Display ------------------------------
(***************************************************************************)
(* Drivers and their masters (kernel/src/proc/drvmaster.c) and the service *)
(* calls (kernel/src/uapi), with the one service that needs a master, the  *)
(* screen.                                                                 *)
(*                                                                         *)
(* A command to the screen is a burst of requests: the first names it, the *)
(* rest are its arguments.  Where a burst stands is kept in static         *)
(* variables, one copy for all processes; that processes do not take part  *)
(* in each other's bursts is up to the claims of drvmaster.c.              *)
(***************************************************************************)
EXTENDS Integers, Sequences, SequencesExt

CONSTANTS
  Proc,                   \* the processes
  Claimers,               \* those with PPERM_DRVCLAIM
  DRIVERTYPE_COUNT,       \* 1 in the code
  DRVMASTER_MAX_SLAVES,   \* 25 in the code
  Data                    \* the values of requests and arguments

ASSUME DisplayAssumption ==
  /\ Claimers \subseteq Proc
  /\ DRIVERTYPE_COUNT \in Nat \ {0} /\ DRVMASTER_MAX_SLAVES \in Nat \ {0}
  /\ {0, 1} \subseteq Data /\ Data \subseteq Nat

DRIVERTYPE_DISPLAY == 1
SCREENUAPI_CLEARSCREEN == 0
SCREENUAPI_PUTPIXEL == 1
Service == {"KEYB", "SCREEN", "PROCINFO"}
Status == {"OK", "INVALID_ARG", "INVALID_SERVICE", "PERMISSION_DENIED", "CMDBURST_CONTINUE"}

Nothing == <<>>

VARIABLES
  live,                          \* processes that did not end
  drivertypes,                   \* the drivers marked as claimed
  slave_driver_groups,           \* the drivers each process claimed
  cmd_bursting, saved_req,       \* statics of screen_uapi
  data_index, arg,               \* statics of process_req: x, y and color
  drawn,                         \* the call the last step made to lfb.c
  rax,                           \* status of the last service call
  sent,    \* history: the requests of the command each process is sending
  asked    \* history: the command that was complete with the last request

claims == <<drivertypes, slave_driver_groups>>
burst == <<cmd_bursting, saved_req, data_index, arg>>
vars == <<live, claims, burst, drawn, rax, sent, asked>>

Init ==
  /\ live = Proc
  /\ drivertypes = {} /\ slave_driver_groups = [p \in Proc |-> <<>>]
  /\ cmd_bursting = FALSE /\ saved_req = 0
  /\ data_index = 0 /\ arg = [x |-> 0, y |-> 0, color |-> 0]
  /\ drawn = Nothing /\ rax = "OK"
  /\ sent = [p \in Proc |-> <<>>] /\ asked = Nothing

-----------------------------------------------------------------------------
(* drvmaster.c.                                                            *)

\* Mutant: the test for a claimed driver is missing.
ClaimableTwice(p, d) ==
  /\ d \in 1..DRIVERTYPE_COUNT
  /\ d \notin ToSet(slave_driver_groups[p])
  /\ Len(slave_driver_groups[p]) # DRVMASTER_MAX_SLAVES - 1
  /\ p \in Claimers

\* The five tests of drv_claim.
Claimable(p, d) ==
  /\ d \in 1..DRIVERTYPE_COUNT
  /\ d \notin drivertypes
  /\ d \notin ToSet(slave_driver_groups[p])
  /\ Len(slave_driver_groups[p]) # DRVMASTER_MAX_SLAVES - 1
  /\ p \in Claimers

\* System call 2.  A refused call changes nothing.
drv_claim(p, d) ==
  /\ p \in live
  /\ Claimable(p, d)
  /\ drivertypes' = drivertypes \cup {d}
  /\ slave_driver_groups' = [slave_driver_groups EXCEPT ![p] = Append(@, d)]
  /\ drawn' = Nothing /\ asked' = Nothing
  /\ UNCHANGED <<live, burst, rax, sent>>

\* Mutant: everybody passes.
verify_anybody(p) == TRUE

verify_drvmaster(p) == DRIVERTYPE_DISPLAY \in ToSet(slave_driver_groups[p])

-----------------------------------------------------------------------------
(* The screen service.                                                     *)

MaxArgs(cmd) == IF cmd = SCREENUAPI_CLEARSCREEN THEN 1 ELSE 3

\* Where process_req puts argument number data_index.
Stored(req) ==
  IF saved_req = SCREENUAPI_CLEARSCREEN
  THEN IF data_index = 0 THEN [arg EXCEPT !.color = req] ELSE arg
  ELSE CASE data_index = 0 -> [arg EXCEPT !.x = req]
         [] data_index = 1 -> [arg EXCEPT !.y = req]
         [] data_index = 2 -> [arg EXCEPT !.color = req]

\* lfb_clear_screen(color) or lfb_put_pixel(x, y, color).
Call(a) ==
  IF saved_req = SCREENUAPI_CLEARSCREEN THEN <<"clear", a.color>>
  ELSE <<"pixel", a.x, a.y, a.color>>

\* Mutant: one argument too many is waited for.
LastArgumentLate == data_index >= MaxArgs(saved_req)

LastArgument == data_index + 1 >= MaxArgs(saved_req)

process_req(req) ==
  /\ arg' = Stored(req)
  /\ IF LastArgument
     THEN /\ data_index' = 0 /\ drawn' = Call(arg') /\ rax' = "OK"
          /\ saved_req' = 0 /\ cmd_bursting' = FALSE
     ELSE /\ data_index' = data_index + 1 /\ drawn' = Nothing
          /\ rax' = "CMDBURST_CONTINUE"
          /\ UNCHANGED <<saved_req, cmd_bursting>>

\* A request that starts no burst and belongs to none is accepted as well.
BeginBurst(req) ==
  /\ cmd_bursting' = (req \in {SCREENUAPI_CLEARSCREEN, SCREENUAPI_PUTPIXEL})
  /\ saved_req' = IF cmd_bursting' THEN req ELSE saved_req
  /\ rax' = "OK" /\ drawn' = Nothing
  /\ UNCHANGED <<data_index, arg>>

screen_uapi(p, req) ==
  \/ ~ verify_drvmaster(p) /\ rax' = "PERMISSION_DENIED" /\ drawn' = Nothing /\ UNCHANGED burst
  \/ verify_drvmaster(p) /\ ~ cmd_bursting /\ BeginBurst(req)
  \/ verify_drvmaster(p) /\ cmd_bursting /\ process_req(req)

\* History: p's own view of its requests to the screen, from the claim on.
Follow(p, req) ==
  LET s == IF sent[p] = <<>> /\ req \notin {SCREENUAPI_CLEARSCREEN, SCREENUAPI_PUTPIXEL}
           THEN <<>> ELSE Append(sent[p], req)
      done == s # <<>> /\ Len(s) = 1 + MaxArgs(s[1])
  IN /\ sent' = [sent EXCEPT ![p] = IF done THEN <<>> ELSE s]
     /\ asked' = IF ~ done THEN Nothing
                 ELSE <<IF s[1] = SCREENUAPI_CLEARSCREEN THEN "clear" ELSE "pixel">> \o Tail(s)

-----------------------------------------------------------------------------
(* System call 1.                                                          *)

\* sysreq(service, req, &output), without the output: the keyboard and procinfo
\* services answer request 0 and change nothing here.
sysreq(p, service, req) ==
  \/ /\ service \notin Service
     /\ rax' = "INVALID_SERVICE"
     /\ drawn' = Nothing /\ asked' = Nothing
     /\ UNCHANGED <<burst, sent>>
  \/ /\ service \in {"KEYB", "PROCINFO"}
     /\ rax' = IF req = 0 THEN "OK" ELSE "INVALID_ARG"
     /\ drawn' = Nothing /\ asked' = Nothing
     /\ UNCHANGED <<burst, sent>>
  \/ /\ service = "SCREEN"
     /\ screen_uapi(p, req)
     /\ IF DRIVERTYPE_DISPLAY \in ToSet(slave_driver_groups[p])
        THEN Follow(p, req) ELSE asked' = Nothing /\ UNCHANGED sent

sys_req(p, service, req) ==
  /\ p \in live
  /\ sysreq(p, service, req)
  /\ UNCHANGED <<live, claims>>

\* exit, as far as drivers go: kill leaves drivertypes alone.
Exit(p) ==
  /\ p \in live /\ live' = live \ {p}
  /\ drawn' = Nothing /\ asked' = Nothing
  /\ UNCHANGED <<claims, burst, rax, sent>>

Next ==
  \E p \in Proc :
    \/ \E d \in 0..(DRIVERTYPE_COUNT + 1) : drv_claim(p, d)
    \/ \E s \in Service \cup {"none"}, req \in Data : sys_req(p, s, req)
    \/ Exit(p)

Spec == Init /\ [][Next]_vars

-----------------------------------------------------------------------------
(* Properties.                                                             *)

TypeOK ==
  /\ live \subseteq Proc /\ drivertypes \subseteq 1..DRIVERTYPE_COUNT
  /\ slave_driver_groups \in [Proc -> Seq(1..DRIVERTYPE_COUNT)]
  /\ cmd_bursting \in BOOLEAN /\ saved_req \in {0, 1} /\ data_index \in 0..2
  /\ arg \in [x : Data, y : Data, color : Data]
  /\ rax \in Status

\* A driver has one master, also among the dead: a claim outlives the process
\* that made it, and nobody else gets the driver.  drv_claim.
SoleMaster ==
  \A d \in 1..DRIVERTYPE_COUNT :
    LET masters == {p \in Proc : d \in ToSet(slave_driver_groups[p])}
    IN /\ \A p, q \in masters : p = q
       /\ d \in drivertypes <=> masters # {}

\* Every call to the frame buffer is the command one process sent, argument
\* by argument, and every command sent is carried out: the static state of
\* the burst never mixes two processes, or a process and a dead one's rest.
DrawsWhatWasAsked == drawn = asked
=============================================================================
