--------------------------- MODULE MCOffsetSearch ---------------------------
(***************************************************************************)
(* The kernel and two drivers, one of them a file of the kernel's name in  *)
(* another directory, whose exports have the kernel's names but not its    *)
(* code.                                                                   *)
(***************************************************************************)
EXTENDS OffsetSearch, TLC

MCModule == {"ntos", "twin", "drv"}
MCPathOf == [m \in MCModule |-> CASE m = "ntos" -> "\\system32\\ntoskrnl.exe"
                                 [] m = "twin" -> "\\drivers\\ntoskrnl.exe"
                                 [] m = "drv" -> "\\drivers\\drv.sys"]
MCFileOf == [m \in MCModule |-> IF m = "drv" THEN "drv.sys" ELSE "ntoskrnl.exe"]

MCRoutineOf == [i \in Item |->
  CASE i = "image base" -> "PsGetProcessSectionBaseAddress"
    [] i = "process id" -> "PsGetProcessId"
    [] i = "peb" -> "PsGetProcessPeb"
    [] i = System -> "PsInitialSystemProcess"]
Routines == {MCRoutineOf[i] : i \in DOMAIN MCRoutineOf}
MCExports == [m \in MCModule |-> IF m = "drv" THEN {"PsGetProcessId"} ELSE Routines]

MCFieldOffset == [f \in Field |->
  CASE f = "image base" -> 3 [] f = "process id" -> 2 [] f = "peb" -> 1]

Other == [op |-> "other", disp |-> 0]
Ret == [op |-> "ret", disp |-> 0]
Mov(d) == [op |-> "mov", disp |-> d]

\* The accessor of a field, in the kernel; the next function follows it.
SimpleAccessor(f) == <<Other, Mov(MCFieldOffset[f]), Ret, Mov(7)>>
NoAccessor == <<Other, Ret, Mov(7)>>

Image(odd) ==
  [r \in MCModule \X Routines |->
     IF r[1] = "ntos" /\ \E f \in Field : r[2] = MCRoutineOf[f]
     THEN LET f == CHOOSE f \in Field : r[2] = MCRoutineOf[f]
          IN  IF f \in odd THEN NoAccessor ELSE SimpleAccessor(f)
     ELSE <<Mov(9), Ret>>]

\* PsGetProcessPeb may be written in another way.
MCImages == {Image({}), Image({"peb"})}

MCRequest == {[name |-> "drv.sys", routine |-> "PsGetProcessId"],
              [name |-> "ntoskrnl.exe", routine |-> "NoSuchRoutine"],
              [name |-> "", routine |-> "PsGetProcessId"]}

Symmetry == Permutations(Thread)
=============================================================================
