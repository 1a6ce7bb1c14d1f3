----------------------------- MODULE MCExecImage ------------------------------
(***************************************************************************)
(* ExecImage with one ELF file, one file of a format that rewrites, one    *)
(* that no handler accepts, and as many mms as are ever in use.            *)
(***************************************************************************)
EXTENDS ExecImage

CONSTANTS binary, script, junk, script_format, m1, m2, m3

MCFile == {binary, script, junk}
MCFormat == {Elf, script_format}
MCMm == {m1, m2, m3}
MCFormatOf ==
  [f \in MCFile |-> IF f = binary THEN Elf
                    ELSE IF f = script THEN script_format ELSE NoFormat]
MCPrintable == {script}

===============================================================================
