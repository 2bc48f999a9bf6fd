---------------------------- MODULE MCConverter ----------------------------
(* Blocks of one long or three short events; triggers without a pre-trigger *)
(* and with one of two events.                                              *)
EXTENDS Converter

MCType == {"RTC", "TRIGGER", "MESSAGE", "VERSION"}
MCSize == [t \in MCType |-> IF t = "MESSAGE" THEN 2 ELSE 1]
MCPreTrigger == {0, 2}
============================================================================
