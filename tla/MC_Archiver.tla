---------------------------- MODULE MC_Archiver ----------------------------
(***************************************************************************)
(* Bounds for Archiver.  Days of two ticks and an archive age of one tick *)
(* put a cycle's cutoff inside a day, as six-hourly cycles with a 24-hour *)
(* age do; retention at four ticks can overtake an archiver whose cycles  *)
(* fail; a cap of two trades makes rotate remove files.                   *)
(***************************************************************************)
EXTENDS Archiver

MC_DayLen == 2
MC_MaxAge == 1
MC_RetAge == 4
MC_MaxBytes == 2
MC_MaxTime == 6
MC_MaxTrades == 3

=============================================================================
