---------------------------- MODULE MCTaskManager ----------------------------
(* Two tasks of one serial queue, one of them delayed, a cron task, one of    *)
(* Add and one of AddAfter, and any three of them added.  A concurrent task   *)
(* takes the steps of a serial one, alone in its mailbox: there is none.     *)
EXTENDS TaskManager

CONSTANTS call, afterwards, deferred, first, second, box1, box2

MCClosure == {call}
MCAfter == {afterwards}
MCDirect == {deferred}
MCSerial == {first, second}
MCConcurrent == {}
MCDelayed == {deferred, second}
MCCron == {deferred}
MCReturning == {first}
MCSerialBox == {box1, box2}
=============================================================================
