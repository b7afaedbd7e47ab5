---------------------------- MODULE MCCronService ----------------------------
(* Instances of CronService: a nightly job and a one-shot reminder. *)
EXTENDS CronService, TLC

CONSTANTS s1, s2, c, nightly, reminder

BothJobs == {nightly, reminder}
BothKinds == (nightly :> "cron") @@ (reminder :> "at")
NightlyOnly == {nightly}
NightlyKind == (nightly :> "cron")
ReminderOnly == {reminder}
ReminderKind == (reminder :> "at")
NoJobKept == {}
=============================================================================
