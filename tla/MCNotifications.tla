--------------------------- MODULE MCNotifications ---------------------------
(* A small instance of Notifications for TLC: one notification, sent at once *)
(* or scheduled, by e-mail or push, with room for its delayed job and one    *)
(* queued by cron.                                                           *)
EXTENDS Notifications

CONSTANTS n1, j1, j2, c1, r1

MailAndPush == {"email", "push"}
OneNotification == {n1}
TwoJobs == {j1, j2}
OneCron == {c1}
OneReader == {r1}
=============================================================================
