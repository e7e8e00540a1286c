---------------------------- MODULE MCScheduler ----------------------------
(* Small instances of Scheduler. *)
EXTENDS Scheduler

CONSTANTS a, b

\* One unit of time stands for a day, a week and a month alike.
MCPeriod == [r \in Repeat |-> 1]

FormTo(to, at, rule) ==
    [to |-> to, at |-> at, rule |-> rule, kind |-> "text", file |-> NoFile]

\* SchedulerChain: a monthly message to one number.
ChainForms == {FormTo(a, 0, "monthly")}
NoRoster == {}

\* SchedulerGroups: a picture and a repeating text to a group of one or of two,
\* which may be deleted and followed by another.
GroupForms == {[FormTo(1, 1, "none") EXCEPT !.kind = "image", !.file = 1],
               FormTo(1, 0, "weekly")}
FullRoster == {JID}
GroupRosters == {{a}, {a, b}}

\* SchedulerSettles: a message whose group may be deleted is due before one to
\* a number.
SettleForms == {FormTo(1, 0, "none"), FormTo(a, 1, "none")}
=============================================================================
