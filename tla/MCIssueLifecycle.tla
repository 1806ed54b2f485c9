-------------------------- MODULE MCIssueLifecycle --------------------------
(* The three trackers of export/issue_sinks.py.                               *)
EXTENDS IssueLifecycle

GitHub     == [reopens |-> TRUE,  asks |-> TRUE,  commentsFirst |-> TRUE]
Jira       == [reopens |-> TRUE,  asks |-> FALSE, commentsFirst |-> TRUE]
ServiceNow == [reopens |-> FALSE, asks |-> FALSE, commentsFirst |-> FALSE]

AllTrackers == {GitHub, Jira, ServiceNow}
OnlyGitHub == {GitHub}
=============================================================================
