-------------------------- MODULE MCConversation --------------------------
(* Conversation over four columns and a handful of fresh plans.            *)
EXTENDS Conversation

CONSTANTS region, city, day, sales, a, b

Plain == [filters |-> {}, group_by |-> {region}, metric |-> sales,
          sort |-> "desc", sort_by |-> "metric", limit |-> None,
          time_column |-> None, granularity |-> None]

Trend == [Plain EXCEPT !.group_by = {day}, !.sort_by = "time",
                       !.time_column = day, !.granularity = "month"]

\* One plan per way of being refused: by validation (a sort by time of groups
\* that are no times), by execution, and by the panel as a context.
MCFresh ==
    {Plain, Trend,
     [Trend EXCEPT !.group_by = {city}],
     [Plain EXCEPT !.metric = None],
     [Plain EXCEPT !.filters = {[column |-> region, operator |-> "=",
                                 value |-> Opaque]}]}
===========================================================================
