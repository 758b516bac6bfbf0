----------------------------- MODULE MetricTypes -----------------------------
(***************************************************************************)
(* The kinds of metric that the generated metadata packages declare, as    *)
(* init of a metric sets them, and the configuration of a metric.          *)
(***************************************************************************)

(* A metric: cumulative and monotonic, cumulative, or a gauge; its values  *)
(* are integers or doubles; its points have these attributes.              *)
Counter(name, value, attributes) ==
  [name |-> name, type |-> "Sum", monotonic |-> TRUE,
   value |-> value, attributes |-> attributes]

UpDownCounter(name, value, attributes) ==
  [name |-> name, type |-> "Sum", monotonic |-> FALSE,
   value |-> value, attributes |-> attributes]

Gauge(name, value, attributes) ==
  [name |-> name, type |-> "Gauge", monotonic |-> FALSE,
   value |-> value, attributes |-> attributes]

Strategies == {"sum", "avg", "min", "max"}

(* The configuration of a metric before the user's: all its attributes,    *)
(* sums are added up and gauges averaged.                                  *)
DefaultConfig(m, enabled) ==
  [enabled |-> enabled, attributes |-> m.attributes,
   strategy |-> IF m.type = "Sum" THEN "sum" ELSE "avg"]

(* Validate: only attributes that the metric has, and a known strategy.    *)
(* The configuration of a metric without attributes has neither.           *)
Validate(m, config) ==
  /\ config.attributes \subseteq m.attributes
  /\ config.strategy \in Strategies
=============================================================================
