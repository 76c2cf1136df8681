------------------------- MODULE MCScenarioSettings -------------------------
(* Model values and template choices for ScenarioSettings. *)
EXTENDS ScenarioSettings

CONSTANTS n1, n2, x1, a1, a2, a3

MCNodes == {n1, n2}
MCExternal == {x1}
MCWalletAliases == {a1, a2, a3}

\* trusted peers: none, another node, the node itself, or an unknown alias
MCPeerChoices == {<<>>, <<n2>>, <<n1>>, <<x1>>}

\* leaders: none, one node, a node listed twice around an external key,
\* two nodes
MCLeaderChoices == {<<>>, <<n1>>, <<n1, x1, n1>>, <<n2, n1>>}

\* what a wallet template may be: its type and delegation
Kinds == {[type |-> "account", delegate |-> n1],
          [type |-> "account", delegate |-> n2],
          [type |-> "account", delegate |-> NoDelegate],
          [type |-> "utxo", delegate |-> NoDelegate],
          [type |-> "utxo", delegate |-> n1],
          [type |-> "account", delegate |-> x1]}

\* up to three templates; the i-th is named names[i]
TemplatesNamed(names) ==
    UNION {{[i \in 1..len |-> [alias |-> names[i], type |-> f[i].type,
                               delegate |-> f[i].delegate]]
            : f \in [1..len -> Kinds]}
           : len \in 0..Len(names)}

\* distinct aliases
MCTemplateChoices == TemplatesNamed(<<a1, a2, a3>>)

\* two templates under the same alias (the TODO at settings.rs:138)
MCTemplateChoicesDup == TemplatesNamed(<<a1, a1>>)
=============================================================================
