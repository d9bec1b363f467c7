----------------------------- MODULE MCMoeTrace -----------------------------
EXTENDS MoeTrace

\* Every command line with limits below, at and above a ubatch boundary.
MCArguments ==
    [contrib : BOOLEAN, vecs : {FALSE}, max_tokens : {0, 3, 4}, vec_tokens : {5}, chunk : {0, 3}]
    \cup [contrib : {FALSE}, vecs : {TRUE}, max_tokens : {0, 3}, vec_tokens : {0, 1, 4}, chunk : {3, 9}]

\* Models whose tensors all fit, or with one tensor kind of one layer that does not.
MCModels ==
    {{}, {<<"topk", 1>>}, {<<"topk", 2>>}, {<<"stride", 2>>}, {<<"weights", 1>>}, {<<"weights", 2>>},
     {<<"down", 2>>}}
=============================================================================
