---------------------------- MODULE MCJobPipeline ----------------------------
(* Instances of JobPipeline for TLC; the .cfg files give the constants.    *)
EXTENDS JobPipeline, TLC

\* The sub-jobs of an ungated job that run are interchangeable, and so are workers.
Symmetry == Permutations(SubJobs \ Skipped) \union Permutations(Workers) \union Permutations(Handlers)

\* So are the workers alone when the sub-jobs differ.
WorkerSymmetry == Permutations(Workers)
=============================================================================
