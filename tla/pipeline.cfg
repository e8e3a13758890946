\* runs killed and resumed in one directory; two tasks with the same question
SPECIFICATION FairSpec
CONSTANTS
    extract = extract
    graph = graph
    final = final
    t1 = t1
    t2 = t2
    t3 = t3
    t4 = t4
    Workflows <- MCWorkflows
    DependsOn <- MCDependsOn
    Tasks <- MCTasks
    WorkflowOf <- MCWorkflowOf
    Swallowing <- MCSwallowing
    KeyOf <- MCKeyOf
    Slots = 1
    MaxAttempts = 2
    NoWorkflow = NoWorkflow
    NoTable = NoTable
    MaxRuns = 2
INVARIANTS TablesConsistent SuccessMeansWhole StoredAnswersReused RowsLostToTwins
PROPERTY PipelineEnds
CHECK_DEADLOCK FALSE
