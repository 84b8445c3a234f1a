SPECIFICATION Spec
CONSTANTS
    Delivery = {d1, d2}
    Input <- MCInput
    RawSchemas <- MCRawSchemas
    QueueNames = {"codereview", "typed", "free"}
    WebhookQueue = "codereview"
    ExponentForm <- MCExponentForm
CHECK_DEADLOCK FALSE
INVARIANTS ToldTheTruth AdmittedAsDocumented PushedFilesNamedOnce
