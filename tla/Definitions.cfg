SPECIFICATION FairSpec
CONSTANTS
    Unset = Unset
    Malformed = Malformed
    NameLength <- MCNameLength
    RollbackKey <- MCRollbackKey
    FirstSegment <- MCFirstSegment
    Expression <- MCExpression
    SensitiveField <- MCSensitiveField
    NoText = NoText
    Redacted = Redacted
    Cut <- MCCut
    PluginName = {"ops", "restart", "a", "b", "db"}
    NoPermission = NoPermission
    MaxActions = 3
    MaxDescription = 5
    MaxVersion = 2
    MaxManifest = 25
    MaxRequest = 30
    MaxResponse = 20
    RequestEnvelope = 10
    ResponseEnvelope = 5
    Request = {q1, q2, q3}
    NoRequest = NoRequest
    RunbookName = {"rb"}
    PolicyName = {"page"}
    PluginKey = {"ops"}
    Offers <- MCOffers
    NoPlugin = NoPlugin
    NoWork = NoWork
    Event <- MCEvent
INVARIANTS
    StoredRunbooksRun
    DecisionsAreExplained
    RegisteredPluginsWork
    AppliedIsPublished
PROPERTIES
    ImplementsRegistry
    RequestsFinish
CHECK_DEADLOCK FALSE
